---------------------------- MODULE Wiring_proofs ----------------------------
(***************************************************************************)
(* What the operators of Wiring and of the modules below it compute, for   *)
(* every home, request and configuration.  These are the facts the proofs  *)
(* about GatewayProcess rest on: where the App's catalogue, policy and     *)
(* clients agree with the Core's, what a batch holds, and what a gateway   *)
(* is whatever its options are.                                            *)
(***************************************************************************)
EXTENDS Wiring, FiniteSetTheorems, SequenceTheorems, TLAPS

-----------------------------------------------------------------------------
(* Natural numbers: the least of a set, induction by it, recursion.         *)

\* Every set of natural numbers that is not empty has a least element.
LEMMA LeastNat ==
  ASSUME NEW T \in SUBSET Nat, T # {}
  PROVE  \E x \in T : \A y \in T : x <= y
  <1>1. IsWellFoundedOn(OpToRel(<,Nat), Nat)
    BY NatLessThanWellFounded
  <1>2. \E x \in T : \A y \in T : ~(<<y, x>> \in OpToRel(<,Nat))
    BY <1>1, WFMin
  <1>3. \A x, y \in Nat : <<y, x>> \in OpToRel(<,Nat) <=> y < x
    BY DEF OpToRel
  <1>4. T \subseteq Nat
    OBVIOUS
  <1>5. \E x \in T : \A y \in T : ~(y < x)
    BY <1>2, <1>3, <1>4, Zenon
  <1>6. QED
    BY <1>5

\* A set that holds nought and, with a number, the next holds them all.
LEMMA Inductive ==
  ASSUME NEW I \in SUBSET Nat, 0 \in I, \A n \in I : n + 1 \in I
  PROVE  I = Nat
  <1>1. SUFFICES ASSUME Nat \ I # {}  PROVE FALSE
    OBVIOUS
  <1>2. PICK x \in Nat \ I : \A y \in Nat \ I : x <= y
    BY <1>1, LeastNat
  <1>3. x - 1 \in Nat /\ x - 1 \notin Nat \ I
    BY <1>2
  <1>4. x - 1 \in I /\ (x - 1) + 1 = x
    BY <1>2, <1>3
  <1>5. QED
    BY <1>2, <1>4

\* The first of a set of positions is the least of them.
LEMMA FirstIsLeast ==
  ASSUME NEW P \in SUBSET Nat, P # {}
  PROVE  First(P) \in P /\ \A j \in P : First(P) <= j
  BY LeastNat DEF First

\* What the first n steps of a recursion are.
Begun(n, start, step, S) ==
  {f \in [0 .. n -> S] : f[0] = start /\ \A m \in 0 .. (n - 1) : f[m + 1] = step[f[m]]}

\* What is defined step by step from a start exists.
LEMMA NatRecursion ==
  ASSUME NEW S, NEW start \in S, NEW step \in [S -> S]
  PROVE  \E g \in [Nat -> S] : g[0] = start /\ \A n \in Nat : g[n + 1] = step[g[n]]
  <1> DEFINE B(n) == Begun(n, start, step, S)
             I == {n \in Nat : B(n) # {}}
             J == {n \in Nat : \A k \in Nat : \A f \in B(n), h \in B(n + k) : f[n] = h[n]}
             g == [n \in Nat |-> (CHOOSE f \in B(n) : TRUE)[n]]
  <1>1. 0 \in I
    <2>1. [i \in 0 .. 0 |-> start] \in B(0)
      BY DEF Begun
    <2>2. QED
      BY <2>1
  <1>2. ASSUME NEW n \in I  PROVE n + 1 \in I
    <2>1. PICK f : f \in B(n)
      OBVIOUS
    <2>2. f \in [0 .. n -> S] /\ f[0] = start /\ \A m \in 0 .. (n - 1) : f[m + 1] = step[f[m]]
      BY <2>1 DEF Begun
    <2> DEFINE h == [i \in 0 .. (n + 1) |-> IF i <= n THEN f[i] ELSE step[f[n]]]
    <2>3. n \in Nat
      OBVIOUS
    <2>4. h \in [0 .. (n + 1) -> S]
      BY <2>2, <2>3
    <2>5. h[0] = start /\ \A m \in 0 .. n : h[m + 1] = step[h[m]]
      BY <2>2, <2>3
    <2>6. h \in B(n + 1)
      <3>1. (n + 1) - 1 = n
        BY <2>3
      <3> HIDE DEF h
      <3>2. QED
        BY <2>4, <2>5, <3>1 DEF Begun
    <2>7. QED
      BY <2>3, <2>6
  <1>3. I = Nat
    <2> HIDE DEF I
    <2>1. I \in SUBSET Nat
      BY DEF I
    <2>2. QED
      BY <1>1, <1>2, <2>1, Inductive
  <1>4. 0 \in J
    BY DEF Begun
  <1>5. ASSUME NEW n \in J  PROVE n + 1 \in J
    <2> SUFFICES ASSUME NEW k \in Nat, NEW f \in B(n + 1), NEW h \in B((n + 1) + k)
                 PROVE  f[n + 1] = h[n + 1]
      OBVIOUS
    <2>1. n \in Nat /\ (n + 1) + k = n + (k + 1)
      OBVIOUS
    <2>2. PICK e : e \in B(n)
      BY <1>3, <2>1
    <2>3. e[n] = f[n] /\ e[n] = h[n]
      BY <2>1, <2>2
    <2>4. f[n + 1] = step[f[n]]
      BY <2>1 DEF Begun
    <2>5. h[n + 1] = step[h[n]]
      BY <2>1 DEF Begun
    <2>6. QED
      BY <2>3, <2>4, <2>5
  <1>6. J = Nat
    <2> HIDE DEF J
    <2>1. J \in SUBSET Nat
      BY DEF J
    <2>2. QED
      BY <1>4, <1>5, <2>1, Inductive
  <1>7. ASSUME NEW n \in Nat  PROVE (CHOOSE f \in B(n) : TRUE) \in B(n)
    BY <1>3
  <1>8. g \in [Nat -> S]
    <2>1. ASSUME NEW n \in Nat  PROVE (CHOOSE f \in B(n) : TRUE)[n] \in S
      <3>1. PICK e : e = (CHOOSE f \in B(n) : TRUE)
        OBVIOUS
      <3>2. e \in B(n) /\ n \in 0 .. n
        BY <1>7, <3>1
      <3>3. e[n] \in S
        BY <3>2 DEF Begun
      <3>4. QED
        BY <3>1, <3>3
    <2>2. QED
      BY <2>1
  <1>9. g[0] = start
    <2>1. (CHOOSE f \in B(0) : TRUE) \in B(0)
      BY <1>7
    <2>2. QED
      BY <2>1 DEF Begun
  <1>10. ASSUME NEW n \in Nat  PROVE g[n + 1] = step[g[n]]
    <2> DEFINE e == CHOOSE f \in B(n) : TRUE
               h == CHOOSE f \in B(n + 1) : TRUE
    <2>1. e \in B(n) /\ h \in B(n + 1)
      BY <1>7
    <2>2. e[n] = h[n]
      <3> HIDE DEF e, h
      <3>1. n \in J
        BY <1>6
      <3>2. QED
        BY <2>1, <3>1
    <2>3. h[n + 1] = step[h[n]]
      <3> HIDE DEF e, h
      <3>1. QED
        BY <2>1 DEF Begun
    <2>4. g[n] = e[n] /\ g[n + 1] = h[n + 1]
      OBVIOUS
    <2>5. QED
      BY <2>2, <2>3, <2>4
  <1>11. QED
    BY <1>8, <1>9, <1>10

-----------------------------------------------------------------------------
(* Groups and batches.                                                      *)

\* What members come to is in the home, if the groups among them are.
LEMMA JoinedInHome ==
  ASSUME NEW snapshot, NEW E, E = {e.ref : e \in snapshot.entities},
         NEW g, NEW inner, \A h \in snapshot.groups : inner[h] \subseteq E
  PROVE  Joined(snapshot, g, inner) \subseteq E
  <1>1. ASSUME NEW i  PROVE Part(snapshot, g, inner, i) \subseteq E
    <2>1. CASE IsGroup(snapshot, g.members[i])
      <3>1. GroupNamed(snapshot, g.members[i]) \in snapshot.groups
        BY <2>1 DEF IsGroup, GroupNamed
      <3>2. QED
        BY <2>1, <3>1 DEF Part
    <2>2. CASE ~IsGroup(snapshot, g.members[i])
      BY <2>2 DEF Part, SafeMember
    <2>3. QED
      BY <2>1, <2>2
  <1>2. UNION {Part(snapshot, g, inner, i) : i \in DOMAIN g.members} \subseteq E
    BY <1>1
  <1>3. QED
    BY <1>2 DEF Joined

\* What is good for a group as long as nothing is known of it, and when the
\* groups it holds are good, is so for every group that was resolved.
LEMMA ResolvedKeeps ==
  ASSUME NEW snapshot, NEW T, \A h \in snapshot.groups : {} \in T[h],
         \A h \in snapshot.groups : \A inner :
           (\A i \in snapshot.groups : inner[i] \in T[i]) => Joined(snapshot, h, inner) \in T[h],
         NEW g \in snapshot.groups
  PROVE  Resolve(snapshot)[g] \in T[g]
  <1> DEFINE G == snapshot.groups
             refs == {h.ref : h \in G}
             S == {w \in [G -> [SUBSET refs -> UNION {T[h] : h \in G}]] :
                     \A h \in G, visiting \in SUBSET refs : w[h][visiting] \in T[h]}
             deeper(w, h, visiting) == [i \in G |-> w[i][visiting \cup {h.ref}]]
             next(w) == [h \in G |-> [visiting \in SUBSET refs |->
                           IF ~ValidShape(snapshot, h) \/ h.ref \in visiting THEN {}
                           ELSE Joined(snapshot, h, deeper(w, h, visiting))]]
             body(n, W) == [h \in G |-> [visiting \in SUBSET refs |->
                              IF n = 0 \/ ~ValidShape(snapshot, h) \/ h.ref \in visiting THEN {}
                              ELSE Joined(snapshot, h, deeper(W[n - 1], h, visiting))]]
             whole(W) == [n \in Nat |-> body(n, W)]
             step == [w \in S |-> next(w)]
             start == [h \in G |-> [visiting \in SUBSET refs |-> {}]]
             within == CHOOSE W : W = whole(W)
  <1>1. start \in S
    OBVIOUS
  <1>2. ASSUME NEW w \in S  PROVE next(w) \in S
    <2>1. ASSUME NEW h \in G, NEW visiting \in SUBSET refs
          PROVE  Joined(snapshot, h, deeper(w, h, visiting)) \in T[h]
      <3>1. ASSUME NEW i \in G  PROVE deeper(w, h, visiting)[i] \in T[i]
        <4>1. visiting \cup {h.ref} \in SUBSET refs
          OBVIOUS
        <4>2. QED
          BY <4>1
      <3> HIDE DEF deeper
      <3>2. QED
        BY <3>1
    <2>2. ASSUME NEW h \in G, NEW visiting \in SUBSET refs
          PROVE  next(w)[h][visiting] \in T[h]
      BY <2>1
    <2>3. next(w) \in [G -> [SUBSET refs -> UNION {T[h] : h \in G}]]
      <3>1. ASSUME NEW h \in G, NEW visiting \in SUBSET refs
            PROVE  next(w)[h][visiting] \in UNION {T[i] : i \in G}
        BY <2>2
      <3>2. QED
        BY <3>1
    <2> HIDE DEF next
    <2>4. QED
      BY <2>2, <2>3
  <1>3. step \in [S -> S]
    BY <1>2
  <1>4. PICK V \in [Nat -> S] : V[0] = start /\ \A n \in Nat : V[n + 1] = step[V[n]]
    <2> HIDE DEF S, step, start
    <2>1. QED
      BY <1>1, <1>3, NatRecursion
  <1>5. V = whole(V)
    <2>1. ASSUME NEW n \in Nat  PROVE V[n] = body(n, V)
      <3>1. CASE n = 0
        <4>1. body(0, V) = start
          OBVIOUS
        <4> HIDE DEF body, start, step, S
        <4>2. QED
          BY <1>4, <3>1, <4>1
      <3>2. CASE n # 0
        <4>1. n - 1 \in Nat /\ (n - 1) + 1 = n
          BY <3>2
        <4>2. V[n] = step[V[n - 1]] /\ V[n - 1] \in S
          <5> HIDE DEF S, step, start
          <5>1. QED
            BY <1>4, <4>1
        <4>3. V[n] = next(V[n - 1])
          BY <4>2
        <4>4. next(V[n - 1]) = body(n, V)
          BY <3>2
        <4>5. QED
          BY <4>3, <4>4
      <3>3. QED
        BY <3>1, <3>2
    <2>2. QED
      <3> HIDE DEF body, S
      <3>1. QED
        BY <1>4, <2>1
  <1>6. within = whole(within)
    <2> HIDE DEF whole
    <2>1. QED
      BY <1>5
  <1>7. \A n \in Nat : within[n] = body(n, within)
    <2> HIDE DEF body, within
    <2>1. QED
      BY <1>6
  <1> DEFINE I == {n \in Nat : within[n] \in S}
  <1>8. 0 \in I
    <2>1. within[0] = body(0, within)
      BY <1>7
    <2>2. body(0, within) = start
      <3> HIDE DEF within
      <3>1. QED
        OBVIOUS
    <2>3. QED
      <3> HIDE DEF within, body, S, start
      <3>1. QED
        BY <1>1, <2>1, <2>2
  <1>9. ASSUME NEW n \in I  PROVE n + 1 \in I
    <2>1. n \in Nat /\ n + 1 \in Nat /\ n + 1 # 0 /\ (n + 1) - 1 = n
      OBVIOUS
    <2>2. within[n + 1] = body(n + 1, within)
      <3> HIDE DEF body, within
      <3>1. QED
        BY <1>7, <2>1
    <2>3. body(n + 1, within) = next(within[n])
      <3> HIDE DEF within
      <3>1. QED
        BY <2>1
    <2>4. next(within[n]) \in S
      <3> HIDE DEF within, next, S
      <3>1. QED
        BY <1>2
    <2>5. QED
      <3> HIDE DEF within, body, next, S
      <3>1. QED
        BY <2>1, <2>2, <2>3, <2>4
  <1>10. I = Nat
    <2> HIDE DEF I
    <2>1. I \in SUBSET Nat
      BY DEF I
    <2>2. QED
      BY <1>8, <1>9, <2>1, Inductive
  <1>11. within[MaxNesting][g][{}] \in T[g]
    <2>1. MaxNesting \in I
      <3> HIDE DEF I
      <3>1. QED
        BY <1>10 DEF MaxNesting
    <2>2. within[MaxNesting] \in S
      BY <2>1
    <2>3. QED
      <3> HIDE DEF within
      <3>1. QED
        BY <2>2
  <1>12. Resolve(snapshot)[g] = within[MaxNesting][g][{}]
    BY Zenon DEF Resolve
  <1>13. QED
    BY <1>11, <1>12

\* A resolved group holds entities of the home.
LEMMA ResolvedInHome ==
  ASSUME NEW snapshot, NEW g \in snapshot.groups
  PROVE  Resolve(snapshot)[g] \subseteq {e.ref : e \in snapshot.entities}
  <1> DEFINE E == {e.ref : e \in snapshot.entities}
             T == [h \in snapshot.groups |-> SUBSET E]
  <1>1. \A h \in snapshot.groups : {} \in T[h]
    OBVIOUS
  <1>2. ASSUME NEW h \in snapshot.groups, NEW inner,
               \A i \in snapshot.groups : inner[i] \in T[i]
        PROVE  Joined(snapshot, h, inner) \in T[h]
    BY <1>2, JoinedInHome
  <1>3. Resolve(snapshot)[g] \in T[g]
    <2> HIDE DEF T
    <2>1. QED
      BY <1>1, <1>2, ResolvedKeeps
  <1>4. QED
    BY <1>3

-----------------------------------------------------------------------------
(* The Core's catalogue and the App's.                                      *)

\* An entity is the one its reference finds.
LEMMA EntityFound ==
  ASSUME NEW home, IsHome(home), NEW e \in home.entities
  PROVE  (CHOOSE x \in home.entities : x.ref = e.ref) = e
  BY DEF IsHome

\* The entity and the operation that a capability stands for.
LEMMA CapabilityOf ==
  ASSUME NEW home, NEW c \in Capabilities(Snapshot(home)), c.domain # "script"
  PROVE  \E e \in home.entities, op \in AllOperations :
           /\ IsExposed(e) /\ Offers(home, e, op)
           /\ c.id = <<e.ref, op>> /\ c.domain = e.domain /\ c.operation = op
           /\ c.risk = AdapterRisk(e.domain) /\ c.schema = ParameterSchema(e, op)
  <1>1. PICK x \in Snapshot(home).entities : x.exposed /\ \E op \in x.operations :
          c = [id |-> <<x.ref, op>>, domain |-> x.domain, operation |-> op,
               scopes |-> x.scopes, available |-> x.available, risk |-> x.risk,
               schema |-> x.schemas[op]]
    <2> DEFINE shown == {x \in Snapshot(home).entities : x.exposed}
    <2>1. c \notin {[id |-> <<ref, "activate">>, domain |-> "script", operation |-> "activate",
                      scopes |-> NoScopes, available |-> TRUE, risk |-> "routine",
                      schema |-> NoParameter] : ref \in Snapshot(home).routines}
      OBVIOUS
    <2>2. PICK x \in shown : \E op \in x.operations :
             c = [id |-> <<x.ref, op>>, domain |-> x.domain, operation |-> op,
                  scopes |-> x.scopes, available |-> x.available, risk |-> x.risk,
                  schema |-> x.schemas[op]]
      BY <2>1 DEF Capabilities
    <2>3. x \in Snapshot(home).entities /\ x.exposed
      BY Zenon
    <2>4. QED
      BY <2>2, <2>3
  <1>2. PICK op \in x.operations :
          c = [id |-> <<x.ref, op>>, domain |-> x.domain, operation |-> op,
               scopes |-> x.scopes, available |-> x.available, risk |-> x.risk,
               schema |-> x.schemas[op]]
    BY <1>1
  <1>3. PICK e \in home.entities :
          x = [ref |-> e.ref, domain |-> e.domain, scopes |-> e.scopes,
               exposed |-> IsExposed(e), available |-> e.available,
               operations |-> Operations(home, e), risk |-> AdapterRisk(e.domain),
               schemas |-> [o \in Operations(home, e) |-> ParameterSchema(e, o)]]
    BY DEF Snapshot
  <1>4. IsExposed(e)
    <2>1. x.exposed = IsExposed(e)
      BY <1>3, Zenon
    <2>2. QED
      BY <1>1, <2>1, Zenon
  <1>5. op \in AllOperations /\ Offers(home, e, op) /\ x.schemas[op] = ParameterSchema(e, op)
    BY <1>3 DEF Operations
  <1>6. QED
    BY <1>2, <1>3, <1>4, <1>5

\* A capability the policy may allow is a target of the Core, for the same
\* operation, with the same risk and schema, and the boundary executes it.
LEMMA CapabilityIsTarget ==
  ASSUME NEW home, IsHome(home),
         NEW c \in Capabilities(Snapshot(home)), c.domain \in AllowedDomains
  PROVE  /\ IsTarget(home, c.id)
         /\ LET target == CoreTarget(home, c.id)
            IN /\ <<target.domain, target.operation>> \in Executable
               /\ target.risk = c.risk /\ target.schema = c.schema
         /\ c.risk \in {"routine", "confirm"}
  <1>1. c.domain # "script"
    BY DEF AllowedDomains, HighRiskDomains
  <1>2. PICK e \in home.entities, op \in AllOperations :
           /\ IsExposed(e) /\ Offers(home, e, op)
           /\ c.id = <<e.ref, op>> /\ c.domain = e.domain /\ c.operation = op
           /\ c.risk = AdapterRisk(e.domain) /\ c.schema = ParameterSchema(e, op)
    BY <1>1, CapabilityOf
  <1>3. c.id[1] = e.ref /\ c.id[2] = op
    BY <1>2
  <1>4. IsTarget(home, c.id)
    BY <1>2, <1>3 DEF IsTarget
  <1>5. (CHOOSE x \in home.entities : x.ref = c.id[1]) = e
    BY <1>3, EntityFound
  <1>6. CoreTarget(home, c.id) =
          [entity |-> e.ref, domain |-> e.domain, operation |-> op,
           risk |-> SpecRisk(e.domain), schema |-> ParameterSchema(e, op)]
    BY <1>3, <1>5 DEF CoreTarget
  <1>7. <<e.domain, op>> \in Executable
    BY <1>2 DEF Offers, OperationSpecs, Executable
  <1>8. SpecRisk(e.domain) = AdapterRisk(e.domain) /\ AdapterRisk(e.domain) \in {"routine", "confirm"}
    BY DEF SpecRisk, AdapterRisk
  <1>9. QED
    BY <1>2, <1>4, <1>6, <1>7, <1>8

\* The policy lets a proposal through only for a capability it may allow,
\* confirmed if that is needed.
LEMMA PolicyExecutes ==
  ASSUME NEW found, NEW sure, NEW clear, NEW confirmed \in BOOLEAN,
         EvaluateCapability(found, sure, clear, confirmed) = "execute"
  PROVE  \E c \in found : /\ c = (CHOOSE x \in found : TRUE)
                          /\ c.domain \in AllowedDomains
                          /\ c.risk = "confirm" => confirmed
  <1>1. found # {}
    BY DEF EvaluateCapability
  <1>2. PICK c \in found : c = (CHOOSE x \in found : TRUE)
    BY <1>1
  <1>3. c.domain \in AllowedDomains
    BY <1>1, <1>2 DEF EvaluateCapability
  <1>4. ASSUME c.risk = "confirm"  PROVE confirmed
    BY <1>1, <1>2, <1>4 DEF EvaluateCapability
  <1>5. QED
    BY <1>2, <1>3, <1>4

\* What the policy and a client of the decision service accept, the Core
\* accepts: neither NaN nor a blank text passes both.
LEMMA ParametersAccepted ==
  ASSUME NEW home, IsHome(home), NEW e \in home.entities, NEW op, NEW parameters,
         PolicyAccepts(ParameterSchema(e, op), parameters),
         ParameterSchema(e, op).type = "number" =>
           \A name \in DOMAIN parameters : parameters[name].type = "number"
  PROVE  CoreAccepts(ParameterSchema(e, op), parameters)
  <1> DEFINE schema == ParameterSchema(e, op)
  <1>1. schema.type \in {"none", "number", "string"}
    BY DEF ParameterSchema, Quantity, NoParameter
  <1>2. schema.type = "string" => " " \notin schema.enum
    BY DEF ParameterSchema, Quantity, NoParameter, AllModes, IsHome
  <1> HIDE DEF schema
  <1>3. ASSUME PolicyAccepts(schema, parameters),
               schema.type = "number" =>
                 \A name \in DOMAIN parameters : parameters[name].type = "number"
        PROVE  CoreAccepts(schema, parameters)
    <2>1. CASE schema.type = "none"
      BY <1>3, <2>1 DEF PolicyAccepts, CoreAccepts, SameNames
    <2>2. CASE schema.type = "number"
      BY <1>3, <2>2 DEF PolicyAccepts, CoreAccepts
    <2>3. CASE schema.type = "string"
      BY <1>2, <1>3, <2>3 DEF PolicyAccepts, CoreAccepts
    <2>4. QED
      BY <1>1, <2>1, <2>2, <2>3
  <1>4. QED
    BY <1>3 DEF schema

-----------------------------------------------------------------------------
(* What a batch holds.                                                      *)

BatchCodes == {"batch_group_unknown", "batch_scope_ambiguous", "batch_group_invalid",
               "batch_target_unavailable", "batch_no_targets", "batch_too_large"}

\* What was found of a set of capabilities, all of one operation.
OfOperation(found, op) == \A c \in found : c.operation = op

\* What was found for a group that was named, and has members.
FoundFor(s, group, found) ==
  /\ group.name \in s.names
  /\ group.members # {} /\ Cardinality(found) = Cardinality(group.members)
  /\ \A c \in found : c.id[1] \in group.members
  /\ OfOperation(found, s.action)

OfGroups(s, capabilities, groups, batch) ==
  \/ \E code \in BatchCodes : batch = BatchError(code)
  \/ \E group \in groups, found \in SUBSET capabilities :
       FoundFor(s, group, found) /\ batch = Bounded(found, s.action)

\* A batch for a group: an error, or capabilities of its members, as many as
\* it has.
LEMMA GroupBatchIs ==
  ASSUME NEW s, NEW capabilities, NEW groups
  PROVE  OfGroups(s, capabilities, groups, GroupBatch(s, capabilities, groups))
  <1> DEFINE named == {g \in groups : g.name \in s.names}
             group == CHOOSE g \in named : TRUE
             found == {c \in capabilities :
                         c.id[1] \in group.members /\ c.operation = s.action}
             batch == GroupBatch(s, capabilities, groups)
  <1>1. CASE named = {}
    <2>1. batch = BatchError("batch_group_unknown")
      BY <1>1 DEF GroupBatch
    <2>2. QED
      BY <2>1, Zenon DEF BatchCodes, OfGroups
  <1>2. CASE named # {} /\ Cardinality(named) > 1
    <2>1. batch = BatchError("batch_scope_ambiguous")
      BY <1>2 DEF GroupBatch
    <2>2. QED
      BY <2>1, Zenon DEF BatchCodes, OfGroups
  <1>3. CASE named # {} /\ ~(Cardinality(named) > 1) /\ group.members = {}
    <2>1. batch = BatchError("batch_group_invalid")
      BY <1>3 DEF GroupBatch
    <2>2. QED
      BY <2>1, Zenon DEF BatchCodes, OfGroups
  <1>4. CASE /\ named # {} /\ ~(Cardinality(named) > 1) /\ group.members # {}
             /\ s.action = "none"
    <2>1. batch = BatchError("batch_scope_ambiguous")
      BY <1>4 DEF GroupBatch
    <2>2. QED
      BY <2>1, Zenon DEF BatchCodes, OfGroups
  <1>5. CASE /\ named # {} /\ ~(Cardinality(named) > 1) /\ group.members # {}
             /\ s.action # "none" /\ Cardinality(found) # Cardinality(group.members)
    <2>1. batch = BatchError("batch_target_unavailable")
      BY <1>5 DEF GroupBatch
    <2>2. QED
      BY <2>1, Zenon DEF BatchCodes, OfGroups
  <1>6. CASE /\ named # {} /\ ~(Cardinality(named) > 1) /\ group.members # {}
             /\ s.action # "none" /\ Cardinality(found) = Cardinality(group.members)
    <2>1. batch = Bounded(found, s.action)
      BY <1>6 DEF GroupBatch
    <2>2. group \in groups /\ group.name \in s.names
      BY <1>6
    <2>3. /\ found \in SUBSET capabilities /\ OfOperation(found, s.action)
          /\ \A c \in found : c.id[1] \in group.members
      BY DEF OfOperation
    <2>4. QED
      <3> HIDE DEF found, group
      <3>1. FoundFor(s, group, found)
        BY <1>6, <2>2, <2>3 DEF FoundFor
      <3>2. QED
        BY <2>1, <2>2, <2>3, <3>1 DEF OfGroups
  <1>7. QED
    BY <1>1, <1>2, <1>3, <1>4, <1>5, <1>6

\* A batch for a plural: none, an error, or some capabilities.
LEMMA PluralBatchIs ==
  ASSUME NEW s, NEW capabilities
  PROVE  \/ PluralBatch(s, capabilities) = NoBatch
         \/ \E code \in BatchCodes : PluralBatch(s, capabilities) = BatchError(code)
         \/ \E found \in SUBSET capabilities :
              /\ found # {} /\ OfOperation(found, s.action)
              /\ PluralBatch(s, capabilities) = Bounded(found, s.action)
  <1> DEFINE domain == CHOOSE d \in s.plurals : TRUE
             places == [k \in Kinds |-> Named(s, capabilities, domain, k)]
             scoped == {k \in Kinds : places[k] # {}}
             found  == {c \in capabilities :
                          /\ c.domain = domain /\ c.operation = s.action
                          /\ \A k \in scoped : places[k] \subseteq c.scopes[k]}
             batch == PluralBatch(s, capabilities)
  <1>1. \/ batch = NoBatch
        \/ batch = BatchError("batch_scope_ambiguous")
        \/ batch = BatchError("batch_no_targets")
        \/ batch = BatchError("batch_too_large")
        \/ found # {} /\ batch = Bounded(found, s.action)
    BY Zenon DEF PluralBatch
  <1>2. found \in SUBSET capabilities /\ OfOperation(found, s.action)
    BY Zenon DEF OfOperation
  <1>3. QED
    <2> HIDE DEF found
    <2>1. QED
      BY <1>1, <1>2, Zenon DEF BatchCodes

\* What was found and may be acted on, or an error.
LEMMA BoundedIs ==
  ASSUME NEW found, NEW op
  PROVE  \/ Bounded(found, op) = BatchError("batch_target_unavailable")
         \/ Bounded(found, op) = [error |-> "", members |-> {c.id : c \in found}, op |-> op]
  BY DEF Bounded, NoBatch

Finds(s, capabilities, groups, batch) ==
  \E group \in groups, found \in SUBSET capabilities :
    FoundFor(s, group, found) /\ batch.members = {c.id : c \in found}

\* A batch for a group that is no error is of what was found.
LEMMA GroupBatchFinds ==
  ASSUME NEW s, NEW capabilities, NEW groups,
         NEW batch, batch = GroupBatch(s, capabilities, groups), batch.op # ""
  PROVE  Finds(s, capabilities, groups, batch)
  <1>1. \A code : BatchError(code).op = ""
    BY DEF BatchError, NoBatch
  <1>2. \A code : batch # BatchError(code)
    BY <1>1
  <1>3. OfGroups(s, capabilities, groups, batch)
    BY GroupBatchIs
  <1>4. \E group \in groups : \E found \in SUBSET capabilities :
          FoundFor(s, group, found) /\ batch = Bounded(found, s.action)
    BY <1>2, <1>3, Zenon DEF OfGroups
  <1>5. PICK group \in groups : \E found \in SUBSET capabilities :
          FoundFor(s, group, found) /\ batch = Bounded(found, s.action)
    BY <1>4
  <1>6. PICK found \in SUBSET capabilities :
          FoundFor(s, group, found) /\ batch = Bounded(found, s.action)
    BY <1>5
  <1>7. batch = [error |-> "", members |-> {c.id : c \in found}, op |-> s.action]
    BY <1>2, <1>6, BoundedIs
  <1>8. \A S : [error |-> "", members |-> S, op |-> s.action].members = S
    OBVIOUS
  <1>9. batch.members = {c.id : c \in found}
    BY <1>7, <1>8
  <1>10. QED
    BY <1>6, <1>9 DEF Finds

\* The image of a finite set under a function is finite.
LEMMA FiniteImage ==
  ASSUME NEW S, IsFiniteSet(S), NEW f
  PROVE  IsFiniteSet({f[x] : x \in S})
  <1> DEFINE g == [x \in S |-> f[x]]
             T == {f[x] : x \in S}
  <1>1. g \in Surjection(S, T)
    BY DEF Surjection
  <1>2. QED
    BY <1>1, FS_Surjection

\* The references of a home's entities.
References(home) == {e.ref : e \in home.entities}

\* There are finitely many.
LEMMA ReferencesFinite ==
  ASSUME NEW home, IsHome(home)
  PROVE  IsFiniteSet(References(home))
  <1> DEFINE f == [e \in home.entities |-> e.ref]
  <1>1. IsFiniteSet({f[e] : e \in home.entities})
    <2>1. IsFiniteSet(home.entities)
      BY DEF IsHome
    <2> HIDE DEF f
    <2>2. QED
      BY <2>1, FiniteImage
  <1>2. {f[e] : e \in home.entities} = References(home)
    BY DEF References
  <1>3. QED
    BY <1>1, <1>2

\* A capability's id is a reference in the home and its operation.
LEMMA CapabilityId ==
  ASSUME NEW home, NEW c \in Capabilities(Snapshot(home))
  PROVE  /\ c.id = <<c.id[1], c.operation>>
         /\ c.id[1] \in References(home)
  <1>1. CASE c.domain # "script"
    BY <1>1, CapabilityOf DEF References
  <1>2. CASE c \in {[id |-> <<ref, "activate">>, domain |-> "script", operation |-> "activate",
                     scopes |-> NoScopes, available |-> TRUE, risk |-> "routine",
                     schema |-> NoParameter] : ref \in Snapshot(home).routines}
    BY <1>2 DEF Snapshot, References
  <1>3. CASE c \in UNION {{[id |-> <<e.ref, op>>, domain |-> e.domain, operation |-> op,
            scopes |-> e.scopes, available |-> e.available, risk |-> e.risk,
            schema |-> e.schemas[op]] : op \in e.operations} :
              e \in {x \in Snapshot(home).entities : x.exposed}}
    BY <1>3 DEF Snapshot, References
  <1>4. QED
    BY <1>2, <1>3, Zenon DEF Capabilities

\* Where a capability comes from: an entity's operation, or a routine.
OfEntity(x, op) ==
  [id |-> <<x.ref, op>>, domain |-> x.domain, operation |-> op, scopes |-> x.scopes,
   available |-> x.available, risk |-> x.risk, schema |-> x.schemas[op]]

OfRoutine(ref) ==
  [id |-> <<ref, "activate">>, domain |-> "script", operation |-> "activate",
   scopes |-> NoScopes, available |-> TRUE, risk |-> "routine", schema |-> NoParameter]

\* No entity is activated.
LEMMA NotActivated == "activate" \notin AllOperations
  BY DEF AllOperations, OperationSpecs

\* What the snapshot says of an entity.
Row(home, e) ==
  [ref |-> e.ref, domain |-> e.domain, scopes |-> e.scopes, exposed |-> IsExposed(e),
   available |-> e.available, operations |-> Operations(home, e),
   risk |-> AdapterRisk(e.domain),
   schemas |-> [op \in Operations(home, e) |-> ParameterSchema(e, op)]]

\* Its fields.
LEMMA RowIs ==
  ASSUME NEW home, NEW x \in Snapshot(home).entities
  PROVE  \E e \in home.entities :
           x = Row(home, e) /\ x.ref = e.ref /\ x.operations \subseteq AllOperations
  <1>1. PICK e \in home.entities : x = Row(home, e)
    <2>1. Snapshot(home).entities =
            {Row(home, e) : e \in {y \in home.entities :
                                     \E op \in AllOperations : <<y.domain, op>> \in OperationSpecs}}
      BY DEF Snapshot, Row
    <2>2. QED
      BY <2>1
  <1>2. x.ref = e.ref /\ x.operations = Operations(home, e)
    BY <1>1 DEF Row
  <1>3. Operations(home, e) \subseteq AllOperations
    BY DEF Operations
  <1>4. QED
    BY <1>1, <1>2, <1>3

\* One or the other.
LEMMA CapabilityFrom ==
  ASSUME NEW home, NEW c \in Capabilities(Snapshot(home))
  PROVE  \/ \E x \in Snapshot(home).entities, op \in AllOperations : c = OfEntity(x, op)
         \/ \E ref \in Snapshot(home).routines : c = OfRoutine(ref)
  <1>1. CASE c \in {OfRoutine(ref) : ref \in Snapshot(home).routines}
    BY <1>1
  <1>2. CASE c \in UNION {{OfEntity(x, op) : op \in x.operations} :
                            x \in {y \in Snapshot(home).entities : y.exposed}}
    <2>1. PICK x \in Snapshot(home).entities : \E op \in x.operations : c = OfEntity(x, op)
      BY <1>2
    <2>2. x.operations \subseteq AllOperations
      BY RowIs
    <2>3. QED
      BY <2>1, <2>2
  <1>3. QED
    BY <1>1, <1>2, Zenon DEF Capabilities, OfEntity, OfRoutine

\* A capability is the one that has its id.
LEMMA CapabilityById ==
  ASSUME NEW home, IsHome(home), NEW c \in Capabilities(Snapshot(home)),
         NEW d \in Capabilities(Snapshot(home)), c.id = d.id
  PROVE  c = d
  <1>1. ASSUME NEW x \in Snapshot(home).entities, NEW y \in Snapshot(home).entities,
               x.ref = y.ref
        PROVE  x = y
    <2>1. PICK e \in home.entities : x = Row(home, e) /\ x.ref = e.ref
      BY RowIs
    <2>2. PICK f \in home.entities : y = Row(home, f) /\ y.ref = f.ref
      BY RowIs
    <2>3. e = f
      BY <1>1, <2>1, <2>2 DEF IsHome
    <2>4. QED
      BY <2>1, <2>2, <2>3
  <1>2. ASSUME NEW x, NEW op
        PROVE  OfEntity(x, op).id[1] = x.ref /\ OfEntity(x, op).id[2] = op
    BY DEF OfEntity
  <1>3. ASSUME NEW ref
        PROVE  OfRoutine(ref).id[1] = ref /\ OfRoutine(ref).id[2] = "activate"
    BY DEF OfRoutine
  <1>4. CASE \E x \in Snapshot(home).entities, op \in AllOperations : c = OfEntity(x, op)
    <2>1. PICK x \in Snapshot(home).entities, op \in AllOperations : c = OfEntity(x, op)
      BY <1>4
    <2>2. PICK y \in Snapshot(home).entities, o \in AllOperations : d = OfEntity(y, o)
      BY <1>2, <1>3, <2>1, CapabilityFrom, NotActivated
    <2>3. x.ref = y.ref /\ op = o
      BY <1>2, <2>1, <2>2
    <2>4. QED
      BY <1>1, <2>1, <2>2, <2>3
  <1>5. CASE \E ref \in Snapshot(home).routines : c = OfRoutine(ref)
    <2>1. PICK ref \in Snapshot(home).routines : c = OfRoutine(ref)
      BY <1>5
    <2>2. PICK other \in Snapshot(home).routines : d = OfRoutine(other)
      BY <1>2, <1>3, <2>1, CapabilityFrom, NotActivated
    <2>3. ref = other
      BY <1>3, <2>1, <2>2
    <2>4. QED
      BY <2>1, <2>2, <2>3
  <1>6. QED
    BY <1>4, <1>5, CapabilityFrom

\* A group holds references of the home.
LEMMA GroupInHome ==
  ASSUME NEW home, NEW group \in CompiledGroups(Snapshot(home))
  PROVE  group.members \subseteq References(home)
  <1>1. PICK g \in Snapshot(home).groups : group.members = Resolve(Snapshot(home))[g]
    BY DEF CompiledGroups
  <1>2. group.members \subseteq {e.ref : e \in Snapshot(home).entities}
    BY <1>1, ResolvedInHome
  <1>3. {e.ref : e \in Snapshot(home).entities} \subseteq References(home)
    BY DEF Snapshot, References
  <1>4. QED
    BY <1>2, <1>3

\* A batch that may be carried out holds at least one capability, finitely
\* many, and all of them for its operation.
BatchHolds(batch) ==
  /\ IsFiniteSet(batch.members) /\ batch.members # {}
  /\ \A m \in batch.members : m = <<m[1], batch.op>>

CameOf(home, s, batch) ==
  \/ batch = NoBatch
  \/ \E code \in BatchCodes : batch = BatchError(code)
  \/ \E found \in SUBSET Capabilities(Snapshot(home)) :
       found # {} /\ OfOperation(found, s.action) /\ batch = Bounded(found, s.action)

IsBatchRecord(batch) ==
  /\ batch = [error |-> batch.error, members |-> batch.members, op |-> batch.op]
  /\ batch.error \in BatchCodes \cup {""}
  /\ batch.op # "" => BatchHolds(batch)

\* Whatever came of a sentence is a batch, or an error.
LEMMA BatchIs ==
  ASSUME NEW home, IsHome(home), NEW s, NEW batch, CameOf(home, s, batch)
  PROVE  IsBatchRecord(batch)
  <1> DEFINE capabilities == Capabilities(Snapshot(home))
  <1>1. ASSUME NEW found \in SUBSET capabilities, found # {}, OfOperation(found, s.action)
        PROVE  BatchHolds([error |-> "", members |-> {c.id : c \in found}, op |-> s.action])
    <2> DEFINE members == {c.id : c \in found}
    <2>1. \A c \in found : c.id = <<c.id[1], s.action>> /\ c.id[1] \in References(home)
      BY <1>1, CapabilityId DEF OfOperation
    <2>2. members \in SUBSET (References(home) \X {s.action})
      <3> HIDE DEF capabilities
      <3>1. ASSUME NEW c \in found  PROVE c.id \in References(home) \X {s.action}
        <4>1. <<c.id[1], s.action>> \in References(home) \X {s.action}
          BY <2>1
        <4>2. QED
          BY <2>1, <4>1, Zenon
      <3>2. QED
        BY <3>1
    <2>3. IsFiniteSet(References(home) \X {s.action})
      BY ReferencesFinite, FS_Singleton, FS_Product
    <2>4. IsFiniteSet(members)
      BY <2>2, <2>3, FS_Subset
    <2>5. members # {} /\ \A m \in members : m = <<m[1], s.action>>
      BY <1>1, <2>1
    <2> DEFINE held == [error |-> "", members |-> members, op |-> s.action]
    <2>6. held.members = members /\ held.op = s.action
      OBVIOUS
    <2>7. BatchHolds(held)
      <3> HIDE DEF members, held
      <3>1. QED
        BY <2>4, <2>5, <2>6 DEF BatchHolds
    <2>8. QED
      BY <2>7
  <1>2. CASE batch = NoBatch
    BY <1>2 DEF NoBatch, IsBatchRecord
  <1>3. ASSUME NEW code \in BatchCodes, batch = BatchError(code)
        PROVE  /\ batch = [error |-> batch.error, members |-> batch.members, op |-> batch.op]
               /\ batch.error \in BatchCodes /\ batch.op = ""
    BY <1>3 DEF BatchError, NoBatch
  <1>4. ASSUME NEW found \in SUBSET capabilities, found # {}, OfOperation(found, s.action),
               batch = Bounded(found, s.action)
        PROVE  IsBatchRecord(batch)
    <2>1. CASE batch = BatchError("batch_target_unavailable")
      BY <1>3, <2>1 DEF BatchCodes, IsBatchRecord
    <2>2. CASE batch = [error |-> "", members |-> {c.id : c \in found}, op |-> s.action]
      <3>1. BatchHolds(batch)
        BY <1>1, <1>4, <2>2
      <3>2. batch.error = "" /\ batch = [error |-> batch.error, members |-> batch.members,
                                        op |-> batch.op]
        BY <2>2, Zenon
      <3>3. QED
        BY <3>1, <3>2, Zenon DEF IsBatchRecord
    <2>3. QED
      BY <1>4, <2>1, <2>2, BoundedIs
  <1>5. CASE \E code \in BatchCodes : batch = BatchError(code)
    BY <1>3, <1>5 DEF IsBatchRecord
  <1>6. CASE \E found \in SUBSET capabilities :
               found # {} /\ OfOperation(found, s.action) /\ batch = Bounded(found, s.action)
    <2> HIDE DEF capabilities
    <2>1. QED
      BY <1>4, <1>6, Zenon
  <1>7. QED
    BY <1>2, <1>5, <1>6, Zenon DEF CameOf

\* The batch of any sentence about a home.
LEMMA BatchOfHome ==
  ASSUME NEW home, IsHome(home), NEW s,
         NEW batch, batch = BatchGroup(s, Capabilities(Snapshot(home)),
                                          CompiledGroups(Snapshot(home)))
  PROVE  IsBatchRecord(batch)
  <1> DEFINE capabilities == Capabilities(Snapshot(home))
             groups == CompiledGroups(Snapshot(home))
  <1>1. CameOf(home, s, batch)
    <2>1. CASE s.group
      <3>1. batch = GroupBatch(s, capabilities, groups)
        BY <2>1 DEF BatchGroup
      <3>2. ASSUME NEW group \in groups, NEW found \in SUBSET capabilities,
                   FoundFor(s, group, found)
            PROVE  found # {} /\ OfOperation(found, s.action)
        <4>1. group.members \in SUBSET References(home)
          BY GroupInHome
        <4>2. IsFiniteSet(group.members)
          BY <4>1, ReferencesFinite, FS_Subset
        <4>3. QED
          BY <3>2, <4>2, FS_EmptySet DEF FoundFor
      <3>3. QED
        <4>1. OfGroups(s, capabilities, groups, batch)
          BY <3>1, GroupBatchIs
        <4> HIDE DEF capabilities, groups
        <4>2. \/ \E code \in BatchCodes : batch = BatchError(code)
              \/ \E found \in SUBSET capabilities :
                   found # {} /\ OfOperation(found, s.action) /\ batch = Bounded(found, s.action)
          BY <3>2, <4>1, Zenon DEF OfGroups
        <4>3. QED
          BY <4>2 DEF CameOf, capabilities
    <2>2. CASE ~s.group
      <3>1. batch = PluralBatch(s, capabilities)
        BY <2>2 DEF BatchGroup
      <3>2. QED
        BY <3>1, PluralBatchIs DEF CameOf
    <2>3. QED
      BY <2>1, <2>2
  <1>2. QED
    BY <1>1, BatchIs

-----------------------------------------------------------------------------
(* What a decision of the service may hold, whoever made it: parameters     *)
(* only for a capability that was offered with one, numbers for a number.   *)

IsDecision(d, offers) ==
  /\ d.error \in {"", "jev_unavailable", "jev_invalid_response"}
  /\ d.error = "" => d.route \in RouteKinds
  /\ d.error = "" /\ DOMAIN d.parameters # {} =>
       /\ d.id \in DOMAIN offers /\ offers[d.id].schema.type # "none"
       /\ offers[d.id].schema.type = "number" =>
            \A name \in DOMAIN d.parameters : d.parameters[name].type = "number"

\* An error is a decision.
LEMMA MalformedIsDecision ==
  ASSUME NEW offers
  PROVE  IsDecision(Malformed, offers) /\ IsDecision(Fault("jev_unavailable"), offers)
  BY DEF IsDecision, Malformed, Fault, Simple, Decision

\* No parameters.
LEMMA NoDomain == DOMAIN << >> = {}
  <1>1. << >> \in Seq({}) /\ Len(<< >>) = 0
    BY EmptySeq
  <1>2. DOMAIN << >> = 1 .. 0
    BY <1>1, LenProperties
  <1>3. QED
    BY <1>2

\* So is a route alone.
LEMMA SimpleIsDecision ==
  ASSUME NEW offers, NEW route \in RouteKinds
  PROVE  IsDecision(Simple(route), offers)
  <1>1. /\ Simple(route).error = "" /\ Simple(route).route = route
        /\ Simple(route).parameters = << >>
    BY DEF Simple, Decision
  <1>2. QED
    BY <1>1, NoDomain DEF IsDecision

\* HttpJevClient.decide makes nothing else of an answer,
LEMMA CompatibleIsDecision ==
  ASSUME NEW answer, NEW offers
  PROVE  IsDecision(Compatible(answer, offers), offers)
  <1> DEFINE d == Decision(answer.route, answer.complexity, answer.id, answer.confidence,
                          answer.ambiguity, answer.parameters)
             refused == \/ answer.route \notin RouteKinds
                        \/ {answer.confidence, answer.ambiguity} \ (0 .. 100) # {}
                        \/ /\ DOMAIN answer.parameters # {}
                           /\ ~(/\ answer.id \in DOMAIN offers
                                /\ Normalizes(offers[answer.id].schema, answer.parameters))
  <1>1. CASE refused
    <2>1. Compatible(answer, offers) = Malformed
      BY <1>1 DEF Compatible
    <2>2. QED
      BY <2>1, MalformedIsDecision
  <1>2. CASE ~refused
    <2>1. Compatible(answer, offers) = d
      BY <1>2 DEF Compatible
    <2>2. d.error = "" /\ d.route = answer.route /\ d.id = answer.id
          /\ d.parameters = answer.parameters
      BY DEF Decision
    <2>3. answer.route \in RouteKinds
      BY <1>2
    <2>4. ASSUME DOMAIN answer.parameters # {}
          PROVE  /\ answer.id \in DOMAIN offers
                 /\ Normalizes(offers[answer.id].schema, answer.parameters)
      BY <1>2, <2>4
    <2>5. ASSUME NEW schema, NEW parameters, Normalizes(schema, parameters)
          PROVE  /\ DOMAIN parameters # {} => schema.type # "none"
                 /\ schema.type = "number" =>
                      \A name \in DOMAIN parameters : parameters[name].type = "number"
      BY <2>5 DEF Normalizes, SameNames
    <2> HIDE DEF d
    <2>6. IsDecision(d, offers)
      BY <2>2, <2>3, <2>4, <2>5 DEF IsDecision
    <2>7. QED
      BY <2>1, <2>6
  <1>3. QED
    BY <1>1, <1>2

\* nor does TypeSafeJevClient.decide,
LEMMA TypeSafeIsDecision ==
  ASSUME NEW answer, NEW offers
  PROVE  IsDecision(TypeSafe(answer, offers), offers)
  <1> DEFINE chosen == answer.id \in DOMAIN offers
             schema == offers[answer.id].schema
             asked  == chosen /\ answer.id \in Questions(offers)
             parameters ==
               IF asked THEN [name \in {schema.name} |-> answer.values[answer.id]] ELSE << >>
             d == Decision(answer.route, answer.complexity, answer.id, answer.confidence,
                           answer.ambiguity, parameters)
             refused == \/ answer.route \notin RouteKinds
                        \/ {answer.confidence, answer.ambiguity} \ (0 .. 100) # {}
                        \/ ~chosen /\ answer.id # << >>
                        \/ DOMAIN answer.values # Questions(offers)
                        \/ asked /\ ~Extracts(schema, answer.values[answer.id])
  <1>1. CASE refused
    <2>1. TypeSafe(answer, offers) = Malformed
      BY <1>1, Zenon DEF TypeSafe
    <2>2. QED
      BY <2>1, MalformedIsDecision
  <1>2. CASE ~refused
    <2>1. TypeSafe(answer, offers) = d
      BY <1>2, Zenon DEF TypeSafe
    <2>2. d.error = "" /\ d.route = answer.route /\ d.id = answer.id
          /\ d.parameters = parameters
      BY DEF Decision
    <2>3. answer.route \in RouteKinds
      BY <1>2
    <2>4. ASSUME DOMAIN parameters # {}
          PROVE  asked /\ schema.type # "none"
      <3>1. asked
        BY <2>4, NoDomain
      <3>2. QED
        BY <3>1 DEF Questions
    <2>5. ASSUME asked, schema.type = "number"
          PROVE  \A name \in DOMAIN parameters : parameters[name].type = "number"
      <3>1. Extracts(schema, answer.values[answer.id])
        BY <1>2, <2>5
      <3>2. answer.values[answer.id].type = "number"
        BY <2>5, <3>1 DEF Extracts
      <3>3. parameters = [name \in {schema.name} |-> answer.values[answer.id]]
        BY <2>5
      <3>4. QED
        BY <3>2, <3>3
    <2>6. IsDecision(d, offers)
      <3> HIDE DEF d, parameters
      <3>1. QED
        BY <2>2, <2>3, <2>4, <2>5 DEF IsDecision
    <2>7. QED
      BY <2>1, <2>6
  <1>3. QED
    BY <1>1, <1>2

\* nor OpenRouterDecisionsClient.decide.
LEMMA OpenRouterIsDecision ==
  ASSUME NEW answer, NEW offers
  PROVE  IsDecision(OpenRouter(answer, offers), offers)
  <1> DEFINE doubt == 100 - answer.confidence
             d == Decision("routine_control", "simple", answer.id, answer.confidence,
                     IF doubt > answer.ambiguity THEN doubt ELSE answer.ambiguity, << >>)
  <1>1. \/ OpenRouter(answer, offers) = Malformed
        \/ answer.route \in {"clarify", "refuse"} /\ OpenRouter(answer, offers) = Simple(answer.route)
        \/ OpenRouter(answer, offers) = Simple("clarify")
        \/ OpenRouter(answer, offers) = d
    BY DEF OpenRouter
  <1>2. IsDecision(d, offers)
    <2>1. d.error = "" /\ d.route = "routine_control" /\ d.parameters = << >>
      BY DEF Decision
    <2> HIDE DEF d
    <2>2. QED
      BY <2>1, NoDomain DEF IsDecision, RouteKinds
  <1>3. \A route \in {"clarify", "refuse"} : IsDecision(Simple(route), offers)
    BY SimpleIsDecision DEF RouteKinds
  <1>4. QED
    BY <1>1, <1>2, <1>3, MalformedIsDecision

\* Every client makes of every answer a decision, or an error.
LEMMA DecidedIsDecision ==
  ASSUME NEW client \in {"static", "compatible", "typesafe", "openrouter"},
         NEW answer, answer.shape \in {"ok", "down", "malformed"}, NEW offers
  PROVE  IsDecision(Decided(client, answer, offers), offers)
  <1>1. \/ Decided(client, answer, offers) = Simple("refuse")
        \/ Decided(client, answer, offers) = Fault("jev_unavailable")
        \/ Decided(client, answer, offers) = Malformed
        \/ Decided(client, answer, offers) = Compatible(answer, offers)
        \/ Decided(client, answer, offers) = TypeSafe(answer, offers)
        \/ Decided(client, answer, offers) = OpenRouter(answer, offers)
    BY DEF Decided
  <1>2. IsDecision(Simple("refuse"), offers)
    BY SimpleIsDecision DEF RouteKinds
  <1>3. QED
    BY <1>1, <1>2, MalformedIsDecision, CompatibleIsDecision, TypeSafeIsDecision,
       OpenRouterIsDecision

-----------------------------------------------------------------------------
(* The gateway that build_gateway makes.                                    *)

\* A route is looked up among the routes.
LEMMA RouteLookedUp ==
  ASSUME NEW routes, NEW id \in {routes[i].id : i \in DOMAIN routes}
  PROVE  \E i \in DOMAIN routes : Route(routes, id) = routes[i] /\ routes[i].id = id
  BY DEF Route

\* The ids of a list of routes, and that each of them is one route's.
IdsOf(routes) == {routes[i].id : i \in DOMAIN routes}
Unambiguous(routes) == \A i, j \in DOMAIN routes : routes[i].id = routes[j].id => i = j

\* The failovers of routes lead to routes, and there are a few of each.
FailoversAmong(routes, ids) ==
  /\ Len(routes) \in Nat /\ DOMAIN routes = 1 .. Len(routes) /\ ids = IdsOf(routes)
  /\ \A i \in DOMAIN routes : /\ routes[i].fallbacks \in Seq(ids)
                              /\ Len(routes[i].fallbacks) <= MaxFallbacks

\* The failovers of a route, and where those of some routes lead.
FailoversOf(routes, r) == ToSet(Route(routes, r).fallbacks)
Followed(routes, S, T) == \A r \in S : FailoversOf(routes, r) \subseteq T

\* So the route of an id declares a few.
LEMMA FailoversAre ==
  ASSUME NEW routes, NEW ids, FailoversAmong(routes, ids), NEW r \in ids
  PROVE  Route(routes, r).fallbacks \in Seq(ids) /\ Len(Route(routes, r).fallbacks) <= MaxFallbacks
  BY RouteLookedUp DEF FailoversAmong, IdsOf

Distinct(s) == \A i, j \in DOMAIN s : s[i] = s[j] => i = j

\* What a sequence holds, of its first element and the others.
LEMMA HeadAndTail ==
  ASSUME NEW S, NEW s \in Seq(S), s # << >>
  PROVE  ToSet(s) = {Head(s)} \cup ToSet(Tail(s))
  <1>1. /\ Len(s) \in Nat \ {0} /\ DOMAIN s = 1 .. Len(s)
        /\ Tail(s) \in Seq(S) /\ Len(Tail(s)) = Len(s) - 1 /\ DOMAIN Tail(s) = 1 .. Len(Tail(s))
        /\ \A i \in 1 .. Len(Tail(s)) : Tail(s)[i] = s[i + 1]
    BY EmptySeq, LenProperties, HeadTailProperties
  <1>2. Head(s) = s[1]
    BY <1>1
  <1>3. ASSUME NEW x \in ToSet(s)  PROVE x \in {Head(s)} \cup ToSet(Tail(s))
    <2>1. PICK i \in 1 .. Len(s) : x = s[i]
      BY <1>1 DEF ToSet
    <2>2. CASE i = 1
      BY <1>2, <2>1, <2>2
    <2>3. CASE i # 1
      <3>1. i - 1 \in 1 .. Len(Tail(s)) /\ (i - 1) + 1 = i
        BY <1>1, <2>3
      <3>2. Tail(s)[i - 1] = x
        BY <1>1, <2>1, <3>1
      <3>3. QED
        BY <1>1, <3>1, <3>2 DEF ToSet
    <2>4. QED
      BY <2>2, <2>3
  <1>4. ASSUME NEW x \in ToSet(Tail(s))  PROVE x \in ToSet(s)
    <2>1. PICK i \in 1 .. Len(Tail(s)) : x = Tail(s)[i]
      BY <1>1 DEF ToSet
    <2>2. i + 1 \in 1 .. Len(s) /\ s[i + 1] = x
      BY <1>1, <2>1
    <2>3. QED
      BY <1>1, <2>2 DEF ToSet
  <1>5. Head(s) \in ToSet(s)
    BY <1>1, <1>2 DEF ToSet
  <1>6. QED
    BY <1>3, <1>4, <1>5

\* What it holds when one more is appended, at a place of its own if new.
LEMMA Appended ==
  ASSUME NEW S, NEW s \in Seq(S), NEW e \in S
  PROVE  /\ ToSet(Append(s, e)) = ToSet(s) \cup {e}
         /\ Distinct(s) /\ e \notin ToSet(s) => Distinct(Append(s, e))
  <1> DEFINE t == Append(s, e)
             n == Len(s)
  <1>1. /\ n \in Nat /\ DOMAIN s = 1 .. n /\ DOMAIN t = 1 .. n + 1
        /\ t[n + 1] = e /\ \A i \in 1 .. n : t[i] = s[i]
    BY LenProperties, AppendProperties
  <1> HIDE DEF t, n
  <1>2. ToSet(t) = ToSet(s) \cup {e}
    <2>1. \A i \in 1 .. n + 1 : i \in 1 .. n \/ i = n + 1
      BY <1>1
    <2>2. \A i \in 1 .. n : i \in 1 .. n + 1
      BY <1>1
    <2>3. n + 1 \in 1 .. n + 1
      BY <1>1
    <2>4. QED
      BY <1>1, <2>1, <2>2, <2>3 DEF ToSet
  <1>3. ASSUME Distinct(s), e \notin ToSet(s)  PROVE Distinct(t)
    <2>1. \A i \in 1 .. n + 1 : i \in 1 .. n \/ i = n + 1
      BY <1>1
    <2>2. \A i \in 1 .. n : t[i] # e
      BY <1>1, <1>3 DEF ToSet
    <2>3. QED
      BY <1>1, <1>3, <2>1, <2>2 DEF Distinct
  <1>4. QED
    BY <1>2, <1>3 DEF t

\* What two sequences hold one after the other.
LEMMA Concatenated ==
  ASSUME NEW S, NEW s \in Seq(S), NEW t \in Seq(S)
  PROVE  ToSet(s \o t) = ToSet(s) \cup ToSet(t)
  <1> DEFINE u == s \o t
             m == Len(s)
             n == Len(t)
  <1>1. /\ m \in Nat /\ n \in Nat /\ DOMAIN s = 1 .. m /\ DOMAIN t = 1 .. n
        /\ DOMAIN u = 1 .. m + n
        /\ \A i \in 1 .. m + n : u[i] = IF i <= m THEN s[i] ELSE t[i - m]
    BY LenProperties, ConcatProperties
  <1> HIDE DEF u, m, n
  <1>2. ASSUME NEW x \in ToSet(u)  PROVE x \in ToSet(s) \cup ToSet(t)
    <2>1. PICK i \in 1 .. m + n : x = u[i]
      BY <1>1 DEF ToSet
    <2>2. CASE i <= m
      <3>1. i \in 1 .. m /\ x = s[i]
        BY <1>1, <2>1, <2>2
      <3>2. QED
        BY <1>1, <3>1 DEF ToSet
    <2>3. CASE i > m
      <3>1. i - m \in 1 .. n /\ x = t[i - m]
        BY <1>1, <2>1, <2>3
      <3>2. QED
        BY <1>1, <3>1 DEF ToSet
    <2>4. QED
      BY <1>1, <2>2, <2>3
  <1>3. ASSUME NEW x \in ToSet(s)  PROVE x \in ToSet(u)
    <2>1. PICK i \in 1 .. m : x = s[i]
      BY <1>1 DEF ToSet
    <2>2. i \in 1 .. m + n /\ u[i] = x
      BY <1>1, <2>1
    <2>3. QED
      BY <1>1, <2>2 DEF ToSet
  <1>4. ASSUME NEW x \in ToSet(t)  PROVE x \in ToSet(u)
    <2>1. PICK i \in 1 .. n : x = t[i]
      BY <1>1 DEF ToSet
    <2>2. m + i \in 1 .. m + n /\ (m + i) - m = i /\ ~(m + i <= m)
      BY <1>1
    <2>3. u[m + i] = x
      BY <1>1, <2>1, <2>2
    <2>4. QED
      BY <1>1, <2>2, <2>3 DEF ToSet
  <1>5. QED
    BY <1>2, <1>3, <1>4 DEF u

\* What a walk is: it begins at the first route, visits none twice, still
\* waits for the failovers of those it visited unless they are visited, and
\* gets nowhere but where the failovers lead.
Seen(w) == ToSet(w.order) \cup ToSet(w.waiting)

Leads(routes, ids, id) == {S \in SUBSET ids : id \in S /\ Followed(routes, S, S)}

Walks(routes, ids, id) ==
  {w \in [waiting : Seq(ids), order : Seq(ids)] :
     /\ IF w.order = << >> THEN w.waiting = <<id>> ELSE w.order[1] = id
     /\ Distinct(w.order)
     /\ Followed(routes, ToSet(w.order), Seen(w))
     /\ \A S \in Leads(routes, ids, id) : Seen(w) \subseteq S}

Walk(waiting, order) == [waiting |-> waiting, order |-> order]

\* The walk before any visit.
LEMMA FirstWalk ==
  ASSUME NEW routes, NEW ids, NEW id \in ids
  PROVE  Walk(<<id>>, << >>) \in Walks(routes, ids, id)
  <1> DEFINE w == Walk(<<id>>, << >>)
  <1>1. w.waiting = <<id>> /\ w.order = << >> /\ w \in [waiting : Seq(ids), order : Seq(ids)]
    BY DEF Walk
  <1> HIDE DEF w
  <1>2. ToSet(<< >>) = {} /\ Distinct(<< >>)
    BY NoDomain DEF ToSet, Distinct
  <1>3. ToSet(<<id>>) = {id}
    BY DEF ToSet
  <1>4. Seen(w) = {id}
    BY <1>1, <1>2, <1>3 DEF Seen
  <1>5. QED
    BY <1>1, <1>2, <1>4 DEF w, Walks, Followed, Leads

\* A visit leaves a walk that has begun; it takes one of those that wait,
\* and what it adds are the failovers of a route it had not visited.
LEMMA VisitIsWalk ==
  ASSUME NEW routes, NEW ids, FailoversAmong(routes, ids),
         NEW id \in ids, NEW w \in Walks(routes, ids, id)
  PROVE  /\ Visit(routes, w) \in Walks(routes, ids, id) /\ Visit(routes, w).order # << >>
         /\ \/ w.waiting = << >> /\ Visit(routes, w).waiting = << >>
            \/ /\ Len(Visit(routes, w).waiting) = Len(w.waiting) - 1
               /\ Len(Visit(routes, w).order) = Len(w.order)
            \/ /\ Len(Visit(routes, w).waiting) <= Len(w.waiting) - 1 + MaxFallbacks
               /\ Len(Visit(routes, w).order) = Len(w.order) + 1
  <1> DEFINE r == Head(w.waiting)
             v == Visit(routes, w)
  <1>1. /\ w.waiting \in Seq(ids) /\ w.order \in Seq(ids)
        /\ w = Walk(w.waiting, w.order)
        /\ IF w.order = << >> THEN w.waiting = <<id>> ELSE w.order[1] = id
        /\ Distinct(w.order) /\ Followed(routes, ToSet(w.order), Seen(w))
        /\ \A S \in Leads(routes, ids, id) : Seen(w) \subseteq S
    BY DEF Walks, Walk
  <1>2. CASE w.waiting = << >>
    <2>1. w.order # << >> /\ v = w
      BY <1>1, <1>2 DEF Visit
    <2>2. QED
      BY <1>2, <2>1
  <1>3. CASE w.waiting # << >> /\ r \in ToSet(w.order)
    <2>1. w.order # << >>
      BY <1>3, NoDomain DEF ToSet
    <2>2. v = Walk(Tail(w.waiting), w.order)
      BY <1>1, <1>3 DEF Visit, Walk
    <2>3. Tail(w.waiting) \in Seq(ids) /\ Len(Tail(w.waiting)) = Len(w.waiting) - 1
      BY <1>1, <1>3, HeadTailProperties
    <2>4. ToSet(w.waiting) = {r} \cup ToSet(Tail(w.waiting))
      BY <1>1, <1>3, HeadAndTail
    <2>5. v.waiting = Tail(w.waiting) /\ v.order = w.order /\ v \in [waiting : Seq(ids), order : Seq(ids)]
      BY <1>1, <2>2, <2>3 DEF Walk
    <2> HIDE DEF v, r
    <2>6. Seen(v) = Seen(w)
      BY <1>3, <2>4, <2>5 DEF Seen
    <2>7. v \in Walks(routes, ids, id)
      BY <1>1, <2>1, <2>5, <2>6 DEF Walks
    <2>8. QED
      BY <2>1, <2>3, <2>5, <2>7 DEF v
  <1>4. CASE w.waiting # << >> /\ r \notin ToSet(w.order)
    <2> DEFINE others == Route(routes, r).fallbacks
               waits == Tail(w.waiting) \o others
               order == Append(w.order, r)
    <2>1. v = Walk(waits, order)
      BY <1>4 DEF Visit, Walk
    <2>2. r \in ids /\ Tail(w.waiting) \in Seq(ids) /\ Len(Tail(w.waiting)) = Len(w.waiting) - 1
      BY <1>1, <1>4, HeadTailProperties
    <2>3. others \in Seq(ids) /\ Len(others) <= MaxFallbacks
      <3> HIDE DEF r
      <3>1. QED
        BY <2>2, FailoversAre
    <2> HIDE DEF r, others
    <2>4. waits \in Seq(ids) /\ Len(waits) = Len(w.waiting) - 1 + Len(others)
      BY <2>2, <2>3, ConcatProperties
    <2>5. order \in Seq(ids) /\ order # << >> /\ Len(order) = Len(w.order) + 1
      BY <1>1, <2>2, AppendProperties
    <2>6. order[1] = id
      <3>1. CASE w.order = << >>
        <4>1. r = id
          BY <1>1, <3>1 DEF r
        <4>2. QED
          BY <3>1, <4>1
      <3>2. CASE w.order # << >>
        <4>1. Len(w.order) \in Nat \ {0}
          BY <1>1, <3>2, EmptySeq
        <4>2. order[1] = w.order[1]
          BY <1>1, <2>2, <4>1, AppendProperties
        <4>3. QED
          BY <1>1, <3>2, <4>2
      <3>3. QED
        BY <3>1, <3>2
    <2>7. ToSet(order) = ToSet(w.order) \cup {r} /\ Distinct(order)
      BY <1>1, <1>4, <2>2, Appended DEF r
    <2>8. ToSet(waits) = ToSet(Tail(w.waiting)) \cup ToSet(others)
      BY <2>2, <2>3, Concatenated
    <2>9. ToSet(w.waiting) = {r} \cup ToSet(Tail(w.waiting))
      BY <1>1, <1>4, HeadAndTail DEF r
    <2>10. FailoversOf(routes, r) = ToSet(others)
      BY DEF FailoversOf, others
    <2>11. v.waiting = waits /\ v.order = order /\ v \in [waiting : Seq(ids), order : Seq(ids)]
      BY <2>1, <2>4, <2>5 DEF Walk
    <2> HIDE DEF waits, order, v
    <2>12. Seen(v) = Seen(w) \cup ToSet(others)
      BY <2>7, <2>8, <2>9, <2>11 DEF Seen
    <2>13. Followed(routes, ToSet(order), Seen(v))
      BY <1>1, <2>7, <2>10, <2>12 DEF Followed
    <2>14. ASSUME NEW S \in Leads(routes, ids, id)  PROVE Seen(v) \subseteq S
      <3>1. Seen(w) \subseteq S /\ r \in S
        BY <1>1, <2>9 DEF Seen
      <3>2. FailoversOf(routes, r) \subseteq S
        BY <3>1 DEF Leads, Followed
      <3>3. QED
        BY <2>10, <2>12, <3>1, <3>2
    <2>15. v \in Walks(routes, ids, id)
      BY <2>5, <2>6, <2>7, <2>11, <2>13, <2>14 DEF Walks
    <2>16. Len(v.waiting) <= Len(w.waiting) - 1 + MaxFallbacks
      <3>1. Len(w.waiting) \in Nat /\ Len(others) \in Nat /\ MaxFallbacks \in Nat
        BY <1>1, <2>3, LenProperties DEF MaxFallbacks
      <3>2. QED
        BY <2>3, <2>4, <2>11, <3>1
    <2>17. QED
      BY <2>5, <2>11, <2>15, <2>16 DEF v
  <1>5. QED
    BY <1>2, <1>3, <1>4

\* The visits that BreadthFirst makes are a sequence of walks.
LEMMA Walking ==
  ASSUME NEW routes, NEW ids, FailoversAmong(routes, ids), NEW id \in ids
  PROVE  \E walk \in [Nat -> Walks(routes, ids, id)] :
           /\ walk[0] = Walk(<<id>>, << >>)
           /\ \A n \in Nat : walk[n + 1] = Visit(routes, walk[n])
           /\ BreadthFirst(routes, id) = walk[MaxVisits(routes)].order
  <1> DEFINE S == Walks(routes, ids, id)
             start == Walk(<<id>>, << >>)
             next(w) == Visit(routes, w)
             step == [w \in S |-> next(w)]
             body(n, W) == IF n = 0 THEN [waiting |-> <<id>>, order |-> << >>]
                                    ELSE Visit(routes, W[n - 1])
             whole(W) == [n \in Nat |-> body(n, W)]
             walk == CHOOSE W : W = whole(W)
  <1>1. start \in S
    BY FirstWalk
  <1>2. ASSUME NEW w \in S  PROVE next(w) \in S
    BY VisitIsWalk
  <1>3. step \in [S -> S]
    <2> HIDE DEF S, next
    <2>1. QED
      BY <1>2
  <1>4. PICK V \in [Nat -> S] : V[0] = start /\ \A n \in Nat : V[n + 1] = step[V[n]]
    <2> HIDE DEF S, step, start
    <2>1. QED
      BY <1>1, <1>3, NatRecursion
  <1>5. \A n \in Nat : V[n + 1] = next(V[n])
    <2> HIDE DEF S, next
    <2>1. QED
      BY <1>4
  <1>6. V = whole(V)
    <2>1. ASSUME NEW n \in Nat  PROVE V[n] = body(n, V)
      <3>1. CASE n = 0
        BY <1>4, <3>1 DEF Walk
      <3>2. CASE n # 0
        <4>1. n - 1 \in Nat /\ (n - 1) + 1 = n
          BY <3>2
        <4>2. V[n] = next(V[n - 1])
          <5> HIDE DEF next
          <5>1. QED
            BY <1>5, <4>1
        <4>3. QED
          BY <3>2, <4>2
      <3>3. QED
        BY <3>1, <3>2
    <2>2. QED
      <3> HIDE DEF body, S
      <3>1. QED
        BY <1>4, <2>1
  <1>7. walk = whole(walk)
    <2> HIDE DEF whole
    <2>1. QED
      BY <1>6
  <1>8. ASSUME NEW n \in Nat  PROVE walk[n] = body(n, walk)
    <2> HIDE DEF body, walk
    <2>1. QED
      BY <1>7
  <1>9. walk[0] = start
    <2>1. walk[0] = body(0, walk)
      BY <1>8
    <2>2. body(0, walk) = start
      BY DEF Walk
    <2>3. QED
      BY <2>1, <2>2
  <1>10. ASSUME NEW n \in Nat  PROVE walk[n + 1] = next(walk[n])
    <2>1. n + 1 \in Nat /\ n + 1 # 0 /\ (n + 1) - 1 = n
      OBVIOUS
    <2>2. walk[n + 1] = body(n + 1, walk)
      <3> HIDE DEF body, walk
      <3>1. QED
        BY <1>8, <2>1
    <2>3. body(n + 1, walk) = next(walk[n])
      <3> HIDE DEF walk
      <3>1. QED
        BY <2>1
    <2>4. QED
      BY <2>2, <2>3
  <1> DEFINE I == {n \in Nat : walk[n] \in S}
  <1>11. I = Nat
    <2>1. 0 \in I
      <3> HIDE DEF walk, S, start
      <3>1. QED
        BY <1>1, <1>9
    <2>2. ASSUME NEW n \in I  PROVE n + 1 \in I
      <3> HIDE DEF walk, next, S
      <3>1. QED
        BY <1>2, <1>10
    <2> HIDE DEF I
    <2>3. I \in SUBSET Nat
      BY DEF I
    <2>4. QED
      BY <2>1, <2>2, <2>3, Inductive
  <1>12. walk \in [Nat -> S]
    <2>1. \A n \in Nat : walk[n] \in S
      <3> HIDE DEF walk, S
      <3>1. QED
        BY <1>11
    <2>2. walk = [n \in Nat |-> walk[n]]
      <3> HIDE DEF walk, body
      <3>1. QED
        BY <1>7
    <2> HIDE DEF walk, S
    <2>3. QED
      BY <2>1, <2>2
  <1>13. BreadthFirst(routes, id) = walk[MaxVisits(routes)].order
    BY Zenon DEF BreadthFirst
  <1>14. QED
    <2> HIDE DEF walk
    <2>1. QED
      BY <1>9, <1>10, <1>12, <1>13

\* A sequence of distinct ids is no longer than the list of routes.
LEMMA DistinctFew ==
  ASSUME NEW routes, NEW ids, FailoversAmong(routes, ids), NEW s \in Seq(ids), Distinct(s)
  PROVE  Len(s) <= Len(routes)
  <1> DEFINE at(i) == CHOOSE k \in DOMAIN routes : routes[k].id = s[i]
             f == [i \in 1 .. Len(s) |-> at(i)]
  <1>1. Len(s) \in Nat /\ DOMAIN s = 1 .. Len(s) /\ \A i \in 1 .. Len(s) : s[i] \in ids
    BY LenProperties, ElementOfSeq
  <1>2. Len(routes) \in Nat /\ DOMAIN routes = 1 .. Len(routes) /\ ids = IdsOf(routes)
    BY DEF FailoversAmong
  <1>3. ASSUME NEW i \in 1 .. Len(s)  PROVE at(i) \in 1 .. Len(routes) /\ routes[at(i)].id = s[i]
    <2>1. \E k \in DOMAIN routes : routes[k].id = s[i]
      BY <1>1, <1>2 DEF IdsOf
    <2>2. QED
      BY <1>2, <2>1
  <1>4. f \in Injection(1 .. Len(s), 1 .. Len(routes))
    <2>1. f \in [1 .. Len(s) -> 1 .. Len(routes)]
      BY <1>3
    <2>2. ASSUME NEW i \in 1 .. Len(s), NEW j \in 1 .. Len(s), f[i] = f[j]  PROVE i = j
      <3>1. at(i) = at(j)
        BY <2>2
      <3>2. s[i] = s[j]
        <4> HIDE DEF at
        <4>1. QED
          BY <1>3, <3>1
      <3>3. QED
        BY <1>1, <3>2 DEF Distinct
    <2> HIDE DEF f
    <2>3. QED
      BY <2>1, <2>2 DEF Injection, IsInjective
  <1>5. ASSUME NEW n \in Nat  PROVE IsFiniteSet(1 .. n) /\ Cardinality(1 .. n) = n
    <2>1. IsFiniteSet(1 .. n) /\ Cardinality(1 .. n) = IF 1 > n THEN 0 ELSE n - 1 + 1
      BY FS_Interval
    <2>2. QED
      BY <2>1
  <1>6. Cardinality(1 .. Len(s)) = Len(s) /\ Cardinality(1 .. Len(routes)) = Len(routes)
    BY <1>1, <1>2, <1>5
  <1>7. Cardinality(1 .. Len(s)) <= Cardinality(1 .. Len(routes))
    <2> HIDE DEF f
    <2>1. QED
      BY <1>2, <1>4, <1>5, FS_Injection
  <1>8. QED
    BY <1>6, <1>7

\* An order of visits is complete: it begins at a route, visits the routes
\* that failovers lead to from there, each once, and no others.
CompleteOrder(routes, ids, id, order) ==
  /\ order \in Seq(ids) /\ order # << >> /\ order[1] = id
  /\ Distinct(order)
  /\ Followed(routes, ToSet(order), ToSet(order))
  /\ \A S \in Leads(routes, ids, id) : ToSet(order) \subseteq S

\* After MaxVisits visits nothing waits any more.
LEMMA BreadthFirstIs ==
  ASSUME NEW routes, NEW ids, FailoversAmong(routes, ids), NEW id \in ids
  PROVE  CompleteOrder(routes, ids, id, BreadthFirst(routes, id))
  <1> DEFINE S == Walks(routes, ids, id)
             N == Len(routes)
  <1>1. PICK walk \in [Nat -> S] :
          /\ walk[0] = Walk(<<id>>, << >>)
          /\ \A n \in Nat : walk[n + 1] = Visit(routes, walk[n])
          /\ BreadthFirst(routes, id) = walk[MaxVisits(routes)].order
    BY Walking
  <1> DEFINE waits(n) == Len(walk[n].waiting)
             visited(n) == Len(walk[n].order)
             Paced(n) == walk[n].waiting = << >> \/ n + waits(n) <= 1 + visited(n) * 8
             I == {n \in Nat : Paced(n)}
  <1>2. ASSUME NEW n \in Nat
        PROVE  /\ walk[n].waiting \in Seq(ids) /\ walk[n].order \in Seq(ids)
               /\ waits(n) \in Nat /\ visited(n) \in Nat
    <2>1. walk[n] \in S
      OBVIOUS
    <2>2. walk[n].waiting \in Seq(ids) /\ walk[n].order \in Seq(ids)
      BY <2>1 DEF Walks
    <2>3. QED
      BY <2>2, LenProperties
  <1>3. ASSUME NEW n \in Nat
        PROVE  /\ walk[n + 1].order # << >>
               /\ \/ walk[n].waiting = << >> /\ walk[n + 1].waiting = << >>
                  \/ waits(n + 1) = waits(n) - 1 /\ visited(n + 1) = visited(n)
                  \/ waits(n + 1) <= waits(n) - 1 + 8 /\ visited(n + 1) = visited(n) + 1
    <2>1. walk[n] \in Walks(routes, ids, id) /\ walk[n + 1] = Visit(routes, walk[n])
      BY <1>1
    <2>2. QED
      BY <2>1, VisitIsWalk DEF MaxFallbacks
  <1>4. 0 \in I
    <2>1. waits(0) = 1 /\ visited(0) = 0
      BY <1>1 DEF Walk
    <2>2. Paced(0)
      <3> HIDE DEF waits, visited
      <3>1. QED
        BY <2>1
    <2>3. QED
      BY <2>2
  <1>5. ASSUME NEW n \in I  PROVE n + 1 \in I
    <2>1. n \in Nat /\ n + 1 \in Nat /\ Paced(n)
      OBVIOUS
    <2>2. /\ waits(n) \in Nat /\ visited(n) \in Nat
          /\ waits(n + 1) \in Nat /\ visited(n + 1) \in Nat
      BY <1>2, <2>1
    <2>3. Paced(n) => Paced(n + 1)
      <3>1. CASE walk[n].waiting = << >> /\ walk[n + 1].waiting = << >>
        BY <3>1
      <3>2. CASE waits(n + 1) = waits(n) - 1 /\ visited(n + 1) = visited(n)
        <4>1. walk[n].waiting # << >>
          BY <2>2, <3>2
        <4> HIDE DEF waits, visited
        <4>2. QED
          BY <2>1, <2>2, <3>2, <4>1
      <3>3. CASE waits(n + 1) <= waits(n) - 1 + 8 /\ visited(n + 1) = visited(n) + 1
        <4>1. CASE walk[n].waiting = << >>
          <5>1. waits(n) = 0
            BY <4>1
          <5>2. walk[n + 1].waiting = << >>
            BY <1>1, <2>1, <4>1 DEF Visit
          <5>3. QED
            BY <5>2
        <4>2. CASE walk[n].waiting # << >>
          <5> HIDE DEF waits, visited
          <5>1. QED
            BY <2>1, <2>2, <3>3, <4>2
        <4>3. QED
          BY <4>1, <4>2
      <3>4. QED
        BY <1>3, <2>1, <3>1, <3>2, <3>3
    <2>4. QED
      BY <2>1, <2>3
  <1>6. I = Nat
    <2> HIDE DEF I
    <2>1. I \in SUBSET Nat
      BY DEF I
    <2>2. QED
      BY <1>4, <1>5, <2>1, Inductive
  <1>7. PICK last \in Nat : MaxVisits(routes) = last + 1 /\ last = N * 8
    <2>1. N \in Nat
      BY DEF FailoversAmong
    <2>2. N * 8 \in Nat /\ MaxVisits(routes) = (N * 8) + 1
      BY <2>1 DEF MaxVisits, MaxFallbacks
    <2>3. QED
      BY <2>2
  <1> DEFINE end == walk[last + 1]
  <1>8. /\ end \in S /\ end.order # << >>
        /\ Paced(last + 1)
    <2>1. last + 1 \in Nat
      OBVIOUS
    <2> HIDE DEF S
    <2>2. QED
      BY <1>3, <1>6, <2>1
  <1>9. /\ end.order \in Seq(ids) /\ end.order[1] = id /\ Distinct(end.order)
        /\ Followed(routes, ToSet(end.order), Seen(end))
        /\ \A T \in Leads(routes, ids, id) : Seen(end) \subseteq T
    <2> HIDE DEF end
    <2>1. QED
      BY <1>8 DEF Walks
  <1>10. end.waiting = << >>
    <2>1. visited(last + 1) <= N /\ N \in Nat
      BY <1>9, DistinctFew DEF FailoversAmong
    <2>2. waits(last + 1) \in Nat /\ visited(last + 1) \in Nat
      BY <1>2
    <2>3. waits(last + 1) = 0 => end.waiting = << >>
      BY <1>2, EmptySeq
    <2>4. last + 1 + waits(last + 1) <= 1 + visited(last + 1) * 8 => waits(last + 1) = 0
      <3> HIDE DEF waits, visited, N
      <3>1. QED
        BY <1>7, <2>1, <2>2
    <2>5. QED
      BY <1>8, <2>3, <2>4
  <1>11. Seen(end) = ToSet(end.order)
    <2> HIDE DEF end
    <2>1. QED
      BY <1>10, NoDomain DEF Seen, ToSet
  <1>12. BreadthFirst(routes, id) = end.order
    BY <1>1, <1>7
  <1>13. QED
    <2> HIDE DEF end
    <2>1. QED
      BY <1>8, <1>9, <1>11, <1>12 DEF CompleteOrder

\* What the options hold: an address, a provider's name or none of them is
\* text, and what is given as a registry is a list of routes that cost
\* numbers, none above what stands for infinity.  A route is not called like the decision service.
IsOptions(options) ==
  /\ options.registry \in Seq(ToSet(options.registry))
  /\ \A i \in DOMAIN options.registry :
       /\ options.registry[i].cost \in Int /\ options.registry[i].cost <= NoLimit
       /\ options.registry[i].fallbacks \in Seq(ToSet(options.registry[i].fallbacks))
       /\ options.registry[i].id \notin {"jev", "none"}

\* Sequences stay sequences in a larger set.
LEMMA SeqWithin ==
  ASSUME NEW S, NEW T, S \subseteq T, NEW s \in Seq(S)
  PROVE  s \in Seq(T)
  OBVIOUS

\* A function with as many values as arguments is injective.
LEMMA AsManyImages ==
  ASSUME NEW n \in Nat, NEW f, NEW T, T = {f[i] : i \in 1 .. n}, Cardinality(T) = n
  PROVE  \A i, j \in 1 .. n : f[i] = f[j] => i = j
  <1> DEFINE g == [i \in 1 .. n |-> f[i]]
  <1>1. g \in Surjection(1 .. n, T)
    BY DEF Surjection
  <1>2. IsFiniteSet(1 .. n) /\ Cardinality(1 .. n) = IF 1 > n THEN 0 ELSE n - 1 + 1
    BY FS_Interval
  <1>3. Cardinality(1 .. n) = n
    BY <1>2
  <1>4. g \in Injection(1 .. n, T)
    <2> HIDE DEF g
    <2>1. QED
      BY <1>1, <1>2, <1>3, FS_Surjection
  <1>5. \A i, j \in 1 .. n : g[i] = g[j] => i = j
    <2> HIDE DEF g
    <2>1. QED
      BY <1>4 DEF Injection, IsInjective
  <1>6. \A i \in 1 .. n : g[i] = f[i]
    OBVIOUS
  <1>7. QED
    <2> HIDE DEF g
    <2>1. QED
      BY <1>5, <1>6

\* No two routes of a registry have the same id.
LEMMA RegistryIds ==
  ASSUME NEW routes, Len(routes) \in Nat, DOMAIN routes = 1 .. Len(routes),
         Cardinality(IdsOf(routes)) = Len(routes)
  PROVE  Unambiguous(routes)
  <1> DEFINE n == Len(routes)
             f == [i \in 1 .. n |-> routes[i].id]
  <1>1. \A i \in DOMAIN routes : i \in 1 .. n /\ f[i] = routes[i].id
    OBVIOUS
  <1>2. IdsOf(routes) = {f[i] : i \in 1 .. n}
    BY DEF IdsOf
  <1>3. \A i, j \in 1 .. n : f[i] = f[j] => i = j
    <2>1. n \in Nat /\ Cardinality(IdsOf(routes)) = n
      OBVIOUS
    <2> HIDE DEF f, n
    <2>2. QED
      BY <1>2, <2>1, AsManyImages
  <1>4. QED
    <2> HIDE DEF f, n
    <2>1. QED
      BY <1>1, <1>3 DEF Unambiguous

\* The routes of a gateway, whichever way they are configured: what the
\* registry accepted, the one configured fallback, or none.
RoutesOf(options) ==
  IF FallbackUsable(options) THEN <<ConfiguredFallback(FallbackAt(options))>>
  ELSE IF ValidRegistry(options.registry) THEN options.registry
  ELSE << >>

\* What IsGateway asks of the routes alone.
AreRoutes(routes, ids) ==
  /\ routes \in Seq(ToSet(routes))
  /\ Unambiguous(routes)
  /\ \A i \in DOMAIN routes : /\ routes[i].latency \in Nat /\ routes[i].cost \in Nat
                              /\ routes[i].latency <= MaxLatency /\ routes[i].cost <= NoLimit
                              /\ routes[i].privacy \subseteq Modes
  /\ ids \cap {"jev", "none"} = {}

\* The configured fallback is fit to be the only route.
LEMMA FallbackIsRoute ==
  ASSUME NEW at, NEW routes, routes = <<ConfiguredFallback(at)>>,
         NEW ids, ids = IdsOf(routes)
  PROVE  AreRoutes(routes, ids) /\ FailoversAmong(routes, ids)
  <1> DEFINE r == ConfiguredFallback(at)
  <1>1. /\ r.id = "configured-fallback" /\ r.latency = 8000 /\ r.cost = 50
        /\ r.privacy \subseteq Modes /\ r.fallbacks = << >>
    BY DEF ConfiguredFallback, Modes
  <1> HIDE DEF r
  <1>2. routes = <<r>>
    BY DEF r
  <1>3. /\ Len(routes) = 1 /\ DOMAIN routes = {1} /\ DOMAIN routes = 1 .. Len(routes)
        /\ routes[1] = r
    BY <1>2
  <1>4. ids = {"configured-fallback"}
    BY <1>1, <1>3 DEF IdsOf
  <1>5. routes \in Seq(ToSet(routes))
    BY <1>2, <1>3 DEF ToSet
  <1>6. FailoversAmong(routes, ids)
    <2>1. \A i \in DOMAIN routes : /\ routes[i].fallbacks \in Seq(ids)
                                   /\ Len(routes[i].fallbacks) <= MaxFallbacks
      <3>1. << >> \in Seq(ids) /\ Len(<< >>) <= MaxFallbacks
        BY DEF MaxFallbacks
      <3>2. r.fallbacks \in Seq(ids) /\ Len(r.fallbacks) <= MaxFallbacks
        BY <1>1, <3>1
      <3>3. QED
        BY <1>3, <3>2, Zenon
    <2>2. QED
      BY <1>3, <2>1 DEF FailoversAmong
  <1>7. r.latency \in Nat /\ r.cost \in Nat /\ r.latency <= MaxLatency /\ r.cost <= NoLimit
    BY <1>1, SMT DEF MaxLatency, NoLimit
  <1>8. QED
    BY <1>1, <1>3, <1>4, <1>5, <1>6, <1>7 DEF AreRoutes, Unambiguous

\* A registry that is accepted holds routes and failovers among them.
LEMMA RegistryIsRoutes ==
  ASSUME NEW options, IsOptions(options), ValidRegistry(options.registry),
         NEW routes, routes = options.registry,
         NEW ids, ids = IdsOf(routes)
  PROVE  AreRoutes(routes, ids) /\ FailoversAmong(routes, ids)
  <1>1. routes \in Seq(ToSet(routes)) /\ Len(routes) \in Nat /\ DOMAIN routes = 1 .. Len(routes)
    BY DEF IsOptions
  <1>2. Unambiguous(routes)
    <2>1. Cardinality(IdsOf(routes)) = Len(routes)
      BY Zenon DEF ValidRegistry, IdsOf
    <2>2. QED
      BY <1>1, <2>1, RegistryIds
  <1>3. ASSUME NEW i \in DOMAIN routes
        PROVE  /\ routes[i].latency \in Nat /\ routes[i].cost \in Nat
               /\ routes[i].latency <= MaxLatency /\ routes[i].cost <= NoLimit
               /\ routes[i].privacy \subseteq Modes
    <2>1. /\ routes[i].latency \in 0 .. MaxLatency /\ routes[i].cost >= 0
          /\ routes[i].privacy \subseteq Modes
      BY DEF ValidRegistry
    <2>2. routes[i].cost \in Int /\ routes[i].cost <= NoLimit
      BY DEF IsOptions
    <2>3. MaxLatency \in Int
      BY SMT DEF MaxLatency
    <2>4. QED
      BY <2>1, <2>2, <2>3
  <1>4. ids \cap {"jev", "none"} = {}
    BY DEF IsOptions, IdsOf
  <1>5. ASSUME NEW i \in DOMAIN routes
        PROVE  routes[i].fallbacks \in Seq(ids) /\ Len(routes[i].fallbacks) <= MaxFallbacks
    <2>1. ToSet(routes[i].fallbacks) \subseteq ids /\ Len(routes[i].fallbacks) <= MaxFallbacks
      BY DEF ValidRegistry, IdsOf
    <2>2. routes[i].fallbacks \in Seq(ToSet(routes[i].fallbacks))
      BY DEF IsOptions
    <2>3. QED
      BY <2>1, <2>2, SeqWithin
  <1>6. QED
    BY <1>1, <1>2, <1>3, <1>4, <1>5 DEF AreRoutes, FailoversAmong

\* So are all the routes that options come to.
LEMMA RoutesAre ==
  ASSUME NEW options, IsOptions(options), NEW routes, routes = RoutesOf(options),
         NEW ids, ids = IdsOf(routes)
  PROVE  AreRoutes(routes, ids) /\ FailoversAmong(routes, ids)
  <1>1. CASE FallbackUsable(options)
    BY <1>1, FallbackIsRoute DEF RoutesOf
  <1>2. CASE ~FallbackUsable(options) /\ ValidRegistry(options.registry)
    BY <1>2, RegistryIsRoutes DEF RoutesOf
  <1>3. CASE ~FallbackUsable(options) /\ ~ValidRegistry(options.registry)
    <2>1. routes = << >>
      BY <1>3 DEF RoutesOf
    <2>2. /\ Len(routes) = 0 /\ DOMAIN routes = {} /\ DOMAIN routes = 1 .. Len(routes)
          /\ ids = {}
      BY <2>1, NoDomain DEF IdsOf
    <2>3. routes \in Seq(ToSet(routes))
      BY <2>1
    <2>4. QED
      BY <2>2, <2>3 DEF AreRoutes, FailoversAmong, Unambiguous
  <1>4. QED
    BY <1>1, <1>2, <1>3

\* Whatever the options, missing or wrong, build_gateway makes a gateway of
\* them: a known client and privacy mode, routes that are unambiguous, whose
\* failovers are routes, in the order they come to from each; and a route
\* outside the home is offered only to requests that may go there.
THEOREM GatewaysAreBuilt ==
  ASSUME NEW options, IsOptions(options)
  PROVE  IsGateway(Wire(options))
  <1> DEFINE routes == RoutesOf(options)
             ids == IdsOf(routes)
             gateway == Wire(options)
  <1>1. /\ gateway.routes = routes /\ gateway.client = JevClient(options)
        /\ gateway.order = [id \in ids |-> BreadthFirst(routes, id)]
        /\ gateway.at = [id \in ids |-> IF FallbackUsable(options) THEN FallbackAt(options)
                                        ELSE "none"]
        /\ gateway.privacy = IF options.privacy \in Modes THEN options.privacy ELSE "local_only"
    BY DEF Wire, RoutesOf, IdsOf
  <1>2. gateway.privacy \in Modes
    BY <1>1 DEF Modes
  <1>3. gateway.client \in {"static", "compatible", "typesafe", "openrouter"}
    BY <1>1 DEF JevClient
  <1>4. AreRoutes(routes, ids) /\ FailoversAmong(routes, ids)
    <2> HIDE DEF routes
    <2>1. routes = RoutesOf(options)
      BY DEF routes
    <2>2. QED
      BY <2>1, RoutesAre
  <1>5. ASSUME NEW r \in ids  PROVE gateway.order[r] = BreadthFirst(routes, r)
    <2> HIDE DEF routes, ids, gateway
    <2>1. QED
      BY <1>1
  <1>6. ASSUME NEW r \in ids, Hosted(gateway.at[r])
        PROVE  Route(routes, r).privacy = {"hosted_allowed"}
    <2>1. FallbackUsable(options) /\ gateway.at[r] = FallbackAt(options)
      <3> HIDE DEF routes, ids, gateway
      <3>1. QED
        BY <1>1, <1>6 DEF Hosted
    <2>2. routes = <<ConfiguredFallback(FallbackAt(options))>>
      BY <2>1 DEF RoutesOf
    <2>3. DOMAIN routes = {1} /\ routes[1] = ConfiguredFallback(FallbackAt(options))
      <3> HIDE DEF routes
      <3>1. QED
        BY <2>2
    <2>4. Route(routes, r) = ConfiguredFallback(FallbackAt(options))
      <3>1. PICK i \in DOMAIN routes : Route(routes, r) = routes[i]
        BY RouteLookedUp DEF IdsOf
      <3> HIDE DEF routes
      <3>2. QED
        BY <2>3, <3>1
    <2>5. ConfiguredFallback(FallbackAt(options)).privacy = {"hosted_allowed"}
      BY <1>6, <2>1 DEF ConfiguredFallback
    <2>6. QED
      BY <2>4, <2>5
  <1>7. RouteIds(gateway) = ids
    BY <1>1 DEF RouteIds, IdsOf
  <1>8. \A i \in DOMAIN routes : /\ routes[i].fallbacks \in Seq(ids)
                                /\ Len(routes[i].fallbacks) <= MaxFallbacks
    <2> HIDE DEF routes, ids
    <2>1. QED
      BY <1>4 DEF FailoversAmong
  <1>9. QED
    <2> HIDE DEF routes, ids, gateway
    <2>1. IsGateway(gateway)
      BY <1>1, <1>2, <1>3, <1>4, <1>5, <1>6, <1>7, <1>8 DEF IsGateway, AreRoutes, Unambiguous
    <2>2. QED
      BY <2>1 DEF gateway
=============================================================================
