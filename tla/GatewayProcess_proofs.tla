----------------------- MODULE GatewayProcess_proofs -----------------------
(***************************************************************************)
(* What GatewayProcess promises for every home, every case and every       *)
(* bound: that no thread's locals are ever off the routes, that an answer  *)
(* the Core may act on is one it accepts, that nothing leaves the home     *)
(* beyond what App and request both allow, that no attempt is sent twice,  *)
(* that a repeated request gets its answer again, what the memory of       *)
(* answers may hold, and which routes a handoff tries.                     *)
(*                                                                         *)
(* The invariants are stated of the case and of one thread's locals, or    *)
(* one remembered answer, so that a step has to show them for the thread   *)
(* that took it alone; what relates threads to each other comes after.     *)
(***************************************************************************)
EXTENDS GatewayProcess, Wiring_proofs

-----------------------------------------------------------------------------
(* What a named group leads to.                                             *)

\* A set that a relation does not lead out of.
ClosedUnder(S, pairs) == \A p \in pairs : p[1] \in S => p[2] \in S

\* What a relation leads to is the least such set that holds the start.
LEMMA LeadsToLeast ==
  ASSUME NEW start, NEW pairs
  PROVE  /\ start \in LeadsTo(start, pairs) /\ ClosedUnder(LeadsTo(start, pairs), pairs)
         /\ \A S : start \in S /\ ClosedUnder(S, pairs) => LeadsTo(start, pairs) \subseteq S
  <1> DEFINE all == {start} \cup {p[2] : p \in pairs}
             L == {x \in all : \A S \in SUBSET all : start \in S /\ ClosedUnder(S, pairs) => x \in S}
  <1>1. LeadsTo(start, pairs) = L
    BY DEF LeadsTo, ClosedUnder
  <1>2. start \in L
    OBVIOUS
  <1>3. ClosedUnder(L, pairs)
    <2> SUFFICES ASSUME NEW p \in pairs, p[1] \in L
                 PROVE  p[2] \in L
      BY DEF ClosedUnder
    <2>1. p[2] \in all
      OBVIOUS
    <2>2. ASSUME NEW S \in SUBSET all, start \in S, ClosedUnder(S, pairs)
          PROVE  p[2] \in S
      <3>1. p[1] \in S
        BY <2>2
      <3>2. QED
        BY <2>2, <3>1 DEF ClosedUnder
    <2>3. QED
      BY <2>1, <2>2
  <1>4. ASSUME NEW S, start \in S, ClosedUnder(S, pairs)
        PROVE  L \subseteq S
    <2>1. ClosedUnder(S \cap all, pairs)
      BY <1>4 DEF ClosedUnder
    <2>2. S \cap all \in SUBSET all /\ start \in S \cap all
      BY <1>4
    <2>3. QED
      BY <2>1, <2>2
  <1>5. QED
    <2> HIDE DEF L
    <2>1. QED
      BY <1>1, <1>2, <1>3, <1>4

\* It leads to the start, and to what each next step leads to.
LEMMA LeadsToSteps ==
  ASSUME NEW start, NEW pairs, NEW next, \A m : m \in next <=> <<start, m>> \in pairs,
         \A p \in pairs : p = <<p[1], p[2]>>
  PROVE  LeadsTo(start, pairs) = {start} \cup UNION {LeadsTo(m, pairs) : m \in next}
  <1> DEFINE L == LeadsTo(start, pairs)
             S == {start} \cup UNION {LeadsTo(m, pairs) : m \in next}
  <1>1. start \in L /\ ClosedUnder(L, pairs)
    BY LeadsToLeast
  <1>2. ASSUME NEW m \in next  PROVE LeadsTo(m, pairs) \subseteq L
    <2>1. m \in L
      <3>1. <<start, m>> \in pairs
        OBVIOUS
      <3>2. <<start, m>>[1] \in L => <<start, m>>[2] \in L
        BY <1>1, <3>1 DEF ClosedUnder
      <3>3. QED
        BY <1>1, <3>2
    <2>2. QED
      BY <1>1, <2>1, LeadsToLeast
  <1>3. ClosedUnder(S, pairs)
    <2> SUFFICES ASSUME NEW p \in pairs, p[1] \in S
                 PROVE  p[2] \in S
      BY DEF ClosedUnder
    <2>1. CASE p[1] = start
      <3>1. p[2] \in next
        BY <2>1
      <3>2. p[2] \in LeadsTo(p[2], pairs)
        BY LeadsToLeast
      <3>3. QED
        BY <3>1, <3>2
    <2>2. ASSUME NEW m \in next, p[1] \in LeadsTo(m, pairs)
          PROVE  p[2] \in S
      <3>1. p[2] \in LeadsTo(m, pairs)
        BY <2>2, LeadsToLeast DEF ClosedUnder
      <3>2. QED
        BY <3>1
    <2>3. QED
      BY <2>1, <2>2
  <1>4. L \subseteq S
    BY <1>3, LeadsToLeast
  <1>5. QED
    BY <1>1, <1>2, <1>4

\* A home's groups and what is in them.
GroupRefs(home) == {g.ref : g \in home.groups}

Contents(home, ref) == LeadsTo(ref, Members(home)) \ GroupRefs(home)

\* A pair of the relation is a group and one of its members.
LEMMA MembersAre ==
  ASSUME NEW home
  PROVE  /\ \A p \in Members(home) : p = <<p[1], p[2]>> /\ p[1] \in GroupRefs(home)
         /\ IsHome(home) => \A g \in home.groups : \A m :
              m \in ToSet(g.members) <=> <<g.ref, m>> \in Members(home)
  <1>1. ASSUME NEW p \in Members(home)
        PROVE  \E g \in home.groups : \E m \in ToSet(g.members) : p = <<g.ref, m>>
    BY DEF Members
  <1>2. ASSUME NEW g \in home.groups, NEW m \in ToSet(g.members)
        PROVE  <<g.ref, m>> \in Members(home)
    BY DEF Members
  <1>3. ASSUME IsHome(home), NEW g \in home.groups, NEW m, <<g.ref, m>> \in Members(home)
        PROVE  m \in ToSet(g.members)
    <2>1. PICK h \in home.groups : \E n \in ToSet(h.members) : <<g.ref, m>> = <<h.ref, n>>
      BY <1>1, <1>3
    <2>2. g.ref = h.ref /\ m \in ToSet(h.members)
      BY <2>1
    <2>3. g = h
      BY <1>3, <2>2 DEF IsHome
    <2>4. QED
      BY <2>2, <2>3
  <1>4. QED
    BY <1>1, <1>2, <1>3 DEF GroupRefs

\* What a group comes to, if it comes to anything, is what it leads to, if
\* that holds of the groups in it.
LEMMA JoinedIsContents ==
  ASSUME NEW home, IsHome(home), NEW g \in home.groups, NEW inner,
         \A h \in home.groups : inner[h] \in {{}, Contents(home, h.ref)}
  PROVE  Joined(Snapshot(home), g, inner) \in {{}, Contents(home, g.ref)}
  <1> DEFINE snapshot == Snapshot(home)
             pairs == Members(home)
             R == GroupRefs(home)
             part(i) == Part(snapshot, g, inner, i)
             N == DOMAIN g.members
             M == ToSet(g.members)
  <1>1. snapshot.groups = home.groups
    BY DEF Snapshot
  <1>2. ASSUME NEW i \in N, part(i) # {}
        PROVE  part(i) = Contents(home, g.members[i])
    <2> DEFINE ref == g.members[i]
    <2>1. CASE IsGroup(snapshot, ref)
      <3>1. GroupNamed(snapshot, ref) \in home.groups /\ GroupNamed(snapshot, ref).ref = ref
        BY <1>1, <2>1 DEF IsGroup, GroupNamed
      <3>2. part(i) = inner[GroupNamed(snapshot, ref)]
        BY <2>1 DEF Part
      <3>3. QED
        BY <1>2, <3>1, <3>2
    <2>2. CASE ~IsGroup(snapshot, ref)
      <3>1. part(i) = {ref}
        BY <1>2, <2>2 DEF Part
      <3>2. ref \notin R
        BY <1>1, <2>2 DEF IsGroup, GroupRefs
      <3>3. \A m : m \in {} <=> <<ref, m>> \in pairs
        <4>1. ASSUME NEW m, <<ref, m>> \in pairs  PROVE FALSE
          <5>1. <<ref, m>>[1] \in R
            BY <4>1, MembersAre
          <5>2. QED
            BY <3>2, <5>1
        <4>2. QED
          BY <4>1
      <3>4. LeadsTo(ref, pairs) = {ref}
        <4>1. PICK none : none = {}
          OBVIOUS
        <4>2. \A p \in pairs : p = <<p[1], p[2]>>
          BY MembersAre
        <4> HIDE DEF pairs, ref
        <4>3. LeadsTo(ref, pairs) = {ref} \cup UNION {LeadsTo(m, pairs) : m \in none}
          BY <3>3, <4>1, <4>2, LeadsToSteps
        <4>4. QED
          BY <4>1, <4>3
      <3>5. QED
        BY <3>1, <3>2, <3>4 DEF Contents
    <2>3. QED
      BY <2>1, <2>2
  <1>3. Contents(home, g.ref) = UNION {Contents(home, m) : m \in M}
    <2>1. LeadsTo(g.ref, pairs) = {g.ref} \cup UNION {LeadsTo(m, pairs) : m \in M}
      BY MembersAre, LeadsToSteps
    <2>2. g.ref \in R
      BY DEF GroupRefs
    <2>3. QED
      BY <2>1, <2>2 DEF Contents
  <1>4. \/ Joined(snapshot, g, inner) = {}
        \/ /\ \A i \in N : part(i) # {}
           /\ Joined(snapshot, g, inner) = UNION {part(i) : i \in N}
    BY DEF Joined
  <1>5. ASSUME \A i \in N : part(i) # {}
        PROVE  UNION {part(i) : i \in N} = Contents(home, g.ref)
    <2> HIDE DEF part
    <2>1. \A i \in N : part(i) = Contents(home, g.members[i])
      BY <1>2, <1>5
    <2>2. M = {g.members[i] : i \in N}
      BY DEF ToSet
    <2> HIDE DEF M, N
    <2>3. UNION {part(i) : i \in N} = UNION {Contents(home, m) : m \in M}
      BY <2>1, <2>2
    <2>4. QED
      BY <1>3, <2>3
  <1>6. QED
    BY <1>4, <1>5

\* A compiled group is empty, or all that the group of its name leads to.
LEMMA GroupIsContents ==
  ASSUME NEW home, IsHome(home), NEW group \in CompiledGroups(Snapshot(home)), group.members # {}
  PROVE  \E g \in home.groups :
           g.name = group.name /\ group.members = Contents(home, g.ref)
  <1> DEFINE snapshot == Snapshot(home)
             T == [h \in home.groups |-> {{}, Contents(home, h.ref)}]
  <1>1. snapshot.groups = home.groups
    BY DEF Snapshot
  <1>2. PICK g \in home.groups : group.name = g.name /\ group.members = Resolve(snapshot)[g]
    BY <1>1 DEF CompiledGroups
  <1>3. ASSUME NEW h \in home.groups, NEW inner, \A i \in home.groups : inner[i] \in T[i]
        PROVE  Joined(snapshot, h, inner) \in T[h]
    <2>1. \A i \in home.groups : inner[i] \in {{}, Contents(home, i.ref)}
      BY <1>3
    <2>2. QED
      BY <2>1, JoinedIsContents
  <1>4. \A h \in home.groups : {} \in T[h]
    OBVIOUS
  <1>5. Resolve(snapshot)[g] \in T[g]
    <2> HIDE DEF T, snapshot
    <2>1. QED
      BY <1>1, <1>3, <1>4, ResolvedKeeps
  <1>6. QED
    BY <1>2, <1>5

\* Members of a batch are what a sentence that names a group names.
NamesAll(home, says, members) ==
  says.group =>
    \E g \in {x \in home.groups : x.name \in says.names} :
      {m[1] : m \in members} = Contents(home, g.ref)

\* What was found of a group is all of it, if it is as many.
LEMMA FoundIsAll ==
  ASSUME NEW home, IsHome(home), NEW found \in SUBSET Capabilities(Snapshot(home)), NEW op,
         OfOperation(found, op), NEW M, IsFiniteSet(M), \A c \in found : c.id[1] \in M,
         Cardinality(found) = Cardinality(M)
  PROVE  {c.id[1] : c \in found} = M
  <1> DEFINE F == {c.id[1] : c \in found}
             f == [r \in F |-> CHOOSE c \in found : c.id[1] = r]
  <1>1. F \in SUBSET M
    OBVIOUS
  <1>2. IsFiniteSet(F)
    BY <1>1, FS_Subset
  <1>3. ASSUME NEW c \in found, NEW d \in found, c.id[1] = d.id[1]
        PROVE  c = d
    <2>1. c \in Capabilities(Snapshot(home)) /\ d \in Capabilities(Snapshot(home))
      OBVIOUS
    <2>2. c.operation = op /\ d.operation = op
      BY DEF OfOperation
    <2>3. c.id = <<c.id[1], op>> /\ d.id = <<d.id[1], op>>
      BY <2>1, <2>2, CapabilityId
    <2>4. c.id = d.id
      BY <1>3, <2>3
    <2>5. QED
      BY <2>1, <2>4, CapabilityById
  <1>4. \A r \in F : f[r] \in found /\ f[r].id[1] = r
    OBVIOUS
  <1>5. f \in [F -> found]
    BY <1>4
  <1>6. \A c \in found : c.id[1] \in F /\ f[c.id[1]] = c
    <2> SUFFICES ASSUME NEW c \in found
                 PROVE  c.id[1] \in F /\ f[c.id[1]] = c
      OBVIOUS
    <2>1. c.id[1] \in F
      OBVIOUS
    <2> HIDE DEF F, f
    <2>2. QED
      BY <1>3, <1>4, <2>1
  <1>7. f \in Bijection(F, found)
    <2> HIDE DEF F, f
    <2>1. QED
      BY <1>4, <1>5, <1>6 DEF Bijection, Injection, Surjection, IsInjective
  <1>8. Cardinality(found) = Cardinality(F)
    BY <1>2, <1>7, FS_Bijection DEF ExistsBijection
  <1>9. QED
    <2> HIDE DEF F
    <2>1. F = M
      BY <1>1, <1>8, FS_Subset
    <2>2. QED
      BY <2>1 DEF F

\* A batch is for all that its sentence names.
LEMMA BatchNamesAll ==
  ASSUME NEW home, IsHome(home), NEW says,
         NEW batch, batch = BatchGroup(says, Capabilities(Snapshot(home)),
                                             CompiledGroups(Snapshot(home))),
         batch.op # ""
  PROVE  NamesAll(home, says, batch.members)
  <1> DEFINE capabilities == Capabilities(Snapshot(home))
             groups == CompiledGroups(Snapshot(home))
  <1> SUFFICES ASSUME says.group
               PROVE  \E g \in {x \in home.groups : x.name \in says.names} :
                        {m[1] : m \in batch.members} = Contents(home, g.ref)
    BY DEF NamesAll
  <1>1. batch = GroupBatch(says, capabilities, groups)
    BY DEF BatchGroup
  <1>2. PICK group \in groups, found \in SUBSET capabilities :
          FoundFor(says, group, found) /\ batch.members = {c.id : c \in found}
    <2> HIDE DEF capabilities, groups
    <2>1. Finds(says, capabilities, groups, batch)
      BY <1>1, GroupBatchFinds
    <2>2. QED
      BY <2>1, Zenon DEF Finds
  <1>3. {m[1] : m \in batch.members} = {c.id[1] : c \in found}
    BY <1>2
  <1>4. IsFiniteSet(group.members)
    BY GroupInHome, ReferencesFinite, FS_Subset
  <1>5. {c.id[1] : c \in found} = group.members
    BY <1>2, <1>4, FoundIsAll DEF FoundFor
  <1>6. PICK g \in home.groups :
          g.name = group.name /\ group.members = Contents(home, g.ref)
    BY <1>2, GroupIsContents DEF FoundFor
  <1>7. g \in {x \in home.groups : x.name \in says.names}
    BY <1>2, <1>6 DEF FoundFor
  <1>8. QED
    BY <1>3, <1>5, <1>6, <1>7

-----------------------------------------------------------------------------
(* What holds of an answer.                                                 *)

AnswerIs(a) ==
  /\ a = [key |-> a.key, id |-> a.id, members |-> a.members, parameters |-> a.parameters,
          route |-> a.route, rev |-> a.rev, under |-> a.under]
  /\ a.key \in Final \cup {"none"}

Acting == {"execute", "batch_execute", "confirmation_required"}

ConfirmedIn(c, id) ==
  \E u \in DOMAIN c.deliveries : c.deliveries[u].id = id /\ c.deliveries[u].confirmed

SingleSound(home, a, confirmed) ==
  /\ IsTarget(home, a.id)
  /\ <<CoreTarget(home, a.id).domain, CoreTarget(home, a.id).operation>> \in Executable
  /\ CoreTarget(home, a.id).risk = "confirm" => confirmed
  /\ a.route = "none" => CoreAccepts(CoreTarget(home, a.id).schema, a.parameters)

BatchSound(home, members) ==
  /\ \A m \in members : IsTarget(home, m) /\ CoreTarget(home, m).risk = "routine"
  /\ Cardinality({m[1] : m \in members}) = Cardinality(members)
  /\ Cardinality({m[2] : m \in members}) = 1

\* What a request of this id, made under this revision, names.
Said(c, id, r, members) ==
  \A u \in DOMAIN c.deliveries :
    c.deliveries[u].id = id => NamesAll(Homes[c.homes[r]], c.deliveries[u].says, members)

\* id is that of the request it answers.
Sound(c, id, a) ==
  /\ a.key \in Acting =>
       /\ a.under # 0
       /\ a.under = a.rev =>
            /\ a.key = "execute" => SingleSound(Homes[c.homes[a.rev]], a, ConfirmedIn(c, id))
            /\ a.key = "batch_execute" => BatchSound(Homes[c.homes[a.rev]], a.members)
  /\ a.key = "batch_execute" => Said(c, id, a.rev, a.members)

-----------------------------------------------------------------------------
(* What holds of a thread's locals.                                         *)

PCs == {"idle", "asking", "sending", "waiting", "probing", "trimming", "done", "failed",
        "dropped"}

Shaped(l) ==
  l = [pc |-> l.pc, batch |-> l.batch, decision |-> l.decision, first |-> l.first,
       attempts |-> l.attempts, pos |-> l.pos, probe |-> l.probe, oldest |-> l.oldest,
       answer |-> l.answer, consulted |-> l.consulted, settled |-> l.settled]

ModeIn(c, t) ==
  LET asked == c.deliveries[t].privacy
  IN  IF asked = "unset" \/ Width(c.gateway.privacy) < Width(asked)
        THEN c.gateway.privacy ELSE asked

Admits(c, t, r) == ModeIn(c, t) \in Route(c.gateway.routes, r).privacy

\* The attempts that are left are at routes of the order, which, for a
\* request, admit it.
OnRoute(c, t, l) ==
  LET order == c.gateway.order[l.first]
  IN /\ l.first \in RouteIds(c.gateway)
     /\ l.attempts \subseteq DOMAIN order /\ l.pos \in l.attempts
     /\ ~c.deliveries[t].probe => \A i \in l.attempts : Admits(c, t, order[i])

\* A batch holds what the thread's request names.
BatchIn(c, t, batch) ==
  /\ IsBatchRecord(batch)
  /\ batch.op # "" => Said(c, c.deliveries[t].id, c.deliveries[t].rev, batch.members)

Typed(c, t, l) ==
  /\ Shaped(l)
  /\ l.pc \in PCs
  /\ AnswerIs(l.answer) /\ BatchIn(c, t, l.batch)
  /\ l.pc = "idle" => l = NoThread
  /\ l.pc # "idle" => t \in DOMAIN c.deliveries
  /\ l.pc \in {"sending", "waiting"} => OnRoute(c, t, l)
  /\ l.pc = "probing" => c.deliveries[t].probe
  /\ l.pc \in {"probing", "sending", "waiting"} /\ c.deliveries[t].probe => l.probe \in Nat \ {0}
  /\ l.pc = "done" /\ ~c.deliveries[t].probe => l.answer.key # "none"
  /\ l.pc = "trimming" => ~c.deliveries[t].probe /\ l.answer.key # "none" /\ l.oldest # ""

\* What a request was sent to, it may be sent to.
Private(c, t, l) ==
  ~c.deliveries[t].probe =>
    \A x \in l.consulted :
      \/ x = "jev" /\ ~(ModeIn(c, t) = "local_only" /\ Hosted(c.gateway.jevAt))
      \/ x \in RouteIds(c.gateway) /\ Admits(c, t, x)

LocalsAre(c, t, l) ==
  /\ Typed(c, t, l)
  /\ t \in DOMAIN c.deliveries => Private(c, t, l) /\ Sound(c, c.deliveries[t].id, l.answer)

-----------------------------------------------------------------------------
(* What holds of the memory, and of the whole state.                        *)

RequestIds(c) ==
  {c.deliveries[t].id : t \in {u \in DOMAIN c.deliveries : ~c.deliveries[u].probe}}

EntryIs(c, e) ==
  /\ e.id \in RequestIds(c)
  /\ AnswerIs(e.answer) /\ e.answer.key # "none" /\ Sound(c, e.id, e.answer)

IsMemory(c, s) ==
  /\ s \in Seq(ToSet(s))
  /\ \A i, j \in 1 .. Len(s) : s[i].id = s[j].id => i = j
  /\ \A i \in 1 .. Len(s) : EntryIs(c, s[i])

Circuits == [failures : 0 .. 2, open : BOOLEAN]

\* The profile that is current is one the App was told of.
Inv ==
  /\ case \in Cases
  /\ rev \in 0 .. Len(case.homes) /\ current \in BOOLEAN /\ (current => rev > 0)
  /\ IsMemory(case, seen)
  /\ circuit \in [RouteIds(case.gateway) -> Circuits]
  /\ thread = [t \in Threads |-> thread[t]]
  /\ \A t \in Threads : LocalsAre(case, t, thread[t])

-----------------------------------------------------------------------------
(* What relates the threads to each other.                                  *)

\* The identities of attempts.
HandoffKeys ==
  ({Request(t).id : t \in Delivered} \cup {"compatibility"}) \X RouteIds(Gateway) \X RouteIds(Gateway)

\* With the chat adapter, whoever was attempted for a request is on record.
AttemptsOnRecord ==
  Gateway.adapter = "chat" =>
    /\ attempted \in Seq(HandoffKeys)
    /\ \A t \in Delivered : ~Request(t).probe =>
         /\ thread[t].pc \in {"idle", "asking"} => thread[t].consulted \subseteq {"jev"}
         /\ \A r \in thread[t].consulted \ {"jev"} :
              \E i \in DOMAIN attempted : attempted[i] = <<Request(t).id, thread[t].first, r>>

Finished(u) == u \in Delivered /\ ~Request(u).probe /\ thread[u].pc = "done"

\* Every request that was answered is remembered, with an answer that one of
\* its threads got.
Complete ==
  /\ \A t \in Threads : thread[t].pc # "trimming"
  /\ \A u \in Threads : Finished(u) => IsRemembered(Request(u).id)
  /\ \A i \in DOMAIN seen :
       \E u \in Threads : /\ Finished(u) /\ Request(u).id = seen[i].id
                          /\ thread[u].answer = seen[i].answer

\* No more requests come than answers are remembered.
Few(c) == Cardinality(RequestIds(c)) <= RememberLimit

AllRemembered == Few(case) => Complete

\* Who was done when a thread began still is.
SettledAreDone == \A t \in Threads : thread[t].settled \subseteq Settled

\* The threads that account for answers beyond the limit.
Exceeds(l) ==
  \/ l.pc = "trimming"
  \/ l.pc = "failed" /\ l.oldest # ""

Exceeding == {t \in Delivered : Exceeds(thread[t])}

ExcessAccounted == Len(seen) <= RememberLimit + Cardinality(Exceeding)

-----------------------------------------------------------------------------
(* Answers.                                                                 *)

\* The fields of an answer that carries nothing but its key.
LEMMA ReplyIs ==
  ASSUME NEW t, NEW key \in Final
  PROVE  /\ Reply(t, key) =
              [key |-> key, id |-> << >>, members |-> {}, parameters |-> << >>,
               route |-> "none", rev |-> Request(t).rev, under |-> IF current THEN rev ELSE 0]
         /\ AnswerIs(Reply(t, key)) /\ Reply(t, key).key = key /\ key # "none"
         /\ Reply(t, key).rev = Request(t).rev
         /\ Reply(t, key).under = IF current THEN rev ELSE 0
         /\ Reply(t, key).route = "none"
  <1> DEFINE under == IF current THEN rev ELSE 0
  <1> HIDE DEF under
  <1>1. ASSUME NEW k, k = [NoAnswer EXCEPT !.key = key, !.rev = Request(t).rev, !.under = under]
        PROVE  k = [key |-> key, id |-> << >>, members |-> {}, parameters |-> << >>,
                    route |-> "none", rev |-> Request(t).rev, under |-> under]
    BY <1>1 DEF NoAnswer
  <1>2. Reply(t, key) =
          [key |-> key, id |-> << >>, members |-> {}, parameters |-> << >>,
           route |-> "none", rev |-> Request(t).rev, under |-> under]
    BY <1>1, Zenon DEF Reply, under
  <1>3. key # "none"
    BY DEF Final
  <1>4. QED
    BY <1>2, <1>3 DEF AnswerIs, under

\* One that does not let the Core act promises nothing.
LEMMA HarmlessSound ==
  ASSUME NEW c, NEW id, NEW a, a.key \notin Acting
  PROVE  Sound(c, id, a)
  BY DEF Sound, Acting

\* A fallback's answer is under its route, and promises less.
Routed(a, r) == [a EXCEPT !.route = r]

\* Its fields.
LEMMA RoutedIs ==
  ASSUME NEW a, AnswerIs(a), NEW r, NEW b, b = Routed(a, r)
  PROVE  /\ AnswerIs(b) /\ b.key = a.key /\ b.id = a.id /\ b.members = a.members
         /\ b.parameters = a.parameters /\ b.route = r /\ b.rev = a.rev /\ b.under = a.under
  BY DEF AnswerIs, Routed

\* What it promises is what it promised before.
LEMMA RoutedSound ==
  ASSUME NEW c, NEW id, NEW a, AnswerIs(a), Sound(c, id, a), NEW r, r # "none",
         NEW b, b = Routed(a, r)
  PROVE  AnswerIs(b) /\ b.key = a.key /\ Sound(c, id, b)
  <1>1. /\ AnswerIs(b) /\ b.key = a.key /\ b.id = a.id /\ b.members = a.members
        /\ b.parameters = a.parameters /\ b.route = r /\ b.rev = a.rev /\ b.under = a.under
    BY RoutedIs
  <1>2. ASSUME NEW home, NEW confirmed, SingleSound(home, a, confirmed)
        PROVE  SingleSound(home, b, confirmed)
    BY <1>1, <1>2 DEF SingleSound
  <1>3. Sound(c, id, b)
    BY <1>1, <1>2 DEF Sound
  <1>4. QED
    BY <1>1, <1>3

\* What the policy may say.
LEMMA PolicySays ==
  ASSUME NEW id, NEW sure, NEW clear, NEW confirmed
  PROVE  /\ Policy(id, sure, clear, confirmed) \in Final
         /\ Policy(id, sure, clear, confirmed) # "batch_execute"
         /\ Policy(id, sure, clear, confirmed) \in Acting => current
  BY DEF Policy, EvaluateCapability, Final, Acting

\* While the profile is current, it is that of a home the Core found.
LEMMA ActiveIs ==
  ASSUME Inv, current
  PROVE  /\ rev # 0 /\ IsHome(Homes[case.homes[rev]])
         /\ Active.capabilities = Capabilities(Snapshot(Homes[case.homes[rev]]))
         /\ Active.groups = CompiledGroups(Snapshot(Homes[case.homes[rev]]))
  <1>1. rev \in 1 .. Len(case.homes) /\ case.homes \in Seq(DOMAIN Homes)
    BY CasesAre DEF Inv, IsCase
  <1>2. case.homes[rev] \in DOMAIN Homes
    BY <1>1, ElementOfSeq
  <1>3. QED
    BY <1>1, <1>2, HomesAre DEF HomesAssumption, Active, Profiles

\* What the policy lets through is a target of the Core's, with the schema
\* the App has of it.
LEMMA ExecutedIsTarget ==
  ASSUME Inv, NEW id, NEW sure, NEW clear, NEW confirmed \in BOOLEAN,
         Policy(id, sure, clear, confirmed) = "execute"
  PROVE  LET home == Homes[case.homes[rev]]
             target == CoreTarget(home, id)
         IN /\ current /\ Found(id) # {} /\ IsTarget(home, id)
            /\ <<target.domain, target.operation>> \in Executable
            /\ target.risk \in {"routine", "confirm"} /\ (target.risk = "confirm" => confirmed)
            /\ Schema(id) = target.schema
            /\ \E e \in home.entities, op \in AllOperations : target.schema = ParameterSchema(e, op)
  <1> DEFINE home == Homes[case.homes[rev]]
             target == CoreTarget(home, id)
  <1>1. current
    BY PolicySays DEF Acting
  <1>2. EvaluateCapability(Found(id), sure, clear, confirmed) = "execute"
    BY <1>1 DEF Policy
  <1>3. PICK c \in Found(id) : /\ c = (CHOOSE x \in Found(id) : TRUE)
                               /\ c.domain \in AllowedDomains /\ (c.risk = "confirm" => confirmed)
    BY <1>2, PolicyExecutes
  <1>4. IsHome(home) /\ c \in Capabilities(Snapshot(home)) /\ c.id = id
    BY <1>1, ActiveIs DEF Found
  <1>5. /\ IsTarget(home, id) /\ <<target.domain, target.operation>> \in Executable
        /\ target.risk = c.risk /\ target.schema = c.schema /\ c.risk \in {"routine", "confirm"}
    BY <1>3, <1>4, CapabilityIsTarget
  <1>6. \E e \in home.entities, op \in AllOperations : c.schema = ParameterSchema(e, op)
    <2>1. c.domain # "script"
      BY <1>3 DEF AllowedDomains, HighRiskDomains
    <2>2. QED
      BY <1>4, <2>1, CapabilityOf
  <1>7. Schema(id) = c.schema
    BY <1>3 DEF Schema
  <1>8. QED
    BY <1>1, <1>3, <1>5, <1>6, <1>7

\* The fields of an answer about a capability.
About(r, id, parameters) == [r EXCEPT !.id = id, !.parameters = parameters]

\* Its fields are those of the reply, but for these two.
LEMMA AboutIs ==
  ASSUME NEW r, AnswerIs(r), NEW id, NEW parameters, NEW a, a = About(r, id, parameters)
  PROVE  /\ AnswerIs(a) /\ a.key = r.key /\ a.id = id /\ a.parameters = parameters
         /\ a.route = r.route /\ a.rev = r.rev /\ a.under = r.under
  BY DEF AnswerIs, About

\* A reply about a capability.
LEMMA AboutReply ==
  ASSUME NEW t, NEW key \in Final, NEW id, NEW parameters,
         NEW a, a = About(Reply(t, key), id, parameters)
  PROVE  /\ AnswerIs(a) /\ a.key = key /\ key # "none" /\ a.id = id
         /\ a.parameters = parameters /\ a.route = "none" /\ a.rev = Request(t).rev
         /\ a.under = IF current THEN rev ELSE 0
  <1>1. AnswerIs(Reply(t, key))
    BY ReplyIs
  <1>2. /\ AnswerIs(a) /\ a.key = Reply(t, key).key /\ a.id = id /\ a.parameters = parameters
        /\ a.route = Reply(t, key).route /\ a.rev = Reply(t, key).rev
        /\ a.under = Reply(t, key).under
    BY <1>1, AboutIs
  <1>3. QED
    BY <1>2, ReplyIs

\* An answer that a thread may end with.
AnswersFor(t, a) == AnswerIs(a) /\ a.key # "none" /\ Sound(case, Request(t).id, a)

\* A reply that does not let the Core act is one.
LEMMA ReplyFor ==
  ASSUME NEW t, NEW key \in Final \ Acting
  PROVE  AnswersFor(t, Reply(t, key))
  BY ReplyIs, HarmlessSound DEF AnswersFor

\* The members of a batch differ in their entities, and in nothing else.
LEMMA BatchOfEntities ==
  ASSUME NEW batch, BatchHolds(batch)
  PROVE  /\ Cardinality({m[1] : m \in batch.members}) = Cardinality(batch.members)
         /\ Cardinality({m[2] : m \in batch.members}) = 1
  <1> DEFINE S == batch.members
             f == [m \in S |-> m[1]]
             T == {m[1] : m \in S}
  <1>1. \A m, n \in S : m[1] = n[1] => m = n
    BY DEF BatchHolds
  <1>2. f \in Bijection(S, T)
    <2>1. f \in [S -> T] /\ \A m \in S : f[m] = m[1]
      OBVIOUS
    <2> HIDE DEF f
    <2>2. DOMAIN f = S /\ \A x \in T : \E m \in S : f[m] = x
      BY <2>1
    <2>3. QED
      BY <1>1, <2>1, <2>2 DEF Bijection, Injection, Surjection, IsInjective
  <1>3. Cardinality(T) = Cardinality(S)
    BY <1>2, FS_Bijection DEF BatchHolds, ExistsBijection
  <1>4. {m[2] : m \in S} = {batch.op}
    <2>1. \A m \in S : m[2] = batch.op
      BY DEF BatchHolds
    <2>2. QED
      BY <2>1 DEF BatchHolds
  <1>5. QED
    BY <1>3, <1>4, FS_Singleton

Succeeds(d) == d.error = ""

\* _evaluate_execution: what is executed is what the Core accepts.
LEMMA EvaluatedFor ==
  ASSUME Inv, NEW t \in Delivered, ~IsBatch(t),
         NEW d, Succeeds(d), IsDecision(d, Listing(t))
  PROVE  AnswersFor(t, Evaluated(t, d))
  <1> DEFINE key == Policy(d.id, d.confidence >= 86, d.ambiguity <= 28, Request(t).confirmed)
             a == [Reply(t, key) EXCEPT !.id = d.id, !.parameters = d.parameters]
             home == Homes[case.homes[rev]]
             target == CoreTarget(home, d.id)
  <1>1. CASE Evaluated(t, d) \in {Reply(t, "candidate_not_allowed"), Reply(t, "invalid_parameters")}
    BY <1>1, ReplyFor DEF Final, Acting
  <1>2. CASE /\ Evaluated(t, d) = a
             /\ Found(d.id) # {} => PolicyAccepts(Schema(d.id), d.parameters)
    <2>1. key \in Final /\ key # "batch_execute" /\ (key \in Acting => current)
      BY PolicySays
    <2> HIDE DEF key
    <2>2. /\ AnswerIs(a) /\ a.key = key /\ key # "none" /\ a.id = d.id /\ a.route = "none"
          /\ a.parameters = d.parameters /\ a.rev = Request(t).rev
          /\ a.under = IF current THEN rev ELSE 0
      <3>1. a = About(Reply(t, key), d.id, d.parameters)
        BY DEF About
      <3> HIDE DEF a
      <3>2. QED
        BY <2>1, <3>1, AboutReply
    <2> HIDE DEF a
    <2>3. ASSUME key = "execute", a.under = a.rev
          PROVE  SingleSound(home, a, ConfirmedIn(case, Request(t).id))
      <3>1. Request(t).confirmed \in BOOLEAN
        BY CasesAre DEF Inv, IsCase, IsRequest, Delivered, Request
      <3>2. /\ current /\ Found(d.id) # {} /\ IsTarget(home, d.id)
            /\ <<target.domain, target.operation>> \in Executable
            /\ target.risk = "confirm" => Request(t).confirmed
            /\ Schema(d.id) = target.schema
            /\ \E e \in home.entities, op \in AllOperations : target.schema = ParameterSchema(e, op)
        BY <2>3, <3>1, ExecutedIsTarget DEF key
      <3>3. Request(t).confirmed => ConfirmedIn(case, Request(t).id)
        BY DEF ConfirmedIn, Request, Delivered
      <3>4. rev = Request(t).rev
        BY <2>2, <2>3, <3>2
      <3>5. ASSUME target.schema.type = "number"
            PROVE  \A name \in DOMAIN d.parameters : d.parameters[name].type = "number"
        <4>1. CASE DOMAIN d.parameters = {}
          BY <4>1
        <4>2. CASE DOMAIN d.parameters # {}
          <5>1. /\ d.id \in DOMAIN Listing(t) /\ Listing(t)[d.id].schema.type # "none"
                /\ Listing(t)[d.id].schema.type = "number" =>
                     \A name \in DOMAIN d.parameters : d.parameters[name].type = "number"
            BY <4>2 DEF IsDecision, Succeeds
          <5>2. Listing(t)[d.id].schema = IF Request(t).compact THEN NoParameter ELSE target.schema
            BY <5>1, <3>4 DEF Listing
          <5>3. NoParameter.type = "none"
            BY DEF NoParameter
          <5>4. Listing(t)[d.id].schema = target.schema
            BY <5>1, <5>2, <5>3, Zenon
          <5>5. QED
            BY <3>5, <5>1, <5>4, Zenon
        <4>3. QED
          BY <4>1, <4>2
      <3>6. CoreAccepts(target.schema, d.parameters)
        <4>1. PICK e \in home.entities, op \in AllOperations : target.schema = ParameterSchema(e, op)
          BY <3>2
        <4>2. IsHome(home) /\ PolicyAccepts(ParameterSchema(e, op), d.parameters)
          BY <1>2, <3>2, <4>1, ActiveIs
        <4>3. QED
          BY <3>5, <4>1, <4>2, ParametersAccepted
      <3> HIDE DEF target, home
      <3>7. QED
        BY <2>2, <3>2, <3>3, <3>6 DEF SingleSound, target
    <2>4. key \in Acting => a.under # 0 /\ (a.under = a.rev => a.rev = rev)
      BY <2>1, <2>2, ActiveIs
    <2>5. Sound(case, Request(t).id, a)
      BY <2>1, <2>2, <2>3, <2>4 DEF Sound
    <2>6. QED
      BY <1>2, <2>2, <2>5 DEF AnswersFor
  <1>3. QED
    BY <1>1, <1>2 DEF Evaluated

\* The fields of an answer about a batch.
BatchReply(t, id, members) ==
  [Reply(t, "batch_execute") EXCEPT !.id = id, !.members = members]

\* Its fields.
LEMMA BatchReplyIs ==
  ASSUME NEW t, NEW id, NEW members, NEW a, a = BatchReply(t, id, members)
  PROVE  /\ AnswerIs(a) /\ a.key = "batch_execute" /\ a.members = members
         /\ a.rev = Request(t).rev /\ a.under = IF current THEN rev ELSE 0
  <1>1. "batch_execute" \in Final
    BY DEF Final
  <1>2. ASSUME NEW r, AnswerIs(r), NEW b, b = [r EXCEPT !.id = id, !.members = members]
        PROVE  /\ AnswerIs(b) /\ b.key = r.key /\ b.members = members
               /\ b.rev = r.rev /\ b.under = r.under
    BY <1>2 DEF AnswerIs
  <1> DEFINE r == Reply(t, "batch_execute")
  <1>3. /\ AnswerIs(r) /\ r.key = "batch_execute" /\ r.rev = Request(t).rev
        /\ r.under = IF current THEN rev ELSE 0
    BY <1>1, ReplyIs
  <1>4. a = [r EXCEPT !.id = id, !.members = members]
    BY DEF BatchReply
  <1> HIDE DEF r
  <1>5. /\ AnswerIs(a) /\ a.key = r.key /\ a.members = members
        /\ a.rev = r.rev /\ a.under = r.under
    BY <1>2, <1>3, <1>4
  <1>6. QED
    BY <1>3, <1>5

\* _evaluate_batch: a batch is executed as a whole, or not at all.
LEMMA BatchAnswersFor ==
  ASSUME Inv, NEW t \in Delivered, BatchHolds(thread[t].batch),
         Said(case, Request(t).id, Request(t).rev, thread[t].batch.members),
         NEW id, NEW parameters, NEW a \in BatchAnswers(t, id, parameters)
  PROVE  AnswersFor(t, a)
  <1> DEFINE members == thread[t].batch.members
             home == Homes[case.homes[rev]]
             verdict(m) == Policy(m, TRUE, TRUE, FALSE)
             failing == {verdict(m) : m \in {x \in members : verdict(x) # "execute"}}
             mapped(key) == IF key = "confirmation_required"
                              THEN "batch_confirmation_unsupported" ELSE key
  <1>1. \/ a = Reply(t, "candidate_not_allowed")
        \/ \E key \in failing : a = Reply(t, mapped(key))
        \/ a = Reply(t, "invalid_parameters")
        \/ failing = {} /\ a = BatchReply(t, id, members)
    BY DEF BatchAnswers, BatchReply
  <1>2. CASE a = Reply(t, "candidate_not_allowed") \/ a = Reply(t, "invalid_parameters")
    BY <1>2, ReplyFor DEF Final, Acting
  <1>3. CASE \E key \in failing : a = Reply(t, mapped(key))
    <2>1. PICK key \in failing : a = Reply(t, mapped(key))
      BY <1>3
    <2>2. key \in Final /\ key # "execute" /\ key # "batch_execute"
      BY <2>1, PolicySays
    <2>3. mapped(key) \in Final \ Acting
      BY <2>2 DEF Final, Acting
    <2>4. QED
      BY <2>1, <2>3, ReplyFor
  <1>4. CASE failing = {} /\ a = BatchReply(t, id, members)
    <2>1. /\ AnswerIs(a) /\ a.key = "batch_execute" /\ a.members = members
          /\ a.rev = Request(t).rev /\ a.under = IF current THEN rev ELSE 0
      BY <1>4, BatchReplyIs
    <2>2. \A m \in members : verdict(m) = "execute"
      BY <1>4
    <2>3. \A m \in members : /\ current /\ IsTarget(home, m)
                             /\ CoreTarget(home, m).risk = "routine"
      <3> SUFFICES ASSUME NEW m \in members
                   PROVE  /\ current /\ IsTarget(home, m)
                          /\ CoreTarget(home, m).risk = "routine"
        OBVIOUS
      <3>1. Policy(m, TRUE, TRUE, FALSE) = "execute"
        BY <2>2
      <3>2. /\ current /\ IsTarget(home, m)
            /\ CoreTarget(home, m).risk \in {"routine", "confirm"}
            /\ CoreTarget(home, m).risk = "confirm" => FALSE
        BY <3>1, ExecutedIsTarget
      <3>3. QED
        BY <3>2
    <2>4. members # {}
      BY DEF BatchHolds
    <2>5. current /\ rev # 0
      BY <2>3, <2>4, ActiveIs
    <2>6. BatchSound(home, members)
      BY <2>3, BatchOfEntities DEF BatchSound
    <2>7. a.under = rev
      BY <2>1, <2>5
    <2>8. Sound(case, Request(t).id, a)
      BY <2>1, <2>5, <2>6, <2>7 DEF Sound
    <2>9. QED
      BY <2>1, <2>8 DEF AnswersFor
  <1>5. QED
    BY <1>1, <1>2, <1>3, <1>4

\* A thread that acts for a batch has one that can be carried out.
LEMMA BatchOfThread ==
  ASSUME Inv, NEW t \in Threads, IsBatch(t)
  PROVE  /\ BatchHolds(thread[t].batch)
         /\ Said(case, Request(t).id, Request(t).rev, thread[t].batch.members)
  BY DEF Inv, LocalsAre, Typed, IsBatch, BatchIn, IsBatchRecord, Request

\* Whatever process answers of a decision, if it does not delegate, is an
\* answer.
LEMMA VerdictFor ==
  ASSUME Inv, NEW t \in Threads, t \in Delivered, NEW d \in Decisions(t),
         NEW verdict \in Verdicts(t, d)
  PROVE  AnswersFor(t, verdict)
  <1>1. IsDecision(d, Listing(t))
    <2>1. PICK raw \in IF Gateway.client = "static" THEN {Down} ELSE case.answers :
            d = Decided(Gateway.client, raw, Listing(t))
      BY DEF Decisions
    <2>2. /\ Gateway.client \in {"static", "compatible", "typesafe", "openrouter"}
          /\ \A answer \in case.answers : answer.shape \in {"ok", "down", "malformed"}
      BY CasesAre DEF Inv, IsCase, IsGateway, Gateway
    <2>3. raw.shape \in {"ok", "down", "malformed"}
      BY <2>1, <2>2 DEF Down
    <2>4. QED
      BY <2>1, <2>2, <2>3, DecidedIsDecision
  <1>2. CASE d.error # ""
    <2>1. verdict = Reply(t, d.error)
      BY <1>2 DEF Verdicts
    <2>2. d.error \in Final \ Acting
      BY <1>1, <1>2 DEF IsDecision, Final, Acting
    <2>3. QED
      BY <2>1, <2>2, ReplyFor
  <1>3. CASE Succeeds(d)
    <2>1. d.route \in RouteKinds
      BY <1>1, <1>3 DEF IsDecision, Succeeds
    <2>2. \/ \E key \in {"clarification_required", "request_refused", "read_only_answer",
                         "route_not_allowed"} : verdict = Reply(t, key)
          \/ IsBatch(t) /\ verdict \in BatchAnswers(t, d.id, d.parameters)
          \/ ~IsBatch(t) /\ verdict = Evaluated(t, d)
      BY <1>3, <2>1 DEF Verdicts, Succeeds, RouteKinds
    <2>3. ASSUME NEW key \in {"clarification_required", "request_refused", "read_only_answer",
                              "route_not_allowed"}
          PROVE  AnswersFor(t, Reply(t, key))
      BY ReplyFor DEF Final, Acting
    <2>4. QED
      BY <1>1, <1>3, <2>2, <2>3, EvaluatedFor, BatchAnswersFor, BatchOfThread
  <1>4. QED
    BY <1>2, <1>3 DEF Succeeds

IsRoute(first) == first # "none"
Gates(t, id, key) == key = Policy(id, TRUE, TRUE, Request(t).confirmed)

Proposed(t, key, id, parameters, first) ==
  Routed(About(Reply(t, key), id, parameters), first)

\* The fields of an answer to a fallback's proposal.
LEMMA ProposedIs ==
  ASSUME NEW t, NEW key \in Final, NEW id, NEW parameters, NEW first,
         NEW b, b = Proposed(t, key, id, parameters, first)
  PROVE  /\ AnswerIs(b) /\ b.key = key /\ key # "none" /\ b.id = id /\ b.route = first
         /\ b.rev = Request(t).rev /\ b.under = IF current THEN rev ELSE 0
  <1> DEFINE a == About(Reply(t, key), id, parameters)
  <1>1. /\ AnswerIs(a) /\ a.key = key /\ key # "none" /\ a.id = id
        /\ a.rev = Request(t).rev /\ a.under = IF current THEN rev ELSE 0
    BY AboutReply
  <1>2. b = Routed(a, first)
    BY DEF Proposed
  <1> HIDE DEF a
  <1>3. /\ AnswerIs(b) /\ b.key = a.key /\ b.id = a.id /\ b.route = first
        /\ b.rev = a.rev /\ b.under = a.under
    BY <1>1, <1>2, RoutedIs
  <1>4. QED
    BY <1>1, <1>3

\* The gate of a fallback's proposal lets nothing through but what the Core
\* may execute.
LEMMA ProposedFor ==
  ASSUME Inv, NEW t \in Delivered, NEW id, NEW parameters, NEW first, IsRoute(first),
         NEW key, Gates(t, id, key)
  PROVE  AnswersFor(t, Proposed(t, key, id, parameters, first))
  <1> DEFINE b == Proposed(t, key, id, parameters, first)
             home == Homes[case.homes[rev]]
             target == CoreTarget(home, id)
  <1>1. key \in Final /\ key # "batch_execute" /\ (key \in Acting => current)
    BY PolicySays DEF Gates
  <1>2. /\ AnswerIs(b) /\ b.key = key /\ key # "none" /\ b.id = id /\ b.route = first
        /\ b.rev = Request(t).rev /\ b.under = IF current THEN rev ELSE 0
    BY <1>1, ProposedIs
  <1> HIDE DEF b
  <1>3. ASSUME key = "execute"
        PROVE  /\ current /\ IsTarget(home, id)
               /\ <<target.domain, target.operation>> \in Executable
               /\ target.risk = "confirm" => Request(t).confirmed
    <2>1. Request(t).confirmed \in BOOLEAN
      BY CasesAre DEF Inv, IsCase, IsRequest, Delivered, Request
    <2>2. QED
      BY <1>3, <2>1, ExecutedIsTarget DEF Gates
  <1>4. Request(t).confirmed => ConfirmedIn(case, Request(t).id)
    BY DEF ConfirmedIn, Request, Delivered
  <1>5. ASSUME key = "execute"
        PROVE  SingleSound(home, b, ConfirmedIn(case, Request(t).id))
    <2>1. /\ IsTarget(home, id) /\ <<target.domain, target.operation>> \in Executable
          /\ target.risk = "confirm" => ConfirmedIn(case, Request(t).id)
      BY <1>3, <1>4, <1>5
    <2> HIDE DEF home
    <2>2. QED
      BY <1>2, <2>1 DEF SingleSound, IsRoute
  <1>6. key \in Acting => b.under = rev /\ rev # 0
    BY <1>1, <1>2, ActiveIs
  <1>7. Sound(case, Request(t).id, b)
    BY <1>1, <1>2, <1>5, <1>6 DEF Sound
  <1>8. QED
    BY <1>2, <1>7 DEF AnswersFor, b

\* What a fallback's reply leads to is an answer.
LEMMA DelegatedFor ==
  ASSUME Inv, NEW t \in Threads, t \in Delivered, IsRoute(thread[t].first),
         NEW reply, NEW b \in Delegated(t, reply)
  PROVE  AnswersFor(t, b)
  <1>1. PICK a \in IF reply.kind = "prose_response" THEN {Reply(t, "delegated_prose")}
                   ELSE Gated(t, reply) :
          b = Routed(a, thread[t].first)
    BY DEF Delegated, Routed
  <1>2. CASE AnswersFor(t, a)
    <2>1. AnswerIs(a) /\ a.key # "none" /\ Sound(case, Request(t).id, a)
      BY <1>2 DEF AnswersFor
    <2>2. QED
      BY <1>1, <2>1, RoutedSound DEF AnswersFor, IsRoute
  <1>3. ASSUME NEW key \in {"delegated_prose", "fallback_target_unverified",
                            "candidate_not_allowed", "invalid_parameters"},
               a = Reply(t, key)
        PROVE  AnswersFor(t, a)
    BY <1>3, ReplyFor DEF Final, Acting
  <1>4. CASE reply.kind = "prose_response"
    BY <1>1, <1>2, <1>3, <1>4
  <1>5. CASE reply.kind # "prose_response"
    <2> DEFINE key == Policy(reply.id, TRUE, TRUE, Request(t).confirmed)
               parameters == IF DOMAIN reply.parameters = {} THEN thread[t].decision.parameters
                             ELSE reply.parameters
    <2>1. \/ a = Reply(t, "fallback_target_unverified")
          \/ a = Reply(t, "candidate_not_allowed")
          \/ a = Reply(t, "invalid_parameters")
          \/ IsBatch(t) /\ a \in BatchAnswers(t, reply.id, << >>)
          \/ a = About(Reply(t, key), reply.id, parameters)
      BY <1>1, <1>5 DEF Gated, About
    <2>2. CASE IsBatch(t) /\ a \in BatchAnswers(t, reply.id, << >>)
      BY <1>2, <2>2, BatchAnswersFor, BatchOfThread
    <2>3. CASE a = About(Reply(t, key), reply.id, parameters)
      <3> HIDE DEF parameters, key
      <3>1. b = Proposed(t, key, reply.id, parameters, thread[t].first)
        BY <1>1, <2>3 DEF Proposed
      <3>2. QED
        BY <3>1, ProposedFor DEF key, Gates
    <2>4. QED
      BY <1>2, <1>3, <2>1, <2>2, <2>3
  <1>6. QED
    BY <1>4, <1>5

-----------------------------------------------------------------------------
(* The memory of answers.                                                   *)

\* What a sequence is made of, by its positions.
LEMMA SequenceOf ==
  ASSUME NEW n \in Nat, NEW s, s = [i \in 1 .. n |-> s[i]]
  PROVE  s \in Seq(ToSet(s)) /\ Len(s) = n /\ DOMAIN s = 1 .. n
  <1>1. DOMAIN s = 1 .. n
    OBVIOUS
  <1>2. s \in [1 .. n -> ToSet(s)]
    BY <1>1 DEF ToSet
  <1>3. s \in Seq(ToSet(s))
    BY <1>2
  <1>4. QED
    BY <1>1, <1>3, LenProperties

\* What one entry adds to others: it is there, and of the others all but those
\* of its id.
Adds(before, after, entry) ==
  /\ \E i \in 1 .. Len(after) : after[i] = entry
  /\ \A i \in 1 .. Len(after) :
       after[i] = entry \/ \E j \in 1 .. Len(before) : after[i] = before[j] /\ before[j].id # entry.id
  /\ \A j \in 1 .. Len(before) : \E i \in 1 .. Len(after) : after[i].id = before[j].id

\* Storing an answer keeps the memory, and every id in it.
LEMMA StoredIs ==
  ASSUME NEW c, IsMemory(c, seen), NEW entry, EntryIs(c, entry), NEW s, s = Stored(entry)
  PROVE  /\ IsMemory(c, s)
         /\ Len(s) = IF IsRemembered(entry.id) THEN Len(seen) ELSE Len(seen) + 1
         /\ Adds(seen, s, entry)
  <1> DEFINE N == Len(seen)
  <1>1. seen \in Seq(ToSet(seen)) /\ N \in Nat /\ DOMAIN seen = 1 .. N
    BY LenProperties DEF IsMemory
  <1>2. IsRemembered(entry.id) <=> \E i \in 1 .. N : seen[i].id = entry.id
    BY <1>1 DEF IsRemembered
  <1>3. CASE IsRemembered(entry.id)
    <2>1. s = [i \in 1 .. N |-> IF seen[i].id = entry.id THEN entry ELSE seen[i]]
      BY <1>1, <1>3 DEF Stored
    <2>2. s = [i \in 1 .. N |-> s[i]]
          /\ \A i \in 1 .. N : s[i] = IF seen[i].id = entry.id THEN entry ELSE seen[i]
      BY <2>1
    <2>3. s \in Seq(ToSet(s)) /\ Len(s) = N
      BY <1>1, <2>2, SequenceOf
    <2>4. PICK k \in 1 .. N : seen[k].id = entry.id
      BY <1>2, <1>3
    <2>5. \A i \in 1 .. N : s[i].id = seen[i].id
      BY <2>2
    <2>6. IsMemory(c, s)
      BY <2>2, <2>3, <2>5 DEF IsMemory
    <2>7. Adds(seen, s, entry)
      BY <2>2, <2>3, <2>4, <2>5 DEF Adds
    <2>8. QED
      BY <1>3, <2>3, <2>6, <2>7
  <1>4. CASE ~IsRemembered(entry.id)
    <2>1. s = Append(seen, entry)
      BY <1>4 DEF Stored
    <2>2. /\ Len(s) = N + 1 /\ s[N + 1] = entry /\ \A i \in 1 .. N : s[i] = seen[i]
          /\ s \in Seq(ToSet(seen) \cup {entry})
      BY <1>1, <2>1, AppendProperties, SeqMonotonic
    <2>3. s \in Seq(ToSet(s))
      BY <1>1, <2>2 DEF ToSet
    <2>4. \A i \in 1 .. N + 1 : i = N + 1 \/ i \in 1 .. N
      BY <1>1
    <2>5. \A i \in 1 .. N : seen[i].id # entry.id
      BY <1>2, <1>4
    <2>6. IsMemory(c, s)
      BY <1>1, <2>2, <2>3, <2>4, <2>5 DEF IsMemory
    <2>7. Adds(seen, s, entry)
      BY <1>1, <2>2, <2>4, <2>5 DEF Adds
    <2>8. QED
      BY <1>4, <2>2, <2>6, <2>7
  <1>5. QED
    BY <1>3, <1>4

\* Removing one leaves the others.
LEMMA RemovedIs ==
  ASSUME NEW c, IsMemory(c, seen), NEW k \in 1 .. Len(seen), NEW s, s = RemoveAt(seen, k)
  PROVE  IsMemory(c, s) /\ Len(s) = Len(seen) - 1
  <1> DEFINE N == Len(seen)
             S == ToSet(seen)
             a == SubSeq(seen, 1, k - 1)
             b == SubSeq(seen, k + 1, N)
             from(i) == IF i <= k - 1 THEN i ELSE i + 1
  <1>1. seen \in Seq(S) /\ N \in Nat /\ DOMAIN seen = 1 .. N /\ k \in Int
    BY LenProperties DEF IsMemory
  <1>2. \A i \in 1 .. N : seen[i] \in S
    BY <1>1, ElementOfSeq
  <1>3. a \in Seq(S) /\ Len(a) = k - 1 /\ \A i \in 1 .. k - 1 : a[i] = seen[i]
    BY <1>1, <1>2, SubSeqProperties
  <1>4. b \in Seq(S) /\ Len(b) = N - k /\ \A i \in 1 .. N - k : b[i] = seen[k + i]
    <2>1. k + 1 \in Int /\ N \in Int /\ \A i \in (k + 1) .. N : seen[i] \in S
      BY <1>1, <1>2
    <2>2. /\ b \in Seq(S) /\ Len(b) = IF k + 1 <= N THEN N - (k + 1) + 1 ELSE 0
          /\ \A i \in 1 .. N - (k + 1) + 1 : b[i] = seen[(k + 1) + i - 1]
      BY <2>1, SubSeqProperties
    <2> HIDE DEF b
    <2>3. N - (k + 1) + 1 = N - k /\ \A i \in 1 .. N - k : (k + 1) + i - 1 = k + i
      BY <1>1
    <2>4. Len(b) = N - k
      BY <1>1, <2>2
    <2>5. QED
      BY <2>2, <2>3, <2>4
  <1> HIDE DEF a, b
  <1>5. s = a \o b
    BY DEF RemoveAt, a, b
  <1>6. /\ s \in Seq(S) /\ Len(s) = N - 1
        /\ \A i \in 1 .. N - 1 : s[i] = IF i <= k - 1 THEN a[i] ELSE b[i - (k - 1)]
    <2>1. /\ a \o b \in Seq(S) /\ Len(a \o b) = Len(a) + Len(b)
          /\ \A i \in 1 .. Len(a) + Len(b) :
               (a \o b)[i] = IF i <= Len(a) THEN a[i] ELSE b[i - Len(a)]
      BY <1>3, <1>4, ConcatProperties
    <2>2. Len(a) + Len(b) = N - 1
      BY <1>1, <1>3, <1>4
    <2>3. QED
      BY <1>3, <1>5, <2>1, <2>2
  <1>7. \A i \in 1 .. N - 1 : s[i] = seen[from(i)] /\ from(i) \in 1 .. N
    BY <1>1, <1>3, <1>4, <1>6
  <1>8. \A i, j \in 1 .. N - 1 : from(i) = from(j) => i = j
    BY <1>1
  <1>9. s \in Seq(ToSet(s))
    BY <1>6, <1>1 DEF ToSet
  <1>10. IsMemory(c, s)
    <2> HIDE DEF from
    <2>1. \A i \in 1 .. N - 1 : EntryIs(c, s[i])
      BY <1>7 DEF IsMemory
    <2>2. ASSUME NEW i \in 1 .. N - 1, NEW j \in 1 .. N - 1, s[i].id = s[j].id
          PROVE  i = j
      <3>1. /\ seen[from(i)].id = seen[from(j)].id
            /\ from(i) \in 1 .. N /\ from(j) \in 1 .. N
        BY <1>7, <2>2
      <3>2. \A m, n \in 1 .. N : seen[m].id = seen[n].id => m = n
        BY DEF IsMemory
      <3> HIDE DEF N
      <3>3. from(i) = from(j)
        BY <3>1, <3>2
      <3>4. QED
        BY <1>8, <3>3
    <2>3. QED
      BY <1>6, <1>9, <2>1, <2>2 DEF IsMemory
  <1>11. QED
    BY <1>6, <1>10

-----------------------------------------------------------------------------
(* The routes of a handoff.                                                 *)

\* The failovers of the case's gateway are among its routes.
LEMMA FailoversOfCase ==
  ASSUME Inv
  PROVE  FailoversAmong(Gateway.routes, RouteIds(Gateway))
  <1>1. IsGateway(Gateway)
    BY CasesAre DEF Inv, IsCase, Gateway
  <1>2. DOMAIN Gateway.routes = 1 .. Len(Gateway.routes) /\ Len(Gateway.routes) \in Nat
    BY <1>1, LenProperties DEF IsGateway
  <1>3. RouteIds(Gateway) = IdsOf(Gateway.routes)
    BY DEF RouteIds, IdsOf
  <1>4. \A i \in DOMAIN Gateway.routes :
          /\ Gateway.routes[i].fallbacks \in Seq(RouteIds(Gateway))
          /\ Len(Gateway.routes[i].fallbacks) <= MaxFallbacks
    BY <1>1 DEF IsGateway
  <1>5. QED
    BY <1>2, <1>3, <1>4 DEF FailoversAmong

\* So the order kept for a route is complete.
LEMMA OrderIs ==
  ASSUME Inv, NEW r \in RouteIds(Gateway)
  PROVE  CompleteOrder(Gateway.routes, RouteIds(Gateway), r, Gateway.order[r])
  <1>1. Gateway.order[r] = BreadthFirst(Gateway.routes, r)
    BY CasesAre DEF Inv, IsCase, Gateway, IsGateway
  <1>2. QED
    BY <1>1, FailoversOfCase, BreadthFirstIs

\* What the case says of its gateway.
LEMMA GatewayIs ==
  ASSUME Inv
  PROVE  /\ IsGateway(Gateway)
         /\ \A r \in RouteIds(Gateway) :
              /\ r # "none" /\ r # "jev" /\ Gateway.order[r] \in Seq(RouteIds(Gateway))
              /\ DOMAIN Gateway.order[r] = 1 .. Len(Gateway.order[r])
              /\ Len(Gateway.order[r]) \in Nat \ {0} /\ Gateway.order[r][1] = r
         /\ DOMAIN Gateway.routes = 1 .. Len(Gateway.routes) /\ Len(Gateway.routes) \in Nat
  <1>1. IsGateway(Gateway)
    BY CasesAre DEF Inv, IsCase, Gateway
  <1>2. ASSUME NEW r \in RouteIds(Gateway)
        PROVE  /\ r # "none" /\ r # "jev" /\ Gateway.order[r] \in Seq(RouteIds(Gateway))
               /\ Gateway.order[r] # << >> /\ Gateway.order[r][1] = r
    <2>1. r # "none" /\ r # "jev"
      BY <1>1 DEF IsGateway
    <2>2. CompleteOrder(Gateway.routes, RouteIds(Gateway), r, Gateway.order[r])
      BY OrderIs
    <2>3. QED
      BY <2>1, <2>2 DEF CompleteOrder
  <1>3. ASSUME NEW r \in RouteIds(Gateway)
        PROVE  /\ DOMAIN Gateway.order[r] = 1 .. Len(Gateway.order[r])
               /\ Len(Gateway.order[r]) \in Nat \ {0}
    BY <1>2, LenProperties, EmptySeq
  <1>4. DOMAIN Gateway.routes = 1 .. Len(Gateway.routes) /\ Len(Gateway.routes) \in Nat
    BY <1>1, LenProperties DEF IsGateway
  <1>5. QED
    BY <1>1, <1>2, <1>3, <1>4

\* A route is found by its id.
LEMMA RouteFound ==
  ASSUME Inv, NEW i \in DOMAIN Gateway.routes
  PROVE  Route(Gateway.routes, Gateway.routes[i].id) = Gateway.routes[i]
  <1>1. \A j \in DOMAIN Gateway.routes : Gateway.routes[j].id = Gateway.routes[i].id => j = i
    BY GatewayIs DEF IsGateway
  <1>2. (CHOOSE j \in DOMAIN Gateway.routes : Gateway.routes[j].id = Gateway.routes[i].id) = i
    BY <1>1
  <1>3. QED
    BY <1>2 DEF Route

\* The mode of a request, by its case.
LEMMA ModeIs ==
  ASSUME NEW t
  PROVE  Mode(t) = ModeIn(case, t)
  BY DEF Mode, ModeIn, Gateway, Request

\* Every attempt of a request's handoff is at a route that admits it.
LEMMA AttemptsAdmitted ==
  ASSUME Inv, NEW t, NEW complexity, NEW first
  PROVE  /\ AttemptsFrom(t, complexity, first) \subseteq DOMAIN Gateway.order[first]
         /\ ~Request(t).probe =>
              \A i \in AttemptsFrom(t, complexity, first) :
                Admits(case, t, Gateway.order[first][i])
  <1> DEFINE mode == IF Request(t).probe THEN Gateway.privacy ELSE Mode(t)
             envelope == Envelope(complexity, mode, ReplyKinds(t), MaxLatency, NoLimit)
             order == Gateway.order[first]
  <1>1. AttemptsFrom(t, complexity, first) = OrderedRoutes(Gateway.routes, order, Open, envelope)
    BY DEF AttemptsFrom
  <1>2. envelope.mode = mode
    BY DEF Envelope
  <1> HIDE DEF envelope
  <1>3. ASSUME NEW i \in AttemptsFrom(t, complexity, first)
        PROVE  i \in DOMAIN order /\ mode \in Route(Gateway.routes, order[i]).privacy
    <2>1. i \in DOMAIN order /\ Eligible(Route(Gateway.routes, order[i]), Open, envelope)
      BY <1>1, <1>3 DEF OrderedRoutes
    <2>2. QED
      BY <1>2, <2>1 DEF Eligible, RouteAllowed
  <1>4. QED
    BY <1>3, ModeIs DEF Admits, Gateway

\* The first route of a handoff is a route, and will be tried.
LEMMA FirstRouteTried ==
  ASSUME Inv, NEW t, ~Request(t).probe, NEW d, FirstRoute(t, d) # "none"
  PROVE  /\ FirstRoute(t, d) \in RouteIds(Gateway)
         /\ 1 \in AttemptsFrom(t, d.complexity, FirstRoute(t, d))
  <1> DEFINE within(kind) == Envelope(d.complexity, Mode(t), {kind}, LatencyBudget, CostBudget)
             wide == Envelope(d.complexity, Mode(t), ReplyKinds(t), MaxLatency, NoLimit)
             routes == Gateway.routes
             selected(kind) == SelectRoute(routes, Open, within(kind))
             eligible(kind) == {i \in DOMAIN routes : Eligible(routes[i], Open, within(kind))}
             first == FirstRoute(t, d)
             order == Gateway.order[first]
  <1>1. PICK kind \in {"tool_proposal", "prose_response"} : first = selected(kind)
    BY DEF FirstRoute
  <1>2. eligible(kind) # {} /\ first = routes[First(eligible(kind))].id
    BY <1>1 DEF SelectRoute
  <1>3. First(eligible(kind)) \in eligible(kind)
    <2>1. eligible(kind) \in SUBSET Nat
      BY GatewayIs
    <2>2. QED
      BY <1>2, <2>1, FirstIsLeast
  <1>4. PICK i \in DOMAIN routes : Eligible(routes[i], Open, within(kind)) /\ first = routes[i].id
    <2> DEFINE e == eligible(kind)
    <2>1. \A j \in e : j \in DOMAIN routes /\ Eligible(routes[j], Open, within(kind))
      OBVIOUS
    <2>2. First(e) \in e /\ first = routes[First(e)].id
      BY <1>2, <1>3
    <2> HIDE DEF e, first, within
    <2>3. QED
      BY <2>1, <2>2
  <1>5. first \in RouteIds(Gateway)
    BY <1>4 DEF RouteIds
  <1>6. Route(routes, first) = routes[i]
    BY <1>4, RouteFound
  <1>7. routes[i].latency \in Nat /\ routes[i].cost \in Nat
    BY GatewayIs DEF IsGateway
  <1>8. Eligible(routes[i], Open, wide)
    <2>1. /\ within(kind).kinds = {kind} /\ wide.kinds = {"prose_response", "tool_proposal"}
          /\ within(kind).complexity = wide.complexity /\ within(kind).mode = wide.mode
          /\ within(kind).latency = 10000 /\ wide.latency = 120000
          /\ within(kind).cost = 100 /\ wide.cost = 2147483647
      BY DEF Envelope, ReplyKinds, MaxLatency, NoLimit, LatencyBudget, CostBudget
    <2> HIDE DEF within, wide
    <2>2. QED
      BY <1>4, <1>7, <2>1 DEF Eligible, RouteAllowed
  <1>9. 1 \in DOMAIN order /\ order[1] = first
    BY <1>5, GatewayIs
  <1> DEFINE usable(j) == Eligible(Route(routes, order[j]), Open, wide)
  <1>10. usable(1)
    BY <1>6, <1>8, <1>9
  <1>11. {j \in 1 .. 1 : usable(j)} = {1}
    BY <1>10
  <1>12. Cardinality({j \in 1 .. 1 : usable(j)}) <= MaxAttempts
    <2> HIDE DEF usable
    <2>1. Cardinality({1}) = 1
      BY FS_Singleton
    <2>2. QED
      BY <1>11, <2>1 DEF MaxAttempts
  <1>13. 1 \in OrderedRoutes(routes, order, Open, wide)
    BY <1>9, <1>10, <1>12 DEF OrderedRoutes
  <1>14. QED
    BY <1>5, <1>13 DEF AttemptsFrom

-----------------------------------------------------------------------------
(* Steps of one thread.                                                     *)

Only(t) ==
  /\ thread' = [u \in Threads |-> thread'[u]]
  /\ \A u \in Threads \ {t} : thread'[u] = thread[u]

Stays == UNCHANGED <<case, rev, current>>
CircuitsKept == circuit' \in [RouteIds(case.gateway) -> Circuits]

\* A step of a thread changes its locals.
LEMMA OneThread ==
  ASSUME Inv, NEW t \in Threads, NEW l, thread' = [thread EXCEPT ![t] = l]
  PROVE  Only(t) /\ thread'[t] = l
  <1>1. thread = [u \in Threads |-> thread[u]]
    BY DEF Inv
  <1>2. QED
    BY <1>1 DEF Only

\* It keeps the invariant, if its locals, the memory and the circuits do.
LEMMA InvKept ==
  ASSUME Inv, NEW t \in Threads, Only(t), Stays, LocalsAre(case, t, thread'[t]),
         IsMemory(case, seen'), CircuitsKept
  PROVE  Inv'
  <1>1. \A u \in Threads : LocalsAre(case, u, thread'[u])
    BY DEF Inv, Only
  <1>2. thread' = [u \in Threads |-> thread'[u]]
    BY DEF Only
  <1>3. /\ case' = case /\ case' \in Cases
        /\ rev' \in 0 .. Len(case'.homes) /\ current' \in BOOLEAN /\ (current' => rev' > 0)
    BY DEF Inv, Stays
  <1>4. circuit' \in [RouteIds(case'.gateway) -> Circuits]
    BY <1>3 DEF CircuitsKept
  <1>5. QED
    BY <1>1, <1>2, <1>3, <1>4 DEF Inv, Threads

\* Whose request it is, and what holds of the thread.
LEMMA ThreadIs ==
  ASSUME Inv, NEW t \in Threads
  PROVE  /\ LocalsAre(case, t, thread[t]) /\ Typed(case, t, thread[t]) /\ Shaped(thread[t])
         /\ thread[t].pc # "idle" => t \in Delivered
         /\ t \in Delivered =>
              /\ Private(case, t, thread[t]) /\ Sound(case, Request(t).id, thread[t].answer)
              /\ IsRequest(Request(t)) /\ Request(t).probe \in BOOLEAN
              /\ ~Request(t).probe => Request(t).id \in RequestIds(case)
  <1>1. LocalsAre(case, t, thread[t]) /\ IsCase(case)
    BY CasesAre DEF Inv
  <1>2. t \in Delivered => IsRequest(Request(t))
    BY <1>1 DEF IsCase, Delivered, Request
  <1>3. QED
    BY <1>1, <1>2 DEF LocalsAre, Typed, Delivered, Request, IsRequest, RequestIds

\* The fields of the locals that a thread ends with.
Answered(l, a, pc, oldest) == [l EXCEPT !.answer = a, !.pc = pc, !.oldest = oldest]

\* The other fields stay.
LEMMA AnsweredIs ==
  ASSUME NEW l, Shaped(l), NEW a, NEW pc, NEW oldest, NEW k, k = Answered(l, a, pc, oldest)
  PROVE  /\ Shaped(k) /\ k.answer = a /\ k.pc = pc /\ k.oldest = oldest
         /\ k.batch = l.batch /\ k.decision = l.decision /\ k.first = l.first
         /\ k.attempts = l.attempts /\ k.pos = l.pos /\ k.probe = l.probe
         /\ k.consulted = l.consulted /\ k.settled = l.settled
  BY DEF Shaped, Answered

\* A thread ends with an answer: it is remembered, and the memory is trimmed
\* if that was one too many.
Ended(t, l) ==
  /\ Only(t)
  /\ seen' = Stored([id |-> Request(t).id, answer |-> thread'[t].answer])
  /\ EntryIs(case, [id |-> Request(t).id, answer |-> thread'[t].answer])
  /\ thread'[t].pc = IF Over(seen') THEN "trimming" ELSE "done"
  /\ thread'[t].oldest # "" \/ ~Over(seen')
  /\ thread'[t].first = l.first /\ thread'[t].consulted = l.consulted
  /\ thread'[t].settled = l.settled

Locals(c, t, l) == Shaped(l) /\ BatchIn(c, t, l.batch) /\ Private(c, t, l)

\* It keeps the invariant.
LEMMA EndsIs ==
  ASSUME Inv, NEW t \in Threads, t \in Delivered, ~Request(t).probe, Stays, CircuitsKept,
         NEW l, Locals(case, t, l),
         NEW a, AnswersFor(t, a), Ends(t, l, a)
  PROVE  Inv' /\ Ended(t, l)
  <1> DEFINE entry == [id |-> Request(t).id, answer |-> a]
             k == thread'[t]
             pc == IF Over(seen') THEN "trimming" ELSE "done"
             oldest == IF Over(seen') THEN Head(seen').id ELSE ""
  <1>1. EntryIs(case, entry)
    <2>1. Request(t).id \in RequestIds(case)
      BY ThreadIs
    <2>2. entry.id = Request(t).id /\ entry.answer = a
      OBVIOUS
    <2> HIDE DEF entry
    <2>3. QED
      BY <2>1, <2>2 DEF EntryIs, AnswersFor
  <1>2. seen' = Stored(entry)
    BY DEF Ends
  <1>3. IsMemory(case, seen')
    <2>1. IsMemory(case, seen)
      BY DEF Inv
    <2>2. QED
      BY <1>1, <1>2, <2>1, StoredIs
  <1>4. thread' = [thread EXCEPT ![t] = Answered(l, a, pc, oldest)]
    BY DEF Ends, Answered
  <1> HIDE DEF pc, oldest
  <1>5. Only(t) /\ k = Answered(l, a, pc, oldest)
    BY <1>4, OneThread
  <1>6. /\ Shaped(k) /\ k.answer = a /\ k.pc = pc /\ k.oldest = oldest
        /\ k.batch = l.batch /\ k.first = l.first
        /\ k.consulted = l.consulted /\ k.settled = l.settled
    <2>1. Shaped(l)
      BY DEF Locals
    <2> HIDE DEF k
    <2>2. QED
      BY <1>5, <2>1, AnsweredIs
  <1>7. Over(seen') => k.oldest # ""
    <2>1. SUFFICES ASSUME Over(seen')
                   PROVE  Head(seen').id # ""
      BY <1>6 DEF oldest
    <2>2. Len(seen') \in Nat /\ Len(seen') > RememberLimit /\ RememberLimit \in Nat
      BY <1>3, <2>1, BoundsAre, LenProperties DEF Over, IsMemory
    <2>3. Head(seen') = seen'[1] /\ 1 \in 1 .. Len(seen')
      BY <2>2
    <2>4. Head(seen').id \in RequestIds(case)
      BY <1>3, <2>3 DEF IsMemory, EntryIs
    <2>5. \A id \in RequestIds(case) : id # ""
      BY CasesAre DEF Inv, IsCase, IsRequest, RequestIds
    <2>6. QED
      BY <2>4, <2>5
  <1> HIDE DEF k
  <1>8. Typed(case, t, k)
    <2>1. AnswerIs(a) /\ a.key # "none"
      BY DEF AnswersFor
    <2>2. /\ k.pc \in {"trimming", "done"} /\ (k.pc = "trimming" => Over(seen'))
          /\ t \in DOMAIN case.deliveries /\ ~case.deliveries[t].probe
      BY <1>6 DEF Delivered, Request, pc
    <2>3. QED
      BY <1>6, <1>7, <2>1, <2>2 DEF Typed, PCs, Locals
  <1>9. LocalsAre(case, t, k)
    <2>1. Private(case, t, k)
      BY <1>6 DEF Private, Locals
    <2>2. Sound(case, Request(t).id, k.answer)
      BY <1>6 DEF AnswersFor
    <2>3. QED
      BY <1>8, <2>1, <2>2 DEF LocalsAre, Request
  <1>10. Inv'
    BY <1>3, <1>5, <1>9, InvKept DEF k
  <1>11. Ended(t, l)
    BY <1>1, <1>2, <1>5, <1>6, <1>7 DEF Ended, k, pc
  <1>12. QED
    BY <1>10, <1>11

\* A thread goes on, without an answer yet; it is not sent anywhere.
GoesOn(c, t, l, k) ==
  /\ Shaped(k)
  /\ k.batch = l.batch /\ k.answer = l.answer /\ k.oldest = l.oldest /\ k.settled = l.settled
  /\ k.consulted = l.consulted
  /\ l.pc \notin {"trimming", "done", "failed"}
  /\ k.pc \in {"sending", "probing", "done", "failed", "dropped"}
  /\ k.pc = "sending" => OnRoute(c, t, k)
  /\ k.pc \in {"done", "probing"} => c.deliveries[t].probe
  /\ k.pc \in {"probing", "sending"} /\ c.deliveries[t].probe => k.probe \in Nat \ {0}
  /\ c.deliveries[t].probe \/ l.pc \in {"idle", "asking"} \/ k.first = l.first

Moves(t) ==
  /\ Only(t) /\ UNCHANGED <<case, seen, attempted>>
  /\ GoesOn(case, t, thread[t], thread'[t])

\* It keeps the invariant.
LEMMA MovesKeep ==
  ASSUME Inv, NEW t \in Threads, t \in Delivered, Stays, CircuitsKept, Moves(t)
  PROVE  Inv'
  <1> DEFINE l == thread[t]
             k == thread'[t]
  <1>1. /\ GoesOn(case, t, l, k) /\ Only(t)
    BY DEF Moves
  <1>2. /\ Typed(case, t, l) /\ Private(case, t, l) /\ Sound(case, case.deliveries[t].id, l.answer)
        /\ t \in DOMAIN case.deliveries
    BY ThreadIs DEF Request, Delivered
  <1>3. IsMemory(case, seen')
    BY DEF Moves, Inv
  <1> HIDE DEF l, k
  <1>4. Typed(case, t, k)
    BY <1>1, <1>2 DEF Typed, GoesOn, PCs
  <1>5. Private(case, t, k) /\ Sound(case, case.deliveries[t].id, k.answer)
    BY <1>1, <1>2 DEF GoesOn, Private
  <1>6. LocalsAre(case, t, k)
    BY <1>4, <1>5 DEF LocalsAre
  <1>7. QED
    BY <1>1, <1>3, <1>6, InvKept DEF k

\* What the fields of the locals become in each of the steps.
LEMMA PcSet ==
  ASSUME Inv, NEW t \in Threads, NEW pc, thread' = [thread EXCEPT ![t].pc = pc]
  PROVE  LET l == thread[t]
             k == thread'[t]
         IN /\ Only(t) /\ Shaped(k) /\ k.pc = pc
            /\ k.batch = l.batch /\ k.decision = l.decision /\ k.answer = l.answer /\ k.oldest = l.oldest
            /\ k.settled = l.settled /\ k.consulted = l.consulted
            /\ k.first = l.first /\ k.attempts = l.attempts /\ k.pos = l.pos /\ k.probe = l.probe
  <1>1. Shaped(thread[t]) /\ thread = [u \in Threads |-> thread[u]]
    BY ThreadIs DEF Inv
  <1>2. QED
    BY <1>1 DEF Shaped, Only

\* The position among the attempts, as well.
LEMMA PosSet ==
  ASSUME Inv, NEW t \in Threads, NEW pc, NEW pos,
         thread' = [thread EXCEPT ![t].pc = pc, ![t].pos = pos]
  PROVE  LET l == thread[t]
             k == thread'[t]
         IN /\ Only(t) /\ Shaped(k) /\ k.pc = pc /\ k.pos = pos
            /\ k.batch = l.batch /\ k.decision = l.decision /\ k.answer = l.answer /\ k.oldest = l.oldest
            /\ k.settled = l.settled /\ k.consulted = l.consulted
            /\ k.first = l.first /\ k.attempts = l.attempts /\ k.probe = l.probe
  <1>1. Shaped(thread[t]) /\ thread = [u \in Threads |-> thread[u]]
    BY ThreadIs DEF Inv
  <1>2. QED
    BY <1>1 DEF Shaped, Only

\* The route a probe is at.
LEMMA ProbeSet ==
  ASSUME Inv, NEW t \in Threads, NEW pc, NEW n,
         thread' = [thread EXCEPT ![t].pc = pc, ![t].probe = n]
  PROVE  LET l == thread[t]
             k == thread'[t]
         IN /\ Only(t) /\ Shaped(k) /\ k.pc = pc /\ k.probe = n
            /\ k.batch = l.batch /\ k.decision = l.decision /\ k.answer = l.answer /\ k.oldest = l.oldest
            /\ k.settled = l.settled /\ k.consulted = l.consulted
            /\ k.first = l.first /\ k.attempts = l.attempts /\ k.pos = l.pos
  <1>1. Shaped(thread[t]) /\ thread = [u \in Threads |-> thread[u]]
    BY ThreadIs DEF Inv
  <1>2. QED
    BY <1>1 DEF Shaped, Only

\* Who was sent something.
LEMMA ConsultedSet ==
  ASSUME Inv, NEW t \in Threads, NEW pc, NEW consulted,
         thread' = [thread EXCEPT ![t].pc = pc, ![t].consulted = consulted]
  PROVE  LET l == thread[t]
             k == thread'[t]
         IN /\ Only(t) /\ Shaped(k) /\ k.pc = pc /\ k.consulted = consulted
            /\ k.batch = l.batch /\ k.decision = l.decision /\ k.answer = l.answer /\ k.oldest = l.oldest
            /\ k.settled = l.settled
            /\ k.first = l.first /\ k.attempts = l.attempts /\ k.pos = l.pos /\ k.probe = l.probe
  <1>1. Shaped(thread[t]) /\ thread = [u \in Threads |-> thread[u]]
    BY ThreadIs DEF Inv
  <1>2. QED
    BY <1>1 DEF Shaped, Only

\* A handoff begins.
LEMMA HandedOffIs ==
  ASSUME NEW l, Shaped(l), NEW first, NEW attempts, NEW k, k = HandedOff(l, first, attempts)
  PROVE  /\ Shaped(k) /\ k.pc = "sending" /\ k.first = first /\ k.attempts = attempts
         /\ k.pos = First(attempts) /\ k.batch = l.batch /\ k.answer = l.answer
         /\ k.oldest = l.oldest /\ k.settled = l.settled /\ k.consulted = l.consulted
         /\ k.probe = l.probe /\ k.decision = l.decision
  BY DEF Shaped, HandedOff

\* It starts on a route that it may try.
LEMMA HandedOnRoute ==
  ASSUME Inv, NEW t, NEW complexity, NEW first \in RouteIds(Gateway),
         NEW attempts, attempts = AttemptsFrom(t, complexity, first), attempts # {},
         NEW l, Shaped(l), NEW k, k = HandedOff(l, first, attempts)
  PROVE  OnRoute(case, t, k)
  <1>1. /\ attempts \subseteq DOMAIN Gateway.order[first]
        /\ ~Request(t).probe => \A i \in attempts : Admits(case, t, Gateway.order[first][i])
    BY AttemptsAdmitted
  <1>2. First(attempts) \in attempts
    <2>1. attempts \in SUBSET Nat
      BY <1>1, GatewayIs
    <2>2. QED
      BY <2>1, FirstIsLeast
  <1>3. k.first = first /\ k.attempts = attempts /\ k.pos = First(attempts)
    BY HandedOffIs
  <1>4. QED
    BY <1>1, <1>2, <1>3 DEF OnRoute, Gateway, Request

\* Where a thread on a route is.
LEMMA RouteIs ==
  ASSUME Inv, NEW t \in Threads, thread[t].pc \in {"sending", "waiting"}
  PROVE  /\ t \in Delivered /\ OnRoute(case, t, thread[t])
         /\ thread[t].first \in RouteIds(Gateway) /\ IsRoute(thread[t].first)
         /\ Later(t) \subseteq thread[t].attempts /\ Later(t) \in SUBSET Nat
         /\ Attempt(t) \in RouteIds(Gateway)
         /\ ~Request(t).probe => Admits(case, t, Attempt(t))
         /\ Request(t).probe => thread[t].probe \in Nat \ {0}
  <1>1. t \in Delivered /\ OnRoute(case, t, thread[t])
    BY ThreadIs DEF Typed
  <1>2. /\ thread[t].first \in RouteIds(Gateway)
        /\ thread[t].attempts \subseteq DOMAIN Gateway.order[thread[t].first]
        /\ thread[t].pos \in thread[t].attempts
        /\ ~Request(t).probe =>
             \A i \in thread[t].attempts : Admits(case, t, Gateway.order[thread[t].first][i])
    BY <1>1 DEF OnRoute, Gateway, Request
  <1>3. Later(t) \subseteq thread[t].attempts /\ Later(t) \in SUBSET Nat
    BY <1>2, GatewayIs DEF Later
  <1>4. Attempt(t) \in RouteIds(Gateway)
    BY <1>2, GatewayIs, ElementOfSeq DEF Attempt
  <1>5. ~Request(t).probe => Admits(case, t, Attempt(t))
    BY <1>2 DEF Attempt
  <1>6. Request(t).probe => thread[t].probe \in Nat \ {0}
    BY ThreadIs DEF Typed, Request
  <1>7. QED
    BY <1>1, <1>2, <1>3, <1>4, <1>5, <1>6, GatewayIs DEF IsRoute

\* A thread ends with an answer it decided on.
Finishes(t) ==
  /\ Ended(t, thread[t]) /\ UNCHANGED <<case, attempted>>
  /\ t \in Delivered /\ ~Request(t).probe
  /\ thread[t].pc \notin {"idle", "trimming", "done", "failed"}

\* That keeps the invariant, if the answer is fit to be one.
LEMMA FinishKeeps ==
  ASSUME Inv, NEW t \in Threads, Stays, CircuitsKept, ~Request(t).probe,
         attempted' = attempted,
         thread[t].pc \in {"asking", "sending", "waiting"},
         NEW a, AnswersFor(t, a), Finish(t, a)
  PROVE  Inv' /\ Finishes(t)
  <1>1. Locals(case, t, thread[t]) /\ t \in Delivered
    BY ThreadIs DEF Locals, Typed
  <1>2. Ends(t, thread[t], a)
    BY DEF Finish
  <1>3. Inv' /\ Ended(t, thread[t])
    BY <1>1, <1>2, EndsIs
  <1>4. QED
    BY <1>1, <1>3 DEF Finishes, Stays

\* A route failed: the next one, or, of a probe, the next of its routes, or
\* the failure is the answer.
LEMMA TryNextKeeps ==
  ASSUME Inv, NEW t \in Threads, thread[t].pc \in {"sending", "waiting"},
         NEW key \in Final \ Acting, TryNext(t, key), Stays, attempted' = attempted
  PROVE  Inv' /\ (Moves(t) \/ Finishes(t))
  <1> DEFINE l == thread[t]
             k == thread'[t]
  <1>1. CircuitsKept
    <2>1. circuit' = [circuit EXCEPT ![Attempt(t)] = Failed(@)]
      BY DEF TryNext
    <2>2. \A c \in Circuits : Failed(c) \in Circuits
      BY DEF Circuits, Failed
    <2>3. QED
      BY <2>1, <2>2 DEF Inv, CircuitsKept
  <1>2. /\ t \in Delivered /\ OnRoute(case, t, l) /\ Request(t).probe \in BOOLEAN
        /\ Request(t).probe => l.probe \in Nat \ {0}
    BY RouteIs, ThreadIs
  <1>3. CASE Later(t) # {}
    <2> DEFINE pos == First(Later(t))
    <2>1. thread' = [thread EXCEPT ![t].pc = "sending", ![t].pos = pos]
          /\ seen' = seen
      BY <1>3 DEF TryNext
    <2>3. pos \in l.attempts
      BY <1>3, RouteIs, FirstIsLeast
    <2> HIDE DEF pos
    <2>2. /\ Only(t) /\ Shaped(k) /\ k.pc = "sending" /\ k.pos = pos
          /\ k.batch = l.batch /\ k.answer = l.answer /\ k.oldest = l.oldest
          /\ k.settled = l.settled /\ k.consulted = l.consulted
          /\ k.first = l.first /\ k.attempts = l.attempts /\ k.probe = l.probe
      <3>1. Shaped(thread[t]) /\ thread = [u \in Threads |-> thread[u]]
        BY ThreadIs DEF Inv
      <3>2. QED
        BY <2>1, <3>1 DEF Shaped, Only
    <2> HIDE DEF l, k
    <2>4. OnRoute(case, t, k)
      BY <1>2, <2>2, <2>3 DEF OnRoute
    <2>5. l.pc \notin {"trimming", "done", "failed"}
      BY DEF l
    <2>6. GoesOn(case, t, l, k)
      BY <1>2, <2>2, <2>4, <2>5 DEF GoesOn, Request
    <2>7. Moves(t)
      BY <2>1, <2>2, <2>6 DEF Moves, l, k, Stays
    <2>8. QED
      BY <1>1, <1>2, <2>7, MovesKeep
  <1>4. CASE Later(t) = {} /\ Request(t).probe
    <2> DEFINE n == l.probe + 1
    <2>1. thread' = [thread EXCEPT ![t].pc = "probing", ![t].probe = n]
          /\ seen' = seen
      BY <1>4 DEF TryNext
    <2>2. n \in Nat \ {0}
      BY <1>2, <1>4
    <2>3. l.pc \notin {"trimming", "done", "failed"}
      OBVIOUS
    <2> HIDE DEF n
    <2>4. /\ Only(t) /\ Shaped(k) /\ k.pc = "probing" /\ k.probe = n
          /\ k.batch = l.batch /\ k.answer = l.answer /\ k.oldest = l.oldest
          /\ k.settled = l.settled /\ k.consulted = l.consulted
      <3>1. Shaped(thread[t]) /\ thread = [u \in Threads |-> thread[u]]
        BY ThreadIs DEF Inv
      <3>2. QED
        BY <2>1, <3>1 DEF Shaped, Only
    <2> HIDE DEF l, k
    <2>5. GoesOn(case, t, l, k)
      BY <1>4, <2>2, <2>3, <2>4 DEF GoesOn, Request
    <2>6. Moves(t)
      BY <2>1, <2>4, <2>5 DEF Moves, l, k, Stays
    <2>7. QED
      BY <1>1, <1>2, <2>6, MovesKeep
  <1>5. CASE Later(t) = {} /\ ~Request(t).probe
    <2>1. Finish(t, Reply(t, key))
      BY <1>5 DEF TryNext
    <2>2. AnswersFor(t, Reply(t, key))
      BY ReplyFor
    <2>3. QED
      BY <1>1, <1>5, <2>1, <2>2, FinishKeeps
  <1>6. QED
    BY <1>2, <1>3, <1>4, <1>5

-----------------------------------------------------------------------------
(* The kinds of steps, by what the invariants need to know of them.         *)

\* A request arrives and gets the answer that is remembered for it.
Replays(t) ==
  /\ Only(t) /\ UNCHANGED <<case, seen, attempted>>
  /\ thread[t].pc = "idle" /\ ~Request(t).probe /\ IsRemembered(Request(t).id)
  /\ thread'[t].pc = "done" /\ thread'[t].answer = Remembered(Request(t).id)
  /\ thread'[t].consulted = {} /\ thread'[t].settled = Settled

Beginning == [NoThread EXCEPT !.settled = Settled]

\* It is refused at once.
Refuses(t) ==
  /\ Ended(t, Beginning) /\ UNCHANGED <<case, attempted>>
  /\ thread[t].pc = "idle" /\ ~Request(t).probe /\ ~IsRemembered(Request(t).id)

\* The service is asked, or a probe begins.
Starts(t) ==
  /\ Only(t) /\ UNCHANGED <<case, seen, attempted>>
  /\ thread[t].pc = "idle" /\ (~Request(t).probe => ~IsRemembered(Request(t).id))
  /\ thread'[t].pc \in {"asking", "probing"} /\ thread'[t].consulted \subseteq {"jev"}
  /\ thread'[t].settled = Settled

\* A route is sent the handoff.
Sends(t) ==
  /\ Only(t) /\ UNCHANGED <<case, seen>>
  /\ thread[t].pc = "sending" /\ thread'[t].pc = "waiting"
  /\ Attempt(t) # "jev" /\ thread'[t].consulted = thread[t].consulted \cup {Attempt(t)}
  /\ thread'[t].first = thread[t].first /\ thread'[t].settled = thread[t].settled
  /\ Gateway.adapter = "chat" =>
       /\ HandoffKey(t) \in HandoffKeys /\ HandoffKey(t) \notin SeenHandoffs
       /\ attempted' = Append(attempted, HandoffKey(t))

\* The oldest answer is removed, or was gone.
Trims(t) ==
  /\ Only(t) /\ UNCHANGED <<case, attempted>>
  /\ thread[t].pc = "trimming" /\ ~Request(t).probe /\ thread[t].oldest # ""
  /\ thread'[t].oldest = thread[t].oldest /\ thread'[t].first = thread[t].first
  /\ thread'[t].consulted = thread[t].consulted /\ thread'[t].settled = thread[t].settled
  /\ \/ thread'[t].pc = "done" /\ Len(seen') = Len(seen) - 1
     \/ thread'[t].pc = "failed" /\ seen' = seen

\* The profile or a circuit changes.
World == UNCHANGED <<case, seen, attempted, thread>>

OfKind(t) ==
  \/ Moves(t) \/ Finishes(t) \/ Replays(t) \/ Refuses(t) \/ Starts(t) \/ Sends(t) \/ Trims(t)

-----------------------------------------------------------------------------
(* The arrival of a request.                                                *)

\* The fields of the locals that a thread begins with.
LEMMA NoThreadIs ==
  /\ Shaped(NoThread) /\ NoThread.pc = "idle" /\ NoThread.batch = NoBatch
  /\ NoThread.answer = NoAnswer /\ NoThread.consulted = {} /\ NoThread.settled = {}
  /\ NoThread.oldest = "" /\ NoThread.first = "none"
  /\ AnswerIs(NoAnswer) /\ NoAnswer.key = "none"
  /\ \A c, t : BatchIn(c, t, NoBatch)
  <1>1. AnswerIs(NoAnswer) /\ NoAnswer.key = "none"
    BY DEF AnswerIs, NoAnswer
  <1>2. \A c, t : BatchIn(c, t, NoBatch)
    BY DEF NoBatch, IsBatchRecord, BatchIn
  <1>3. /\ Shaped(NoThread) /\ NoThread.pc = "idle" /\ NoThread.batch = NoBatch
        /\ NoThread.answer = NoAnswer /\ NoThread.consulted = {} /\ NoThread.settled = {}
        /\ NoThread.oldest = "" /\ NoThread.first = "none"
    BY DEF NoThread, Shaped
  <1>4. QED
    BY <1>1, <1>2, <1>3

\* An idle thread has begun nothing.
LEMMA IdleIs ==
  ASSUME Inv, NEW t \in Threads, thread[t].pc = "idle"
  PROVE  thread[t] = NoThread
  BY ThreadIs DEF Typed

\* No worker is free: the connection is closed.
LEMMA DropKeeps ==
  ASSUME Inv, NEW t \in Threads, Drop(t)
  PROVE  Inv' /\ Moves(t)
  <1> DEFINE l == thread[t]
             k == thread'[t]
  <1>1. /\ t \in Delivered /\ l.pc = "idle" /\ thread' = [thread EXCEPT ![t].pc = "dropped"]
        /\ UNCHANGED <<case, rev, current, seen, circuit, attempted>>
    BY DEF Drop
  <1>2. /\ Only(t) /\ Shaped(k) /\ k.pc = "dropped"
        /\ k.batch = l.batch /\ k.answer = l.answer /\ k.oldest = l.oldest
        /\ k.settled = l.settled /\ k.consulted = l.consulted
    BY <1>1, PcSet
  <1> HIDE DEF l, k
  <1>3. GoesOn(case, t, l, k)
    BY <1>1, <1>2 DEF GoesOn
  <1>4. Moves(t)
    BY <1>1, <1>2, <1>3 DEF Moves, l, k
  <1>5. Stays /\ CircuitsKept
    BY <1>1 DEF Stays, CircuitsKept, Inv
  <1>6. QED
    BY <1>1, <1>4, <1>5, MovesKeep

\* What is remembered is an answer that the id's request may get.
LEMMA RememberedIs ==
  ASSUME Inv, NEW id, IsRemembered(id)
  PROVE  \E i \in 1 .. Len(seen) :
           /\ seen[i].id = id /\ Remembered(id) = seen[i].answer
           /\ AnswerIs(Remembered(id)) /\ Remembered(id).key # "none"
           /\ Sound(case, id, Remembered(id))
  <1> DEFINE i == CHOOSE n \in DOMAIN seen : seen[n].id = id
  <1>1. i \in DOMAIN seen /\ seen[i].id = id /\ Remembered(id) = seen[i].answer
    BY DEF IsRemembered, Remembered
  <1>2. IsMemory(case, seen) /\ DOMAIN seen = 1 .. Len(seen)
    BY LenProperties DEF Inv, IsMemory
  <1> HIDE DEF i
  <1>3. EntryIs(case, seen[i])
    BY <1>1, <1>2 DEF IsMemory
  <1>4. QED
    BY <1>1, <1>2, <1>3 DEF EntryIs

\* The locals of a thread that only repeats an answer.
AnsweredAgain(a, settled) == [NoThread EXCEPT !.pc = "done", !.settled = settled, !.answer = a]

\* Their fields.
LEMMA AnsweredAgainIs ==
  ASSUME NEW a, NEW settled, NEW k, k = AnsweredAgain(a, settled)
  PROVE  /\ Shaped(k) /\ k.pc = "done" /\ k.answer = a /\ k.batch = NoBatch
         /\ k.consulted = {} /\ k.settled = settled
  BY DEF NoThread, Shaped, AnsweredAgain

\* A request seen before gets its answer again.
LEMMA ReplayKeeps ==
  ASSUME Inv, NEW t \in Threads, Replay(t)
  PROVE  Inv' /\ Replays(t)
  <1> DEFINE k == thread'[t]
             a == Remembered(Request(t).id)
             n == [NoThread EXCEPT !.pc = "done", !.settled = Settled, !.answer = a]
  <1>1. /\ t \in Delivered /\ thread[t].pc = "idle" /\ ~Request(t).probe
        /\ IsRemembered(Request(t).id) /\ thread' = [thread EXCEPT ![t] = n]
        /\ UNCHANGED <<case, rev, current, seen, circuit, attempted>>
    BY DEF Replay, Arrives
  <1>2. AnswerIs(a) /\ a.key # "none" /\ Sound(case, Request(t).id, a)
    BY <1>1, RememberedIs
  <1> HIDE DEF a
  <1>3. /\ Shaped(n) /\ n.pc = "done" /\ n.answer = a /\ n.batch = NoBatch /\ n.consulted = {}
        /\ n.settled = Settled
    <2>1. n = AnsweredAgain(a, Settled)
      BY DEF AnsweredAgain
    <2> HIDE DEF n
    <2>2. QED
      BY <2>1, AnsweredAgainIs
  <1> HIDE DEF n
  <1>4. Only(t) /\ k = n
    BY <1>1, OneThread
  <1>5. Typed(case, t, k) /\ Private(case, t, k)
    BY <1>1, <1>2, <1>3, <1>4, NoThreadIs DEF Typed, PCs, Private, Delivered, Request
  <1>6. LocalsAre(case, t, k)
    BY <1>2, <1>3, <1>4, <1>5 DEF LocalsAre, Request
  <1>7. Stays /\ CircuitsKept /\ IsMemory(case, seen')
    BY <1>1 DEF Stays, CircuitsKept, Inv
  <1>8. Inv'
    BY <1>4, <1>6, <1>7, InvKept
  <1>9. Replays(t)
    BY <1>1, <1>3, <1>4 DEF Replays, a
  <1>10. QED
    BY <1>8, <1>9

\* The batch of a request, while the profile is current.
LEMMA BatchOfActive ==
  ASSUME Inv, current, NEW t
  PROVE  IsBatchRecord(BatchOf(t))
  <1> DEFINE home == Homes[case.homes[rev]]
  <1>1. /\ IsHome(home) /\ Active.capabilities = Capabilities(Snapshot(home))
        /\ Active.groups = CompiledGroups(Snapshot(home))
    BY ActiveIs
  <1> HIDE DEF home
  <1>2. BatchOf(t) = BatchGroup(Request(t).says, Capabilities(Snapshot(home)),
                                CompiledGroups(Snapshot(home)))
    BY <1>1 DEF BatchOf
  <1>3. QED
    BY <1>1, <1>2, BatchOfHome

\* It is what the request names.
LEMMA BatchOfRequest ==
  ASSUME Inv, current, NEW t \in Delivered, Request(t).rev = rev
  PROVE  BatchIn(case, t, BatchOf(t))
  <1> DEFINE home == Homes[case.homes[rev]]
             batch == BatchOf(t)
  <1>1. /\ IsHome(home) /\ Active.capabilities = Capabilities(Snapshot(home))
        /\ Active.groups = CompiledGroups(Snapshot(home))
    BY ActiveIs
  <1>2. ASSUME batch.op # "", NEW u \in DOMAIN case.deliveries,
               case.deliveries[u].id = case.deliveries[t].id
        PROVE  NamesAll(home, case.deliveries[u].says, batch.members)
    <2> HIDE DEF home
    <2>1. batch = BatchGroup(Request(t).says, Capabilities(Snapshot(home)),
                             CompiledGroups(Snapshot(home)))
      BY <1>1 DEF BatchOf
    <2>2. case.deliveries[u].says = Request(t).says
      BY <1>2, CasesAre DEF Inv, IsCase, Delivered, Request
    <2> HIDE DEF batch
    <2>3. QED
      BY <1>1, <1>2, <2>1, <2>2, BatchNamesAll
  <1>3. IsBatchRecord(batch)
    BY BatchOfActive
  <1>4. case.deliveries[t].rev = rev
    BY DEF Request
  <1>5. QED
    BY <1>2, <1>3, <1>4 DEF BatchIn, Said

\* A request that is refused at once gets a refusal, and one that is not may
\* be shown to the service.
LEMMA EarlyIs ==
  ASSUME Inv, NEW t \in Delivered
  PROVE  /\ EarlyRefusal(t) # "" => EarlyRefusal(t) \in Final \ Acting
         /\ EarlyRefusal(t) = "" =>
              /\ BatchIn(case, t, BatchOf(t))
              /\ ~(ModeIn(case, t) = "local_only" /\ Hosted(Gateway.jevAt))
  <1> DEFINE e == EarlyRefusal(t)
             hosted == Mode(t) = "local_only" /\ Hosted(Gateway.jevAt)
  <1>1. \/ e \in {"invalid_request", "profile_stale", "profile_reconciling", "privacy_mode_denied"}
        \/ /\ current /\ ~hosted /\ e = BatchOf(t).error
           /\ Request(t).rev = rev
    BY DEF EarlyRefusal
  <1>2. CASE e \in {"invalid_request", "profile_stale", "profile_reconciling", "privacy_mode_denied"}
    <2> HIDE DEF e
    <2>1. e # "" /\ e \in Final \ Acting
      BY <1>2 DEF Final, Acting
    <2>2. QED
      BY <2>1 DEF e
  <1>3. CASE current /\ ~hosted /\ e = BatchOf(t).error /\ Request(t).rev = rev
    <2>1. BatchIn(case, t, BatchOf(t))
      BY <1>3, BatchOfRequest
    <2>2. BatchOf(t).error \in BatchCodes \cup {""}
      BY <2>1 DEF BatchIn, IsBatchRecord
    <2> HIDE DEF e
    <2>3. e # "" => e \in Final \ Acting
      BY <1>3, <2>2 DEF BatchCodes, Final, Acting
    <2>4. QED
      BY <1>3, <2>1, <2>3, ModeIs DEF e
  <1>4. QED
    BY <1>1, <1>2, <1>3

\* The fields of the locals of a request that begins.
LEMMA BeginningIs ==
  /\ Shaped(Beginning) /\ Beginning.pc = "idle" /\ Beginning.batch = NoBatch
  /\ Beginning.consulted = {} /\ Beginning.settled = Settled
  <1>1. ASSUME NEW settled, NEW k, k = [NoThread EXCEPT !.settled = settled]
        PROVE  /\ Shaped(k) /\ k.pc = "idle" /\ k.batch = NoBatch
               /\ k.consulted = {} /\ k.settled = settled
    BY <1>1 DEF NoThread, Shaped
  <1>2. QED
    BY <1>1, Zenon DEF Beginning

\* A request is refused at once.
LEMMA RefuseKeeps ==
  ASSUME Inv, NEW t \in Threads, Refuse(t)
  PROVE  Inv' /\ Refuses(t)
  <1> DEFINE a == Reply(t, EarlyRefusal(t))
  <1>1. /\ t \in Delivered /\ thread[t].pc = "idle" /\ ~Request(t).probe
        /\ ~IsRemembered(Request(t).id) /\ EarlyRefusal(t) # ""
        /\ Ends(t, Beginning, a)
        /\ UNCHANGED <<case, rev, current, circuit, attempted>>
    BY DEF Refuse, Arrives, Beginning
  <1>2. AnswersFor(t, a)
    BY <1>1, EarlyIs, ReplyFor
  <1> HIDE DEF a
  <1>3. Locals(case, t, Beginning)
    BY BeginningIs, NoThreadIs DEF Locals, Private
  <1>4. Stays /\ CircuitsKept
    BY <1>1 DEF Stays, CircuitsKept, Inv
  <1>5. Inv' /\ Ended(t, Beginning)
    BY <1>1, <1>2, <1>3, <1>4, EndsIs
  <1>6. QED
    BY <1>1, <1>5 DEF Refuses

\* The locals of a thread that asks the service, or of a probe.
Asking(batch, settled) ==
  [NoThread EXCEPT !.pc = "asking", !.batch = batch, !.consulted = {"jev"}, !.settled = settled]
ProbeAsking(settled) ==
  [NoThread EXCEPT !.pc = "asking", !.consulted = {"jev"}, !.settled = settled]
Probing(settled) == [NoThread EXCEPT !.pc = "probing", !.probe = 1, !.settled = settled]

\* Their fields.
LEMMA AskingIs ==
  ASSUME NEW batch, NEW settled, NEW k, k = Asking(batch, settled)
  PROVE  /\ Shaped(k) /\ k.pc = "asking" /\ k.answer = NoAnswer /\ k.batch = batch
         /\ k.consulted = {"jev"} /\ k.settled = settled
  BY DEF NoThread, Shaped, Asking

\* Those of a probe.
LEMMA ProbingIs ==
  ASSUME NEW settled, NEW k, k \in {ProbeAsking(settled), Probing(settled)}
  PROVE  /\ Shaped(k) /\ k.pc \in {"asking", "probing"} /\ k.answer = NoAnswer
         /\ k.batch = NoBatch /\ k.consulted \subseteq {"jev"} /\ k.settled = settled
         /\ k.pc = "probing" => k.probe = 1
  <1>1. CASE k = ProbeAsking(settled)
    BY <1>1 DEF NoThread, Shaped, ProbeAsking
  <1>2. CASE k = Probing(settled)
    BY <1>2 DEF NoThread, Shaped, Probing
  <1>3. QED
    BY <1>1, <1>2

\* What a thread needs to begin with.
Entered(t, k) ==
  /\ Shaped(k) /\ k.pc \in {"asking", "probing"} /\ k.answer = NoAnswer
  /\ BatchIn(case, t, k.batch) /\ k.consulted \subseteq {"jev"} /\ k.settled = Settled
  /\ k.pc = "probing" => Request(t).probe /\ k.probe = 1
  /\ ~Request(t).probe => ~(ModeIn(case, t) = "local_only" /\ Hosted(Gateway.jevAt))

\* It keeps the invariant.
LEMMA EnteredKeeps ==
  ASSUME Inv, NEW t \in Threads, Arrives(t), NEW k, Entered(t, k),
         thread' = [thread EXCEPT ![t] = k],
         ~Request(t).probe => ~IsRemembered(Request(t).id),
         UNCHANGED <<case, rev, current, seen, circuit, attempted>>
  PROVE  Inv' /\ Starts(t)
  <1>1. Only(t) /\ thread'[t] = k
    BY OneThread
  <1>2. t \in Delivered /\ thread[t].pc = "idle"
    BY DEF Arrives
  <1>3. Typed(case, t, k)
    <2>1. /\ k.pc \in {"asking", "probing"} /\ (k.pc = "probing" => k.probe \in Nat \ {0})
          /\ k.pc = "probing" => case.deliveries[t].probe
      BY DEF Entered, Request
    <2>2. Shaped(k) /\ BatchIn(case, t, k.batch) /\ AnswerIs(k.answer) /\ t \in DOMAIN case.deliveries
      BY <1>2, NoThreadIs DEF Entered, Delivered
    <2>3. QED
      BY <2>1, <2>2 DEF Typed, PCs
  <1>4. Private(case, t, k)
    BY DEF Private, Entered, Request, Gateway
  <1>5. Sound(case, case.deliveries[t].id, k.answer)
    <2>1. NoAnswer.key \notin Acting
      BY NoThreadIs DEF Acting
    <2>2. QED
      BY <2>1, HarmlessSound DEF Entered
  <1>6. LocalsAre(case, t, thread'[t])
    BY <1>1, <1>3, <1>4, <1>5 DEF LocalsAre
  <1>7. Stays /\ CircuitsKept /\ IsMemory(case, seen')
    BY DEF Stays, CircuitsKept, Inv
  <1>8. Inv'
    BY <1>1, <1>6, <1>7, InvKept
  <1>9. Starts(t)
    BY <1>1, <1>2 DEF Starts, Entered
  <1>10. QED
    BY <1>8, <1>9

\* The service is asked about a request.
LEMMA ConsultKeeps ==
  ASSUME Inv, NEW t \in Threads, Consult(t)
  PROVE  Inv' /\ Starts(t)
  <1> DEFINE k == Asking(BatchOf(t), Settled)
  <1>1. /\ Arrives(t) /\ ~Request(t).probe /\ ~IsRemembered(Request(t).id)
        /\ EarlyRefusal(t) = "" /\ thread' = [thread EXCEPT ![t] = k]
        /\ UNCHANGED <<case, rev, current, seen, circuit, attempted>>
    BY DEF Consult, Asking
  <1>2. /\ Shaped(k) /\ k.pc = "asking" /\ k.answer = NoAnswer /\ k.batch = BatchOf(t)
        /\ k.consulted = {"jev"} /\ k.settled = Settled
    BY AskingIs
  <1> HIDE DEF k
  <1>3. /\ BatchIn(case, t, BatchOf(t))
        /\ ~(ModeIn(case, t) = "local_only" /\ Hosted(Gateway.jevAt))
    BY <1>1, EarlyIs DEF Arrives
  <1>4. Entered(t, k)
    BY <1>2, <1>3 DEF Entered
  <1>5. QED
    BY <1>1, <1>4, EnteredKeeps

\* A probe begins.
LEMMA StartProbeKeeps ==
  ASSUME Inv, NEW t \in Threads, StartProbe(t)
  PROVE  Inv' /\ Starts(t)
  <1>1. PICK k \in {ProbeAsking(Settled), Probing(Settled)} :
          thread' = [thread EXCEPT ![t] = k]
    BY DEF StartProbe, ProbeAsking, Probing
  <1>2. /\ Shaped(k) /\ k.pc \in {"asking", "probing"} /\ k.answer = NoAnswer
        /\ k.batch = NoBatch /\ k.consulted \subseteq {"jev"} /\ k.settled = Settled
        /\ k.pc = "probing" => k.probe = 1
    BY ProbingIs
  <1>3. /\ Arrives(t) /\ Request(t).probe
        /\ UNCHANGED <<case, rev, current, seen, circuit, attempted>>
    BY DEF StartProbe
  <1>4. Entered(t, k)
    BY <1>2, <1>3, NoThreadIs DEF Entered
  <1>5. QED
    BY <1>1, <1>3, <1>4, EnteredKeeps

-----------------------------------------------------------------------------
(* The decision, and the handoff.                                           *)

\* The locals of a thread that keeps the decision.
Keeping(l, d) == [l EXCEPT !.decision = d]

\* Their fields.
LEMMA KeepingIs ==
  ASSUME NEW l, Shaped(l), NEW d, NEW k, k = Keeping(l, d)
  PROVE  /\ Shaped(k) /\ k.batch = l.batch /\ k.answer = l.answer /\ k.oldest = l.oldest
         /\ k.settled = l.settled /\ k.consulted = l.consulted /\ k.first = l.first
         /\ k.probe = l.probe /\ k.decision = d
  BY DEF Shaped, Keeping

\* A handoff keeps the invariant, from wherever it begins.
LEMMA HandsOff ==
  ASSUME Inv, NEW t \in Threads, thread[t].pc \in {"asking", "probing"},
         NEW complexity, NEW first \in RouteIds(Gateway),
         NEW attempts, attempts = AttemptsFrom(t, complexity, first), attempts # {},
         NEW l, Shaped(l), l.batch = thread[t].batch, l.answer = thread[t].answer,
         l.oldest = thread[t].oldest, l.settled = thread[t].settled,
         l.consulted = thread[t].consulted, l.probe = thread[t].probe,
         Request(t).probe <=> thread[t].pc = "probing",
         NEW k, k = HandedOff(l, first, attempts), thread' = [thread EXCEPT ![t] = k],
         UNCHANGED <<case, rev, current, seen, circuit, attempted>>
  PROVE  Inv' /\ Moves(t)
  <1>1. Only(t) /\ thread'[t] = k
    BY OneThread
  <1>2. /\ Shaped(k) /\ k.pc = "sending" /\ k.batch = l.batch /\ k.answer = l.answer
        /\ k.oldest = l.oldest /\ k.settled = l.settled /\ k.consulted = l.consulted
        /\ k.probe = l.probe
    BY HandedOffIs
  <1>3. OnRoute(case, t, k)
    BY HandedOnRoute
  <1>4. t \in Delivered /\ (Request(t).probe => thread[t].probe \in Nat \ {0})
    BY ThreadIs DEF Typed, Request
  <1>5. GoesOn(case, t, thread[t], k)
    BY <1>2, <1>3, <1>4 DEF GoesOn, Request
  <1>6. Moves(t)
    BY <1>1, <1>5 DEF Moves
  <1>7. Stays /\ CircuitsKept
    BY DEF Stays, CircuitsKept, Inv
  <1>8. QED
    BY <1>4, <1>6, <1>7, MovesKeep

\* The service's decision: an answer, or a handoff.
LEMMA DecideKeeps ==
  ASSUME Inv, NEW t \in Threads, thread[t].pc = "asking", ~Request(t).probe,
         NEW d \in Decisions(t), Decide(t, d)
  PROVE  Inv' /\ (Moves(t) \/ Finishes(t))
  <1> DEFINE taken == IF d.error = "" THEN d ELSE Simple("delegate")
             first == FirstRoute(t, taken)
             attempts == AttemptsFrom(t, taken.complexity, first)
  <1>1. UNCHANGED <<case, rev, current, circuit, attempted>> /\ t \in Delivered
    BY ThreadIs DEF Decide
  <1>2. Stays /\ CircuitsKept /\ attempted' = attempted
    BY <1>1 DEF Stays, CircuitsKept, Inv
  <1>3. ASSUME NEW a, AnswersFor(t, a), Finish(t, a)
        PROVE  Inv' /\ Finishes(t)
    BY <1>2, <1>3, FinishKeeps
  <1>4. PICK verdict \in Verdicts(t, d) :
          \/ Finish(t, verdict)
          \/ Finish(t, Reply(t, "route_not_allowed"))
          \/ /\ first # "none" /\ seen' = seen
             /\ thread' = [thread EXCEPT ![t] =
                             HandedOff(Keeping(thread[t], taken), first, attempts)]
    <2> HIDE DEF taken
    <2>1. PICK verdict \in Verdicts(t, d) :
            IF verdict.key \notin Delegable \/ Gateway.routes = << >> THEN Finish(t, verdict)
            ELSE IF first = "none" THEN Finish(t, Reply(t, "route_not_allowed"))
            ELSE /\ thread' = [thread EXCEPT ![t] =
                      HandedOff([thread[t] EXCEPT !.decision = taken], first, attempts)]
                 /\ UNCHANGED seen
      BY DEF Decide, taken
    <2>2. QED
      BY <2>1 DEF Keeping
  <1>5. CASE Finish(t, verdict)
    BY <1>1, <1>3, <1>5, VerdictFor
  <1>6. CASE Finish(t, Reply(t, "route_not_allowed"))
    <2>1. "route_not_allowed" \in Final \ Acting
      BY DEF Final, Acting
    <2>2. QED
      BY <1>3, <1>6, <2>1, ReplyFor
  <1> HIDE DEF taken
  <1>7. CASE /\ first # "none" /\ seen' = seen
             /\ thread' = [thread EXCEPT ![t] =
                             HandedOff(Keeping(thread[t], taken), first, attempts)]
    <2> DEFINE l == Keeping(thread[t], taken)
               k == HandedOff(l, first, attempts)
    <2>1. first \in RouteIds(Gateway) /\ attempts # {}
      BY <1>7, FirstRouteTried
    <2>2. Shaped(thread[t])
      BY ThreadIs
    <2>3. /\ Shaped(l) /\ l.batch = thread[t].batch /\ l.answer = thread[t].answer
          /\ l.oldest = thread[t].oldest /\ l.settled = thread[t].settled
          /\ l.consulted = thread[t].consulted /\ l.probe = thread[t].probe
      BY <2>2, KeepingIs
    <2>4. thread' = [thread EXCEPT ![t] = k] /\ k = HandedOff(l, first, attempts)
      BY <1>7
    <2>5. UNCHANGED <<case, rev, current, seen, circuit, attempted>>
      BY <1>1, <1>7
    <2>6. attempts = AttemptsFrom(t, taken.complexity, first)
      OBVIOUS
    <2> HIDE DEF first, attempts, l, k
    <2>7. QED
      BY <2>1, <2>3, <2>4, <2>5, <2>6, HandsOff
  <1>8. QED
    BY <1>4, <1>5, <1>6, <1>7

\* A route is sent the handoff, or was before.
LEMMA SendKeeps ==
  ASSUME Inv, NEW t \in Threads, Send(t)
  PROVE  Inv' /\ (Moves(t) \/ Finishes(t) \/ Sends(t))
  <1> DEFINE l == thread[t]
             k == thread'[t]
             r == Attempt(t)
             sent == l.consulted \cup {r}
             repeated == Gateway.adapter = "chat" /\ HandoffKey(t) \in SeenHandoffs
  <1>1. thread[t].pc = "sending" /\ Stays
    BY DEF Send, Stays
  <1>2. CASE repeated
    <2>1. TryNext(t, "handoff_unavailable") /\ attempted' = attempted
      BY <1>2 DEF Send
    <2>2. "handoff_unavailable" \in Final \ Acting
      BY DEF Final, Acting
    <2>3. QED
      BY <1>1, <2>1, <2>2, TryNextKeeps
  <1>3. CASE ~repeated
    <2>1. /\ thread' = [thread EXCEPT ![t].pc = "waiting", ![t].consulted = sent]
          /\ UNCHANGED <<case, seen, circuit>>
          /\ Gateway.adapter = "chat" => attempted' = Append(attempted, HandoffKey(t))
      BY <1>1, <1>3 DEF Send, Stays, Admitted
    <2>2. /\ OnRoute(case, t, l) /\ r \in RouteIds(Gateway)
          /\ ~Request(t).probe => Admits(case, t, r)
      BY <1>1, RouteIs
    <2>3. /\ Typed(case, t, l) /\ Private(case, t, l) /\ Sound(case, Request(t).id, l.answer)
      BY <1>1, ThreadIs
    <2> HIDE DEF sent
    <2>4. /\ Only(t) /\ Shaped(k) /\ k.pc = "waiting" /\ k.consulted = sent
          /\ k.batch = l.batch /\ k.answer = l.answer /\ k.oldest = l.oldest
          /\ k.settled = l.settled
          /\ k.first = l.first /\ k.attempts = l.attempts /\ k.pos = l.pos /\ k.probe = l.probe
      <3>1. Shaped(thread[t]) /\ thread = [u \in Threads |-> thread[u]]
        BY ThreadIs DEF Inv
      <3>2. QED
        BY <2>1, <3>1 DEF Shaped, Only
    <2>5. l.pc = "sending"
      BY <1>1
    <2> HIDE DEF l, k, r
    <2>6. OnRoute(case, t, k)
      BY <2>2, <2>4 DEF OnRoute
    <2>7. Typed(case, t, k)
      BY <2>3, <2>4, <2>5, <2>6 DEF Typed, PCs
    <2>8. Private(case, t, k)
      BY <2>2, <2>3, <2>4 DEF Private, sent, Gateway, Request
    <2>9. LocalsAre(case, t, k)
      BY <2>3, <2>4, <2>7, <2>8 DEF LocalsAre, Request
    <2>10. CircuitsKept /\ IsMemory(case, seen')
      BY <2>1 DEF CircuitsKept, Inv
    <2>11. Inv'
      BY <1>1, <2>4, <2>9, <2>10, InvKept DEF k
    <2>12. r # "jev"
      BY <2>2, GatewayIs
    <2>13. HandoffKey(t) \in HandoffKeys
      <3>1. thread[t].first \in RouteIds(Gateway) /\ t \in Delivered
        BY <1>1, <2>2, ThreadIs DEF OnRoute, Gateway, l
      <3>2. QED
        BY <2>2, <3>1 DEF HandoffKey, HandoffKeys, r
    <2>14. Sends(t)
      BY <1>3, <2>1, <2>4, <2>5, <2>12, <2>13 DEF Sends, l, k, r, sent
    <2>15. QED
      BY <2>11, <2>14
  <1>4. QED
    BY <1>2, <1>3

\* The answer of a route is the request's, or the route failed.
LEMMA RouteReplyKeeps ==
  ASSUME Inv, NEW t \in Threads, thread[t].pc = "waiting", NEW reply, RouteReply(t, reply)
  PROVE  Inv' /\ (Moves(t) \/ Finishes(t))
  <1> DEFINE l == thread[t]
             k == thread'[t]
             ok == circuit' = [circuit EXCEPT ![Attempt(t)] = Closed]
  <1>1. UNCHANGED <<case, attempted>> /\ Stays /\ t \in Delivered /\ IsRoute(thread[t].first)
    BY RouteIs DEF RouteReply, Stays
  <1>2. CircuitsKept \/ \E key \in {"handoff_unavailable", "handoff_invalid_response"} :
                          TryNext(t, key)
    <2>1. Closed \in Circuits
      BY DEF Closed, Circuits
    <2>2. ok \/ circuit' = circuit \/ \E key \in {"handoff_unavailable", "handoff_invalid_response"} :
                                        TryNext(t, key)
      BY DEF RouteReply
    <2>3. QED
      BY <2>1, <2>2 DEF CircuitsKept, Inv
  <1>3. \/ \E key \in {"handoff_unavailable", "handoff_invalid_response"} : TryNext(t, key)
        \/ thread' = [thread EXCEPT ![t].pc = "failed"] /\ seen' = seen
        \/ Request(t).probe /\ thread' = [thread EXCEPT ![t].pc = "done"] /\ seen' = seen
        \/ ~Request(t).probe /\ \E answer \in Delegated(t, reply) : Finish(t, answer)
    BY DEF RouteReply
  <1>4. CASE \E key \in {"handoff_unavailable", "handoff_invalid_response"} : TryNext(t, key)
    <2>1. {"handoff_unavailable", "handoff_invalid_response"} \subseteq Final \ Acting
      BY DEF Final, Acting
    <2>2. QED
      BY <1>1, <1>4, <2>1, TryNextKeeps
  <1>5. ASSUME CircuitsKept, seen' = seen,
               NEW pc \in {"failed", "done"}, thread' = [thread EXCEPT ![t].pc = pc],
               pc = "done" => Request(t).probe
        PROVE  Inv' /\ Moves(t)
    <2>1. /\ Only(t) /\ Shaped(k) /\ k.pc = pc
          /\ k.batch = l.batch /\ k.answer = l.answer /\ k.oldest = l.oldest
          /\ k.settled = l.settled /\ k.consulted = l.consulted /\ k.first = l.first
      BY <1>5, PcSet
    <2>2. l.pc = "waiting"
      OBVIOUS
    <2> HIDE DEF l, k
    <2>3. GoesOn(case, t, l, k)
      BY <1>5, <2>1, <2>2 DEF GoesOn, Request
    <2>4. Moves(t)
      BY <1>1, <1>5, <2>1, <2>3 DEF Moves, l, k
    <2>5. QED
      BY <1>1, <1>5, <2>4, MovesKeep
  <1>6. CASE ~Request(t).probe /\ \E answer \in Delegated(t, reply) : Finish(t, answer)
    <2>1. PICK answer \in Delegated(t, reply) : Finish(t, answer)
      BY <1>6
    <2>2. AnswersFor(t, answer)
      BY <1>1, DelegatedFor
    <2>3. CASE CircuitsKept
      BY <1>1, <1>6, <2>1, <2>2, <2>3, FinishKeeps
    <2>4. QED
      BY <1>2, <1>4, <2>3
  <1>7. QED
    BY <1>2, <1>3, <1>4, <1>5, <1>6

\* The service has answered a probe.
LEMMA ProbeAnsweredKeeps ==
  ASSUME Inv, NEW t \in Threads, ProbeAnswered(t)
  PROVE  Inv' /\ Moves(t)
  <1> DEFINE l == thread[t]
             k == thread'[t]
  <1>1. /\ l.pc = "asking" /\ Request(t).probe
        /\ thread' = [thread EXCEPT ![t].pc = "probing", ![t].probe = 1]
        /\ UNCHANGED <<case, rev, current, seen, circuit, attempted>>
    BY DEF ProbeAnswered
  <1>2. /\ Only(t) /\ Shaped(k) /\ k.pc = "probing" /\ k.probe = 1
        /\ k.batch = l.batch /\ k.answer = l.answer /\ k.oldest = l.oldest
        /\ k.settled = l.settled /\ k.consulted = l.consulted
    <2>1. Shaped(thread[t]) /\ thread = [u \in Threads |-> thread[u]]
      BY ThreadIs DEF Inv
    <2>2. QED
      BY <1>1, <2>1 DEF Shaped, Only
  <1>3. t \in Delivered
    BY <1>1, ThreadIs
  <1> HIDE DEF l, k
  <1>4. GoesOn(case, t, l, k)
    BY <1>1, <1>2 DEF GoesOn, Request
  <1>5. Moves(t)
    BY <1>1, <1>2, <1>4 DEF Moves, l, k
  <1>6. Stays /\ CircuitsKept
    BY <1>1 DEF Stays, CircuitsKept, Inv
  <1>7. QED
    BY <1>3, <1>5, <1>6, MovesKeep

\* A probe goes to its next route.
LEMMA ProbeRouteKeeps ==
  ASSUME Inv, NEW t \in Threads, ProbeRoute(t)
  PROVE  Inv' /\ Moves(t)
  <1> DEFINE l == thread[t]
             k == thread'[t]
             n == l.probe
             first == Gateway.routes[n].id
             attempts == AttemptsFrom(t, "simple", first)
  <1>1. thread[t].pc = "probing" /\ UNCHANGED <<case, rev, current, seen, circuit, attempted>>
    BY DEF ProbeRoute
  <1>2. /\ t \in Delivered /\ Request(t).probe /\ n \in Nat \ {0} /\ Shaped(l)
    BY <1>1, ThreadIs DEF Typed, Request
  <1>3. Stays /\ CircuitsKept
    BY <1>1 DEF Stays, CircuitsKept, Inv
  <1>4. CASE thread' = [thread EXCEPT ![t].pc = "done"]
    <2>1. /\ Only(t) /\ Shaped(k) /\ k.pc = "done"
          /\ k.batch = l.batch /\ k.answer = l.answer /\ k.oldest = l.oldest
          /\ k.settled = l.settled /\ k.consulted = l.consulted
      BY <1>4, PcSet
    <2>2. l.pc = "probing"
      BY <1>1
    <2> HIDE DEF l, k
    <2>3. GoesOn(case, t, l, k)
      BY <1>2, <2>1, <2>2 DEF GoesOn, Request
    <2>4. Moves(t)
      BY <1>1, <2>1, <2>3 DEF Moves, l, k
    <2>5. QED
      BY <1>2, <1>3, <2>4, MovesKeep
  <1>5. CASE thread' = [thread EXCEPT ![t] = [@ EXCEPT !.probe = n + 1]]
    <2> DEFINE m == n + 1
    <2>1. thread' = [thread EXCEPT ![t] = [@ EXCEPT !.probe = m]]
      BY <1>5
    <2>2. m \in Nat \ {0} /\ l.pc = "probing"
      BY <1>1, <1>2
    <2> HIDE DEF m
    <2>3. /\ Only(t) /\ Shaped(k) /\ k.pc = l.pc /\ k.probe = m
          /\ k.batch = l.batch /\ k.answer = l.answer /\ k.oldest = l.oldest
          /\ k.settled = l.settled /\ k.consulted = l.consulted
      <3>1. Shaped(thread[t]) /\ thread = [u \in Threads |-> thread[u]]
        BY ThreadIs DEF Inv
      <3>2. QED
        BY <2>1, <3>1 DEF Shaped, Only
    <2> HIDE DEF l, k
    <2>4. GoesOn(case, t, l, k)
      BY <1>2, <2>2, <2>3 DEF GoesOn, Request
    <2>5. Moves(t)
      BY <1>1, <2>3, <2>4 DEF Moves, l, k
    <2>6. QED
      BY <1>2, <1>3, <2>5, MovesKeep
  <1>6. CASE /\ ~(n > MaxAttempts \/ n > Len(Gateway.routes)) /\ attempts # {}
             /\ thread' = [thread EXCEPT ![t] = HandedOff(l, first, attempts)]
    <2> DEFINE h == HandedOff(l, first, attempts)
    <2>1. first \in RouteIds(Gateway)
      <3>1. n \in DOMAIN Gateway.routes
        BY <1>2, <1>6, GatewayIs
      <3>2. QED
        BY <3>1 DEF RouteIds
    <2>2. /\ attempts = AttemptsFrom(t, "simple", first) /\ attempts # {}
          /\ h = HandedOff(l, first, attempts) /\ thread' = [thread EXCEPT ![t] = h]
      BY <1>6
    <2>3. /\ Shaped(l) /\ l.batch = thread[t].batch /\ l.answer = thread[t].answer
          /\ l.oldest = thread[t].oldest /\ l.settled = thread[t].settled
          /\ l.consulted = thread[t].consulted /\ l.probe = thread[t].probe
      BY <1>2
    <2> HIDE DEF first, attempts, h, n, l
    <2>4. QED
      BY <1>1, <1>2, <2>1, <2>2, <2>3, HandsOff
  <1>7. QED
    BY <1>4, <1>5, <1>6 DEF ProbeRoute

\* The oldest answer is removed, if it is still there.
LEMMA TrimKeeps ==
  ASSUME Inv, NEW t \in Threads, Trim(t)
  PROVE  Inv' /\ Trims(t)
  <1> DEFINE l == thread[t]
             k == thread'[t]
             i == CHOOSE n \in DOMAIN seen : seen[n].id = l.oldest
             present == IsRemembered(l.oldest)
             pc == IF present THEN "done" ELSE "failed"
  <1>1. thread[t].pc = "trimming" /\ UNCHANGED <<case, rev, current, circuit, attempted>>
    BY DEF Trim
  <1>2. /\ thread' = [thread EXCEPT ![t].pc = pc]
        /\ seen' = IF present THEN RemoveAt(seen, i) ELSE seen
    BY DEF Trim
  <1>3. IsMemory(case, seen) /\ DOMAIN seen = 1 .. Len(seen)
    BY LenProperties DEF Inv, IsMemory
  <1>4. present => i \in 1 .. Len(seen)
    BY <1>3 DEF IsRemembered
  <1> HIDE DEF i
  <1>5. /\ IsMemory(case, seen')
        /\ IF present THEN Len(seen') = Len(seen) - 1 ELSE seen' = seen
    <2> HIDE DEF present
    <2>1. CASE present
      BY <1>2, <1>3, <1>4, <2>1, RemovedIs
    <2>2. CASE ~present
      BY <1>2, <1>3, <2>2
    <2>3. QED
      BY <2>1, <2>2
  <1> HIDE DEF present, pc
  <1>6. /\ Only(t) /\ Shaped(k) /\ k.pc = pc
        /\ k.batch = l.batch /\ k.answer = l.answer /\ k.oldest = l.oldest
        /\ k.settled = l.settled /\ k.consulted = l.consulted /\ k.first = l.first
    BY <1>2, PcSet
  <1>7. /\ Typed(case, t, l) /\ Private(case, t, l) /\ Sound(case, Request(t).id, l.answer)
        /\ t \in DOMAIN case.deliveries
    BY <1>1, ThreadIs DEF Delivered
  <1>8. l.answer.key # "none" /\ ~Request(t).probe /\ l.oldest # ""
    BY <1>1, <1>7 DEF Typed, Request
  <1>9. pc \in {"done", "failed"} /\ (present <=> pc = "done")
    BY DEF pc
  <1> HIDE DEF l, k
  <1>10. Typed(case, t, k)
    BY <1>6, <1>7, <1>8, <1>9 DEF Typed, PCs, Request
  <1>11. LocalsAre(case, t, k)
    BY <1>6, <1>7, <1>10 DEF LocalsAre, Private, Request
  <1>12. Stays /\ CircuitsKept
    BY <1>1 DEF Stays, CircuitsKept, Inv
  <1>13. Inv'
    BY <1>5, <1>6, <1>11, <1>12, InvKept DEF k
  <1>14. Trims(t)
    BY <1>1, <1>5, <1>6, <1>8, <1>9 DEF Trims, l, k
  <1>15. QED
    BY <1>13, <1>14

\* What happens meanwhile keeps the invariant.
LEMMA WorldKeeps ==
  ASSUME Inv, Reconcile \/ Invalidate \/ \E r \in RouteIds(Gateway) : Cooldown(r)
  PROVE  Inv' /\ World
  <1>1. UNCHANGED <<case, seen, thread>> /\ World
    BY DEF Reconcile, Invalidate, Cooldown, World
  <1>2. circuit' \in [RouteIds(case.gateway) -> Circuits]
    <2>1. circuit \in [RouteIds(case.gateway) -> Circuits]
      BY DEF Inv
    <2>2. CASE circuit' = circuit
      BY <2>1, <2>2
    <2>3. CASE \E r \in RouteIds(Gateway) : Cooldown(r)
      BY <2>1, <2>3 DEF Cooldown, Gateway, Circuits
    <2>4. QED
      BY <2>2, <2>3 DEF Reconcile, Invalidate
  <1>3. /\ rev' \in 0 .. Len(case.homes) /\ current' \in BOOLEAN /\ (current' => rev' > 0)
    <2>1. /\ rev \in 0 .. Len(case.homes) /\ current \in BOOLEAN /\ (current => rev > 0)
          /\ Len(case.homes) \in Nat
      <3>1. case.homes \in Seq(DOMAIN Homes)
        BY CasesAre DEF Inv, IsCase
      <3>2. QED
        BY <3>1, LenProperties DEF Inv
    <2>2. CASE Reconcile
      <3>1. rev' = rev + 1 /\ rev < Len(case.homes) /\ current' = TRUE
        BY <2>2 DEF Reconcile
      <3>2. QED
        BY <2>1, <3>1
    <2>3. CASE Invalidate
      <3>1. rev' = rev /\ current' = FALSE
        BY <2>3 DEF Invalidate
      <3>2. QED
        BY <2>1, <3>1
    <2>4. CASE \E r \in RouteIds(Gateway) : Cooldown(r)
      BY <2>1, <2>4 DEF Cooldown
    <2>5. QED
      BY <2>2, <2>3, <2>4
  <1>4. QED
    BY <1>1, <1>2, <1>3 DEF Inv

\* A step of a thread keeps the invariant, and is of one of the kinds.
Acts(t) == Step(t) \/ Drop(t) \/ Replay(t) \/ Refuse(t) \/ Consult(t) \/ StartProbe(t)

LEMMA ActsAre ==
  ASSUME Inv, NEW t \in Threads, Acts(t)
  PROVE  t \in Delivered /\ Inv' /\ OfKind(t)
  <1>1. CASE Step(t)
    <2>1. t \in Delivered
      <3>1. thread[t].pc # "idle"
        BY <1>1 DEF Step, Send, Trim, ProbeAnswered, ProbeRoute
      <3>2. QED
        BY <3>1, ThreadIs
    <2>2. CASE thread[t].pc = "asking" /\ ~Request(t).probe /\ \E d \in Decisions(t) : Decide(t, d)
      BY <2>1, <2>2, DecideKeeps DEF OfKind
    <2>3. CASE thread[t].pc = "waiting" /\ \E reply \in Replies(t) : RouteReply(t, reply)
      BY <2>1, <2>3, RouteReplyKeeps DEF OfKind
    <2>4. CASE Send(t)
      BY <2>1, <2>4, SendKeeps DEF OfKind
    <2>5. CASE Trim(t)
      BY <2>1, <2>5, TrimKeeps DEF OfKind
    <2>6. CASE ProbeAnswered(t)
      BY <2>1, <2>6, ProbeAnsweredKeeps DEF OfKind
    <2>7. CASE ProbeRoute(t)
      BY <2>1, <2>7, ProbeRouteKeeps DEF OfKind
    <2>8. QED
      BY <1>1, <2>2, <2>3, <2>4, <2>5, <2>6, <2>7 DEF Step
  <1>2. CASE Drop(t) \/ Replay(t) \/ Refuse(t) \/ Consult(t) \/ StartProbe(t)
    <2>1. t \in Delivered
      BY <1>2 DEF Drop, Replay, Refuse, Consult, StartProbe, Arrives
    <2>2. QED
      BY <1>2, <2>1, DropKeeps, ReplayKeeps, RefuseKeeps, ConsultKeeps, StartProbeKeeps DEF OfKind
  <1>3. QED
    BY <1>1, <1>2 DEF Acts

\* Every step keeps the invariant, and is of one of the kinds.
LEMMA Steps ==
  ASSUME Inv, [Next]_vars
  PROVE  Inv' /\ (World \/ \E t \in Threads : t \in Delivered /\ OfKind(t))
  <1>1. CASE \E t \in Threads : Acts(t)
    BY <1>1, ActsAre
  <1>2. CASE Reconcile \/ Invalidate \/ \E r \in RouteIds(Gateway) : Cooldown(r)
    BY <1>2, WorldKeeps
  <1>3. CASE UNCHANGED vars
    <2>1. World /\ UNCHANGED <<case, rev, current, seen, circuit, thread>>
      BY <1>3 DEF vars, World
    <2>2. QED
      BY <2>1 DEF Inv
  <1>4. QED
    BY <1>1, <1>2, <1>3 DEF Next, Acts

\* At first nothing has begun.
LEMMA Starting ==
  ASSUME Init
  PROVE  Inv
  <1>1. case \in Cases /\ IsCase(case) /\ Len(case.homes) \in Nat
    <2>1. IsCase(case) /\ case \in Cases
      BY CasesAre DEF Init
    <2>2. case.homes \in Seq(DOMAIN Homes)
      BY <2>1 DEF IsCase
    <2>3. QED
      BY <2>1, <2>2, LenProperties
  <1>2. /\ rev \in 0 .. Len(case.homes) /\ current \in BOOLEAN /\ (current => rev > 0)
    <2>1. case.start \in 0 .. Len(case.homes)
      BY <1>1 DEF IsCase
    <2>2. rev = case.start /\ current = (case.start > 0)
      BY DEF Init
    <2>3. current \in BOOLEAN /\ (current => case.start > 0)
      <3> DEFINE begun == case.start > 0
      <3>1. begun \in BOOLEAN
        OBVIOUS
      <3>2. current = begun
        BY <2>2
      <3> HIDE DEF begun
      <3>3. current \in BOOLEAN /\ (current => begun)
        BY <3>1, <3>2, Zenon
      <3>4. QED
        BY <3>3 DEF begun
    <2>4. QED
      BY <1>1, <2>1, <2>2, <2>3
  <1>3. IsMemory(case, seen)
    <2>1. seen = << >> /\ Len(seen) = 0
      BY EmptySeq DEF Init
    <2>2. seen \in Seq(ToSet(seen))
      BY <2>1, EmptySeq
    <2>3. QED
      BY <2>1, <2>2 DEF IsMemory
  <1>4. circuit \in [RouteIds(case.gateway) -> Circuits]
    BY DEF Init, Closed, Circuits
  <1>5. thread = [t \in Threads |-> thread[t]] /\ \A t \in Threads : thread[t] = NoThread
    BY DEF Init
  <1>6. ASSUME NEW t \in Threads
        PROVE  LocalsAre(case, t, thread[t])
    <2> DEFINE l == thread[t]
    <2>1. /\ Shaped(l) /\ l.pc = "idle" /\ l.batch = NoBatch /\ l.answer = NoAnswer
          /\ l.consulted = {} /\ l = NoThread
      BY <1>5, NoThreadIs
    <2> HIDE DEF l
    <2>2. Typed(case, t, l)
      BY <2>1, NoThreadIs DEF Typed, PCs
    <2>3. Private(case, t, l)
      BY <2>1 DEF Private
    <2>4. NoAnswer.key \notin Acting
      BY NoThreadIs DEF Acting
    <2>5. Sound(case, case.deliveries[t].id, l.answer)
      BY <2>1, <2>4, HarmlessSound
    <2>6. QED
      BY <2>2, <2>3, <2>5 DEF LocalsAre, l
  <1>7. QED
    BY <1>1, <1>2, <1>3, <1>4, <1>5, <1>6 DEF Inv

-----------------------------------------------------------------------------
(* The theorems.                                                            *)

\* The invariant of every reachable state: threads' locals that fit where the
\* thread is, a memory of sound answers, each id once.
THEOREM Invariance == Spec => []Inv
  <1>1. Init => Inv
    BY Starting
  <1>2. Inv /\ [Next]_vars => Inv'
    BY Steps
  <1>3. QED
    BY <1>1, <1>2, PTL DEF Spec

\* The memory holds no id twice, a finished request has an answer, a handoff
\* under way stands at one of its attempts.
THEOREM TypeCorrect == Spec => []TypeOK
  <1>1. ASSUME Inv
        PROVE  TypeOK
    <2>1. rev \in 0 .. Len(case.homes) /\ current \in BOOLEAN
      BY <1>1 DEF Inv
    <2>2. IsInjective([i \in DOMAIN seen |-> seen[i].id])
      <3>1. IsMemory(case, seen) /\ DOMAIN seen = 1 .. Len(seen)
        BY <1>1, LenProperties DEF Inv, IsMemory
      <3>2. QED
        BY <3>1 DEF IsMemory, IsInjective
    <2>3. \A r \in RouteIds(Gateway) : circuit[r].failures \in 0 .. 2 /\ circuit[r].open \in BOOLEAN
      <3>1. \A r \in RouteIds(Gateway) : circuit[r] \in Circuits
        BY <1>1 DEF Inv, Gateway
      <3>2. QED
        BY <3>1 DEF Circuits
    <2>4. ASSUME NEW t \in Threads
          PROVE  /\ thread[t].answer.key \in Final \cup {"none"}
                 /\ thread[t].pc = "done" /\ ~Request(t).probe => thread[t].answer.key # "none"
                 /\ thread[t].pc \in {"sending", "waiting"} => thread[t].pos \in thread[t].attempts
      BY <1>1, ThreadIs DEF Typed, AnswerIs, OnRoute, Request
    <2>5. QED
      BY <2>1, <2>2, <2>3, <2>4 DEF TypeOK
  <1>2. QED
    BY <1>1, Invariance, PTL

\* The three modes, by width.
LEMMA WidthIs ==
  Width("local_only") = 1 /\ Width("jev_hosted_allowed") = 2 /\ Width("hosted_allowed") = 3
  <1>1. /\ Widths[1] = "local_only" /\ Widths[2] = "jev_hosted_allowed"
        /\ Widths[3] = "hosted_allowed"
    BY DEF Widths
  <1>2. ASSUME NEW n \in 1 .. 3, NEW mode, Widths[n] = mode
        PROVE  Width(mode) = n
    <2>1. \A m \in 1 .. 3 : Widths[m] = mode => m = n
      BY <1>1, <1>2
    <2>2. QED
      BY <1>2, <2>1 DEF Width
  <1>3. QED
    BY <1>1, <1>2

\* The mode of a request is as narrow as what the App and the request say.
LEMMA ModeWithin ==
  ASSUME NEW c, NEW t, c.gateway.privacy \in Modes, c.deliveries[t].privacy \in Modes \cup {"unset"}
  PROVE  LET modes == {c.gateway.privacy, c.deliveries[t].privacy} \ {"unset"}
         IN /\ "local_only" \in modes => ModeIn(c, t) = "local_only"
            /\ modes # {"hosted_allowed"} => ModeIn(c, t) # "hosted_allowed"
  <1> DEFINE own == c.gateway.privacy
             asked == c.deliveries[t].privacy
  <1>1. ModeIn(c, t) = IF asked = "unset" \/ Width(own) < Width(asked) THEN own ELSE asked
    BY DEF ModeIn
  <1>2. own \in Modes /\ asked \in Modes \cup {"unset"}
    OBVIOUS
  <1> HIDE DEF own, asked
  <1>3. LET modes == {own, asked} \ {"unset"}
        IN /\ "local_only" \in modes => ModeIn(c, t) = "local_only"
           /\ modes # {"hosted_allowed"} => ModeIn(c, t) # "hosted_allowed"
    BY <1>1, <1>2, WidthIs DEF Modes
  <1>4. QED
    BY <1>3 DEF own, asked

\* Nothing of a request leaves the home beyond what the App and the request
\* allow, whatever the routes, the failovers and the failures are.
THEOREM PrivacyKept == Spec => []ConsultsWithinPrivacy
  <1>1. ASSUME Inv
        PROVE  ConsultsWithinPrivacy
    <2>1. ASSUME NEW t \in Delivered, ~Request(t).probe
          PROVE  LET modes == {Gateway.privacy, Request(t).privacy} \ {"unset"}
                     outside == {x \in thread[t].consulted :
                                   Hosted(IF x = "jev" THEN Gateway.jevAt ELSE Gateway.at[x])}
                 IN /\ "local_only" \in modes => outside = {}
                    /\ modes # {"hosted_allowed"} => outside \subseteq {"jev"}
      <3> DEFINE modes == {Gateway.privacy, Request(t).privacy} \ {"unset"}
                 place(x) == IF x = "jev" THEN Gateway.jevAt ELSE Gateway.at[x]
                 mode == ModeIn(case, t)
      <3>1. t \in Threads
        BY <1>1, CasesAre DEF Inv, IsCase, Delivered
      <3>2. /\ "local_only" \in modes => mode = "local_only"
            /\ modes # {"hosted_allowed"} => mode # "hosted_allowed"
        <4>1. Gateway.privacy \in Modes /\ Request(t).privacy \in Modes \cup {"unset"}
          BY <1>1, <3>1, GatewayIs, ThreadIs DEF IsGateway, IsRequest
        <4>2. QED
          BY <4>1, ModeWithin DEF Gateway, Request
      <3>3. ASSUME NEW x \in thread[t].consulted, Hosted(place(x))
            PROVE  mode # "local_only" /\ (mode = "hosted_allowed" \/ x = "jev")
        <4>1. \/ x = "jev" /\ ~(mode = "local_only" /\ Hosted(Gateway.jevAt))
              \/ x \in RouteIds(Gateway) /\ mode \in Route(Gateway.routes, x).privacy
          BY <1>1, <2>1, <3>1, ThreadIs DEF Private, Admits, Gateway, Request
        <4>2. CASE x = "jev" /\ ~(mode = "local_only" /\ Hosted(Gateway.jevAt))
          BY <3>3, <4>2
        <4>3. CASE x \in RouteIds(Gateway) /\ mode \in Route(Gateway.routes, x).privacy
          <5>1. x # "jev" /\ IsGateway(Gateway)
            BY <1>1, <4>3, GatewayIs
          <5>2. Route(Gateway.routes, x).privacy = {"hosted_allowed"}
            BY <3>3, <4>3, <5>1 DEF IsGateway
          <5>3. QED
            BY <4>3, <5>2
        <4>4. QED
          BY <4>1, <4>2, <4>3
      <3> HIDE DEF mode
      <3>4. QED
        BY <3>2, <3>3
    <2>2. QED
      BY <2>1 DEF ConsultsWithinPrivacy
  <1>2. QED
    BY <1>1, Invariance, PTL

\* What the Core may act on, it finds, accepts and has confirmed: a profile
\* compiled from what the Core found, a decision checked against it, and a
\* fallback's proposal let through by the same policy.
THEOREM ExecutableAnswers == Spec => []AnswersAreExecutable
  <1>1. ASSUME Inv
        PROVE  AnswersAreExecutable
    <2>1. ASSUME NEW t \in Delivered
          PROVE  Sound(case, Request(t).id, thread[t].answer)
      <3>1. t \in Threads
        BY <1>1, CasesAre DEF Inv, IsCase, Delivered
      <3>2. QED
        BY <1>1, <3>1, ThreadIs
    <2>2. \A id : ConfirmedIn(case, id) <=> Confirmed(id)
      BY DEF ConfirmedIn, Confirmed, Delivered, Request
    <2>3. QED
      BY <2>1, <2>2 DEF AnswersAreExecutable, Sound, SingleSound, BatchSound, Acting
  <1>2. QED
    BY <1>1, Invariance, PTL

\* A batch the Core may execute for a named group is all that the group leads
\* to, however the groups are nested and whatever is unsafe in them: what was
\* compiled of a group is that or nothing, and what is found of it is all.
THEOREM BatchesComplete == Spec => []BatchIsWhatWasNamed
  <1>1. ASSUME Inv
        PROVE  BatchIsWhatWasNamed
    <2> SUFFICES ASSUME NEW t \in Delivered, thread[t].answer.key = "batch_execute",
                        Request(t).says.group
                 PROVE  LET a == thread[t].answer
                            home == Homes[case.homes[a.rev]]
                        IN  \E g \in {x \in home.groups : x.name \in Request(t).says.names} :
                              {m[1] : m \in a.members} =
                                LeadsTo(g.ref, Members(home)) \ {x.ref : x \in home.groups}
      BY DEF BatchIsWhatWasNamed
    <2> DEFINE a == thread[t].answer
               home == Homes[case.homes[a.rev]]
    <2>1. Sound(case, Request(t).id, a)
      <3>1. t \in Threads
        BY <1>1, CasesAre DEF Inv, IsCase, Delivered
      <3>2. QED
        BY <1>1, <3>1, ThreadIs
    <2>2. NamesAll(home, Request(t).says, a.members)
      BY <2>1 DEF Sound, Said, Delivered, Request
    <2>3. QED
      BY <2>2 DEF NamesAll, Contents, GroupRefs
  <1>2. QED
    BY <1>1, Invariance, PTL

-----------------------------------------------------------------------------
(* What is attempted, and what is on record.                                *)

\* A step that sends nothing: what was sent stays, with the route the handoff
\* began at, or it is no more than the question to the service.
Quiet(t) ==
  /\ Only(t) /\ UNCHANGED <<case, attempted>>
  /\ \/ thread'[t].consulted \subseteq {"jev"}
     \/ /\ thread'[t].consulted = thread[t].consulted
        /\ thread'[t].pc \notin {"idle", "asking"}
        /\ Request(t).probe \/ thread[t].pc \in {"idle", "asking"}
             \/ thread'[t].first = thread[t].first

\* Every step but one sends nothing.
LEMMA QuietOrSends ==
  ASSUME NEW t, t \in Delivered, OfKind(t)
  PROVE  Sends(t) \/ Quiet(t)
  <1>1. CASE Moves(t)
    BY <1>1 DEF Moves, GoesOn, Quiet, Request
  <1>2. CASE Finishes(t)
    <2>1. thread'[t].pc \in {"trimming", "done"}
      BY <1>2 DEF Finishes, Ended
    <2>2. QED
      BY <1>2, <2>1 DEF Finishes, Ended, Quiet
  <1>3. CASE Replays(t)
    BY <1>3 DEF Replays, Quiet
  <1>4. CASE Refuses(t)
    BY <1>4, BeginningIs DEF Refuses, Ended, Quiet
  <1>5. CASE Starts(t)
    BY <1>5 DEF Starts, Quiet
  <1>6. CASE Trims(t)
    <2>1. thread'[t].pc \in {"failed", "done"}
      BY <1>6 DEF Trims
    <2>2. QED
      BY <1>6, <2>1 DEF Trims, Quiet
  <1>7. QED
    BY <1>1, <1>2, <1>3, <1>4, <1>5, <1>6 DEF OfKind

\* An attempt is on record.
OnRecord(log, key) == \E i \in DOMAIN log : log[i] = key

\* It is so twice, and far enough apart to have been forgotten.
FarApart(log, key) ==
  \E i, j \in DOMAIN log : log[i] = key /\ log[j] = log[i] /\ j - i > HandoffsKept

\* Whoever was attempted as part of a handoff, with the chat adapter.
Recorded(t) ==
  /\ thread[t].pc \in {"idle", "asking"} => thread[t].consulted \subseteq {"jev"}
  /\ \A r \in thread[t].consulted \ {"jev"} :
       OnRecord(attempted, <<Request(t).id, thread[t].first, r>>)

\* What an admitted attempt adds to the record: an attempt that was there
\* before is there again, at a distance at which it had been forgotten.
LEMMA RecordGrows ==
  ASSUME NEW t \in Delivered, Sends(t), Gateway.adapter = "chat", attempted \in Seq(HandoffKeys)
  PROVE  /\ attempted' \in Seq(HandoffKeys) /\ OnRecord(attempted', HandoffKey(t))
         /\ \A key : OnRecord(attempted, key) => OnRecord(attempted', key)
         /\ \A key : FarApart(attempted, key) => FarApart(attempted', key)
         /\ OnRecord(attempted, HandoffKey(t)) => FarApart(attempted', HandoffKey(t))
  <1> DEFINE k == HandoffKey(t)
             n == Len(attempted)
  <1>1. k \in HandoffKeys /\ k \notin SeenHandoffs /\ attempted' = Append(attempted, k)
    BY DEF Sends
  <1> HIDE DEF k
  <1>2. n \in Nat /\ DOMAIN attempted = 1 .. n
    BY LenProperties
  <1>3. /\ attempted' \in Seq(HandoffKeys) /\ Len(attempted') = n + 1
        /\ \A i \in 1 .. n : attempted'[i] = attempted[i]
        /\ attempted'[n + 1] = k
    BY <1>1, AppendProperties
  <1>4. DOMAIN attempted' = 1 .. (n + 1)
    BY <1>3, LenProperties
  <1>5. ASSUME NEW i \in DOMAIN attempted, attempted[i] = k
        PROVE  (n + 1) - i > HandoffsKept
    <2>1. ~(i > n - HandoffsKept)
      BY <1>1, <1>5 DEF SeenHandoffs
    <2>2. QED
      BY <1>2, <2>1, BoundsAre
  <1> HIDE DEF n
  <1>6. \A i \in DOMAIN attempted : i \in DOMAIN attempted' /\ attempted'[i] = attempted[i]
    BY <1>2, <1>3, <1>4
  <1>7. n + 1 \in DOMAIN attempted'
    BY <1>2, <1>4
  <1>8. OnRecord(attempted, k) => FarApart(attempted', k)
    BY <1>3, <1>5, <1>6, <1>7 DEF OnRecord, FarApart
  <1>9. \A key : /\ OnRecord(attempted, key) => OnRecord(attempted', key)
                 /\ FarApart(attempted, key) => FarApart(attempted', key)
    BY <1>6 DEF OnRecord, FarApart
  <1>10. OnRecord(attempted', k)
    BY <1>3, <1>7 DEF OnRecord
  <1>11. QED
    BY <1>3, <1>8, <1>9, <1>10 DEF k

\* It stays on record.
LEMMA RecordKept ==
  ASSUME NEW t \in Threads, t \in Delivered, OfKind(t), Gateway.adapter = "chat",
         attempted \in Seq(HandoffKeys),
         NEW u \in Delivered, u \in Threads, ~Request(u).probe, Recorded(u)
  PROVE  Recorded(u)'
  <1>1. case' = case /\ Only(t) /\ (Sends(t) \/ Quiet(t))
    BY QuietOrSends DEF Sends, Quiet
  <1>2. \A key : OnRecord(attempted, key) => OnRecord(attempted', key)
    BY <1>1, RecordGrows DEF Quiet
  <1>3. Request(u)' = Request(u)
    BY <1>1 DEF Request
  <1>4. CASE u # t
    <2>1. thread'[u] = thread[u]
      BY <1>1, <1>4 DEF Only
    <2>2. QED
      BY <1>2, <1>3, <2>1 DEF Recorded
  <1>5. CASE u = t /\ Sends(t)
    <2>1. /\ thread'[t].pc = "waiting" /\ thread'[t].first = thread[t].first
          /\ thread'[t].consulted = thread[t].consulted \cup {Attempt(t)}
      BY <1>5 DEF Sends
    <2>2. OnRecord(attempted', <<Request(t).id, thread[t].first, Attempt(t)>>)
      BY <1>5, RecordGrows DEF HandoffKey
    <2>3. QED
      BY <1>2, <1>3, <1>5, <2>1, <2>2 DEF Recorded
  <1>6. CASE u = t /\ Quiet(t)
    BY <1>3, <1>6 DEF Quiet, Recorded
  <1>7. QED
    BY <1>1, <1>4, <1>5, <1>6

\* Two threads of a request attempt the same route only far apart.
LEMMA FarApartKept ==
  ASSUME Inv, NEW t \in Threads, t \in Delivered, OfKind(t),
         RepeatsAreFarApart, AttemptsOnRecord
  PROVE  RepeatsAreFarApart'
  <1> DEFINE Same(u, v) == /\ u # v /\ ~Request(u).probe /\ ~Request(v).probe
                           /\ Request(u).id = Request(v).id
             Key(u, r) == <<Request(u).id, thread'[u].first, r>>
  <1>1. case' = case /\ Only(t) /\ (Sends(t) \/ Quiet(t))
    BY QuietOrSends DEF Sends, Quiet
  <1>2. ASSUME NEW u \in Delivered, u \in Threads, Same(t, u), Gateway.adapter = "chat",
               thread'[t].first = thread'[u].first,
               NEW r \in (thread'[t].consulted \cap thread'[u].consulted) \ {"jev"}
        PROVE  FarApart(attempted', Key(t, r))
    <2>1. thread'[u] = thread[u]
      BY <1>1, <1>2 DEF Only
    <2>2. Recorded(t) /\ Recorded(u) /\ attempted \in Seq(HandoffKeys)
      BY <1>2 DEF AttemptsOnRecord, Recorded, OnRecord
    <2>3. thread[t].first = thread[u].first /\ r \in thread[t].consulted
            => FarApart(attempted, Key(t, r))
      BY <1>2, <2>1 DEF RepeatsAreFarApart, FarApart
    <2>4. CASE Quiet(t)
      <3>1. thread[t].first = thread[u].first /\ r \in thread[t].consulted
        BY <1>2, <2>1, <2>2, <2>4 DEF Quiet, Recorded
      <3>2. QED
        BY <2>3, <2>4, <3>1 DEF Quiet
    <2>5. CASE Sends(t)
      <3>1. /\ thread'[t].first = thread[t].first
            /\ thread'[t].consulted = thread[t].consulted \cup {Attempt(t)}
        BY <2>5 DEF Sends
      <3>2. CASE r \in thread[t].consulted
        <4>1. FarApart(attempted, Key(t, r))
          BY <1>2, <2>1, <2>3, <3>1, <3>2
        <4>2. QED
          BY <1>2, <2>2, <2>5, <4>1, RecordGrows
      <3>3. CASE r = Attempt(t)
        <4>1. HandoffKey(t) = Key(t, r) /\ HandoffKey(t) = <<Request(u).id, thread[u].first, r>>
          BY <1>2, <2>1, <3>1, <3>3 DEF HandoffKey
        <4>2. OnRecord(attempted, HandoffKey(t))
          BY <1>2, <2>1, <2>2, <4>1 DEF Recorded
        <4>3. QED
          BY <1>2, <2>2, <2>5, <4>1, <4>2, RecordGrows
      <3>4. QED
        BY <1>2, <3>1, <3>2, <3>3
    <2>6. QED
      BY <1>1, <2>4, <2>5
  <1>3. ASSUME NEW u \in Delivered, NEW v \in Delivered, u \in Threads, v \in Threads, Same(u, v),
               Gateway.adapter = "chat", thread'[u].first = thread'[v].first,
               NEW r \in (thread'[u].consulted \cap thread'[v].consulted) \ {"jev"}
        PROVE  FarApart(attempted', Key(u, r))
    <2>1. CASE u = t
      BY <1>2, <1>3, <2>1
    <2>2. CASE v = t
      <3>1. Same(t, u) /\ Key(u, r) = Key(t, r)
        BY <1>3, <2>2
      <3>2. QED
        BY <1>2, <1>3, <2>2, <3>1
    <2>3. CASE u # t /\ v # t
      <3>1. thread'[u] = thread[u] /\ thread'[v] = thread[v]
        BY <1>1, <1>3, <2>3 DEF Only
      <3>2. FarApart(attempted, Key(u, r)) /\ attempted \in Seq(HandoffKeys)
        BY <1>3, <3>1 DEF RepeatsAreFarApart, AttemptsOnRecord, FarApart
      <3>3. QED
        BY <1>1, <1>3, <3>2, RecordGrows DEF Quiet
    <2>4. QED
      BY <2>1, <2>2, <2>3
  <1>4. Delivered \subseteq Threads
    BY CasesAre DEF Inv, IsCase, Delivered
  <1>5. Delivered' = Delivered /\ Gateway' = Gateway /\ \A u : Request(u)' = Request(u)
    BY <1>1 DEF Delivered, Gateway, Request
  <1>6. QED
    BY <1>3, <1>4, <1>5 DEF RepeatsAreFarApart, FarApart

\* However often a request arrives, and however its threads overlap: a route
\* of the chat adapter is attempted again as part of the same handoff only
\* when more than HandoffsKept attempts were admitted from the one to the other.
THEOREM RepeatsFarApart == Spec => []RepeatsAreFarApart
  <1>1. Init => AttemptsOnRecord /\ RepeatsAreFarApart
    <2>1. SUFFICES ASSUME Init
                   PROVE  AttemptsOnRecord /\ RepeatsAreFarApart
      OBVIOUS
    <2>2. Delivered \subseteq Threads /\ \A t \in Threads : thread[t].consulted = {}
      BY <2>1, CasesAre, NoThreadIs DEF Init, IsCase, Delivered
    <2>3. attempted \in Seq(HandoffKeys)
      BY <2>1, EmptySeq DEF Init
    <2>4. QED
      BY <2>2, <2>3 DEF AttemptsOnRecord, RepeatsAreFarApart
  <1>2. Inv /\ AttemptsOnRecord /\ RepeatsAreFarApart /\ [Next]_vars
          => AttemptsOnRecord' /\ RepeatsAreFarApart'
    <2>1. SUFFICES ASSUME Inv, AttemptsOnRecord, RepeatsAreFarApart, [Next]_vars
                   PROVE  AttemptsOnRecord' /\ RepeatsAreFarApart'
      OBVIOUS
    <2>2. CASE World
      BY <2>1, <2>2
         DEF World, AttemptsOnRecord, RepeatsAreFarApart, HandoffKeys, Delivered, Gateway, Request
    <2>3. ASSUME NEW t \in Threads, t \in Delivered, OfKind(t)
          PROVE  AttemptsOnRecord' /\ RepeatsAreFarApart'
      <3>1. case' = case /\ (Sends(t) \/ Quiet(t))
        BY <2>3, QuietOrSends DEF Sends, Quiet
      <3>2. /\ Delivered' = Delivered /\ Gateway' = Gateway /\ \A u : Request(u)' = Request(u)
            /\ HandoffKeys' = HandoffKeys
        BY <3>1 DEF Delivered, Gateway, Request, HandoffKeys
      <3>3. Delivered \subseteq Threads
        BY <2>1, CasesAre DEF Inv, IsCase, Delivered
      <3>4. ASSUME Gateway.adapter = "chat"
            PROVE  attempted \in Seq(HandoffKeys) /\ attempted' \in Seq(HandoffKeys)
        BY <2>1, <2>3, <3>1, <3>4, RecordGrows DEF AttemptsOnRecord, Quiet
      <3>5. ASSUME NEW u \in Delivered, Gateway.adapter = "chat", ~Request(u).probe
            PROVE  Recorded(u)'
        <4>1. Recorded(u)
          BY <2>1, <3>5 DEF AttemptsOnRecord, Recorded, OnRecord
        <4>2. QED
          BY <2>3, <3>3, <3>4, <3>5, <4>1, RecordKept
      <3>6. AttemptsOnRecord'
        BY <3>2, <3>4, <3>5 DEF AttemptsOnRecord, Recorded, OnRecord
      <3>7. QED
        BY <2>1, <2>3, <3>6, FarApartKept
    <2>4. QED
      BY <2>1, <2>2, <2>3, Steps
  <1>3. QED
    BY <1>1, <1>2, Invariance, PTL DEF Spec

-----------------------------------------------------------------------------
(* What is remembered.                                                      *)

\* The memory holds no more than one answer for each request.
LEMMA MemoryFits ==
  ASSUME NEW c, IsCase(c), NEW s, IsMemory(c, s)
  PROVE  /\ Len(s) \in Nat /\ Cardinality(RequestIds(c)) \in Nat
         /\ Len(s) <= Cardinality(RequestIds(c))
  <1> DEFINE N == Len(s)
             ids == RequestIds(c)
             f == [i \in 1 .. N |-> s[i].id]
             who == {u \in DOMAIN c.deliveries : ~c.deliveries[u].probe}
             id == [u \in who |-> c.deliveries[u].id]
  <1>1. N \in Nat
    BY LenProperties DEF IsMemory
  <1>2. IsFiniteSet(ids)
    <2>1. IsFiniteSet(Threads)
      BY BoundsAre, FS_Interval DEF Threads
    <2>2. who \in SUBSET Threads
      BY DEF IsCase
    <2>3. IsFiniteSet(who)
      BY <2>1, <2>2, FS_Subset
    <2>4. ids = {id[u] : u \in who}
      BY DEF RequestIds
    <2> HIDE DEF ids, who, id
    <2>5. QED
      BY <2>3, <2>4, FiniteImage
  <1>3. \A i \in 1 .. N : s[i].id \in ids
    BY DEF IsMemory, EntryIs
  <1>4. \A i, j \in 1 .. N : s[i].id = s[j].id => i = j
    BY DEF IsMemory
  <1> HIDE DEF ids, N
  <1>5. f \in [1 .. N -> ids] /\ \A i \in 1 .. N : f[i] = s[i].id
    BY <1>3
  <1> HIDE DEF f
  <1>6. f \in Injection(1 .. N, ids)
    BY <1>4, <1>5 DEF Injection, IsInjective
  <1>7. Cardinality(1 .. N) <= Cardinality(ids)
    BY <1>2, <1>6, FS_Injection
  <1>8. Cardinality(1 .. N) = N
    <2>1. Cardinality(1 .. N) = IF 1 > N THEN 0 ELSE N - 1 + 1
      BY <1>1, FS_Interval
    <2>2. QED
      BY <1>1, <2>1
  <1>9. QED
    BY <1>1, <1>2, <1>7, <1>8, FS_CardinalityType DEF N, ids

\* A step is of a thread that is not done, and notes who was done if it is
\* the thread's first one.
LEMMA StepOf ==
  ASSUME NEW t, t \in Delivered, OfKind(t)
  PROVE  /\ case' = case /\ Only(t) /\ thread[t].pc # "done"
         /\ \/ thread'[t].settled = thread[t].settled
            \/ thread[t].pc = "idle" /\ thread'[t].settled = Settled
  <1>1. CASE Moves(t)
    BY <1>1 DEF Moves, GoesOn
  <1>2. CASE Finishes(t)
    BY <1>2 DEF Finishes, Ended
  <1>3. CASE Replays(t)
    BY <1>3 DEF Replays
  <1>4. CASE Refuses(t)
    BY <1>4, BeginningIs DEF Refuses, Ended
  <1>5. CASE Starts(t)
    BY <1>5 DEF Starts
  <1>6. CASE Sends(t)
    BY <1>6 DEF Sends
  <1>7. CASE Trims(t)
    BY <1>7 DEF Trims
  <1>8. QED
    BY <1>1, <1>2, <1>3, <1>4, <1>5, <1>6, <1>7 DEF OfKind

\* Who was done when a thread began still is.
LEMMA SettledKept ==
  ASSUME NEW t \in Threads, t \in Delivered, OfKind(t), SettledAreDone
  PROVE  SettledAreDone' /\ Settled \subseteq Settled'
  <1>1. /\ Only(t) /\ thread[t].pc # "done"
        /\ thread'[t].settled = thread[t].settled \/ thread'[t].settled = Settled
    BY StepOf
  <1>2. Settled \subseteq Settled'
    BY <1>1 DEF Settled, Only
  <1>3. ASSUME NEW u \in Threads
        PROVE  thread'[u].settled \subseteq Settled
    BY <1>1, <1>3 DEF SettledAreDone, Only
  <1>4. QED
    BY <1>2, <1>3 DEF SettledAreDone, Threads

\* A new answer is added to those that are remembered.
LEMMA CompleteWhenEnded ==
  ASSUME Inv, Inv', NEW t \in Threads, t \in Delivered, case' = case, NEW l, Ended(t, l),
         ~Request(t).probe, thread[t].pc # "done", Few(case), Complete
  PROVE  Complete'
  <1> DEFINE entry == [id |-> Request(t).id, answer |-> thread'[t].answer]
  <1>1. /\ seen' = Stored(entry) /\ EntryIs(case, entry) /\ Only(t)
        /\ thread'[t].pc = IF Over(seen') THEN "trimming" ELSE "done"
    BY DEF Ended
  <1>2. entry.id = Request(t).id /\ entry.answer = thread'[t].answer
    OBVIOUS
  <1> HIDE DEF entry
  <1>3. ~Over(seen')
    <2>1. IsCase(case) /\ IsMemory(case, seen')
      BY CasesAre DEF Inv
    <2>2. /\ Len(seen') \in Nat /\ Cardinality(RequestIds(case)) \in Nat
          /\ Len(seen') <= Cardinality(RequestIds(case))
      BY <2>1, MemoryFits
    <2>3. QED
      BY <2>2, BoundsAre DEF Over, Few
  <1>4. /\ \E i \in 1 .. Len(seen') : seen'[i] = entry
        /\ \A i \in 1 .. Len(seen') :
             seen'[i] = entry \/ \E j \in 1 .. Len(seen) : seen'[i] = seen[j] /\ seen[j].id # entry.id
        /\ \A j \in 1 .. Len(seen) : \E i \in 1 .. Len(seen') : seen'[i].id = seen[j].id
    <2>1. IsMemory(case, seen)
      BY DEF Inv
    <2>2. Adds(seen, seen', entry)
      BY <1>1, <2>1, StoredIs
    <2>3. QED
      BY <2>2 DEF Adds
  <1>5. DOMAIN seen = 1 .. Len(seen) /\ DOMAIN seen' = 1 .. Len(seen')
    BY LenProperties DEF Inv, IsMemory
  <1>6. thread'[t].pc = "done" /\ \A u \in Threads \ {t} : thread'[u] = thread[u]
    BY <1>1, <1>3 DEF Only
  <1>7. \A u : Request(u)' = Request(u) /\ (u \in Delivered' <=> u \in Delivered)
    BY DEF Request, Delivered
  <1>8. Finished(t)' /\ \A u \in Threads \ {t} : Finished(u)' <=> Finished(u)
    BY <1>6, <1>7 DEF Finished
  <1>9. \A u \in Threads : thread'[u].pc # "trimming"
    BY <1>6 DEF Complete
  <1>10. ASSUME NEW u \in Threads, Finished(u)'
         PROVE  \E i \in DOMAIN seen' : seen'[i].id = Request(u).id
    <2>1. CASE u = t
      <3>1. PICK i \in 1 .. Len(seen') : seen'[i] = entry
        BY <1>4
      <3>2. QED
        BY <1>2, <1>5, <2>1, <3>1
    <2>2. CASE u # t
      <3>1. IsRemembered(Request(u).id)
        BY <1>8, <1>10, <2>2 DEF Complete
      <3>2. PICK j \in 1 .. Len(seen) : seen[j].id = Request(u).id
        BY <1>5, <3>1 DEF IsRemembered
      <3>3. PICK i \in 1 .. Len(seen') : seen'[i].id = seen[j].id
        BY <1>4
      <3>4. QED
        BY <1>5, <3>2, <3>3
    <2>3. QED
      BY <2>1, <2>2
  <1>11. ASSUME NEW i \in DOMAIN seen'
         PROVE  \E u \in Threads : /\ Finished(u)' /\ Request(u).id = seen'[i].id
                                   /\ thread'[u].answer = seen'[i].answer
    <2>1. CASE seen'[i] = entry
      BY <1>2, <1>8, <2>1
    <2>2. CASE seen'[i] # entry
      <3>1. PICK j \in 1 .. Len(seen) : seen'[i] = seen[j] /\ seen[j].id # entry.id
        BY <1>4, <1>5, <1>11, <2>2
      <3>2. PICK u \in Threads : /\ Finished(u) /\ Request(u).id = seen[j].id
                                 /\ thread[u].answer = seen[j].answer
        BY <1>5 DEF Complete
      <3>3. u # t
        BY <1>2, <3>1, <3>2
      <3>4. QED
        BY <1>6, <1>8, <3>1, <3>2, <3>3
    <2>3. QED
      BY <2>1, <2>2
  <1>12. QED
    BY <1>7, <1>9, <1>10, <1>11 DEF Complete, IsRemembered, Threads

\* A step that stores nothing.
LEMMA CompleteOtherwise ==
  ASSUME Inv, NEW t \in Threads, t \in Delivered, case' = case, Only(t), seen' = seen,
         thread[t].pc # "done", thread'[t].pc # "trimming",
         thread'[t].pc = "done" /\ ~Request(t).probe => IsRemembered(Request(t).id),
         Complete
  PROVE  Complete'
  <1>1. \A u \in Threads \ {t} : thread'[u] = thread[u]
    BY DEF Only
  <1>2. \A u : Request(u)' = Request(u) /\ (u \in Delivered' <=> u \in Delivered)
    BY DEF Request, Delivered
  <1>3. \A u \in Threads : thread'[u].pc # "trimming"
    BY <1>1 DEF Complete
  <1>4. \A id : IsRemembered(id)' <=> IsRemembered(id)
    BY DEF IsRemembered
  <1>5. \A u \in Threads : Finished(u)' => IsRemembered(Request(u).id)
    BY <1>1, <1>2 DEF Complete, Finished
  <1>6. ASSUME NEW u \in Threads, Finished(u)
        PROVE  Finished(u)' /\ thread'[u].answer = thread[u].answer
    BY <1>1, <1>2, <1>6 DEF Finished
  <1>7. \A i \in DOMAIN seen' :
          \E u \in Threads : /\ Finished(u)' /\ Request(u).id = seen'[i].id
                             /\ thread'[u].answer = seen'[i].answer
    BY <1>6 DEF Complete
  <1>8. QED
    BY <1>2, <1>3, <1>4, <1>5, <1>7 DEF Complete, Threads

\* Every answer stays remembered.
LEMMA CompleteKept ==
  ASSUME Inv, Inv', NEW t \in Threads, t \in Delivered, OfKind(t), Few(case), Complete
  PROVE  Complete'
  <1>1. case' = case /\ Only(t) /\ thread[t].pc # "done"
    BY StepOf
  <1>2. CASE Finishes(t)
    BY <1>1, <1>2, CompleteWhenEnded DEF Finishes
  <1>3. CASE Refuses(t)
    BY <1>1, <1>3, CompleteWhenEnded DEF Refuses
  <1>4. ASSUME seen' = seen, thread'[t].pc # "trimming",
               thread'[t].pc = "done" /\ ~Request(t).probe => IsRemembered(Request(t).id)
        PROVE  Complete'
    BY <1>1, <1>4, CompleteOtherwise
  <1>5. CASE Moves(t)
    <2>1. /\ seen' = seen /\ thread'[t].pc # "trimming"
          /\ thread'[t].pc = "done" => Request(t).probe
      BY <1>5 DEF Moves, GoesOn, Request
    <2>2. QED
      BY <1>4, <2>1
  <1>6. CASE Replays(t)
    BY <1>4, <1>6 DEF Replays
  <1>7. CASE Starts(t)
    <2>1. seen' = seen /\ thread'[t].pc \in {"asking", "probing"}
      BY <1>7 DEF Starts
    <2>2. QED
      BY <1>4, <2>1
  <1>8. CASE Sends(t)
    BY <1>4, <1>8 DEF Sends
  <1>9. CASE Trims(t)
    BY <1>9 DEF Trims, Complete
  <1>10. QED
    BY <1>2, <1>3, <1>5, <1>6, <1>7, <1>8, <1>9 DEF OfKind

\* As long as requests are few, all that were answered are remembered, and
\* who was done when a thread began still is.
THEOREM Remembering == Spec => [](AllRemembered /\ SettledAreDone)
  <1>1. Init => AllRemembered /\ SettledAreDone
    <2>1. SUFFICES ASSUME Init
                   PROVE  Complete /\ SettledAreDone
      BY DEF AllRemembered
    <2>2. \A t \in Threads : thread[t].pc = "idle" /\ thread[t].settled = {}
      BY <2>1, NoThreadIs DEF Init
    <2>3. DOMAIN seen = {}
      BY <2>1, NoDomain DEF Init
    <2>4. QED
      BY <2>2, <2>3 DEF Complete, Finished, SettledAreDone
  <1>2. Inv /\ AllRemembered /\ SettledAreDone /\ [Next]_vars
          => AllRemembered' /\ SettledAreDone'
    <2>1. SUFFICES ASSUME Inv, AllRemembered, SettledAreDone, [Next]_vars
                   PROVE  AllRemembered' /\ SettledAreDone'
      OBVIOUS
    <2>2. Inv' /\ (World \/ \E t \in Threads : t \in Delivered /\ OfKind(t))
      BY <2>1, Steps
    <2>3. CASE World
      BY <2>1, <2>3 DEF World, AllRemembered, Few, Complete, Finished, IsRemembered,
                        SettledAreDone, Settled, Request, Delivered, Threads
    <2>4. ASSUME NEW t \in Threads, t \in Delivered, OfKind(t)
          PROVE  AllRemembered' /\ SettledAreDone'
      <3>1. SettledAreDone'
        BY <2>1, <2>4, SettledKept
      <3>2. case' = case
        BY <2>4, StepOf
      <3>3. ASSUME Few(case)
            PROVE  Complete'
        BY <2>1, <2>2, <2>4, <3>3, CompleteKept DEF AllRemembered
      <3>4. QED
        BY <3>1, <3>2, <3>3 DEF AllRemembered, Few
    <2>5. QED
      BY <2>2, <2>3, <2>4
  <1>3. QED
    BY <1>1, <1>2, Invariance, PTL DEF Spec

Same(t) == {u \in thread[t].settled : ~Request(u).probe /\ Request(u).id = Request(t).id}

\* A thread that began after its request was answered has that answer.
Repeats(t) ==
  Same(t) # {} /\ ~Request(t).probe =>
    /\ thread[t].pc = "done" /\ thread[t].consulted = {}
    /\ \E u \in Same(t) : thread[t].answer = thread[u].answer

\* It keeps it.
LEMMA RepeatsKept ==
  ASSUME Inv, NEW t \in Threads, t \in Delivered, OfKind(t), SettledAreDone, Complete,
         NEW u \in Delivered, u \in Threads, Repeats(u)
  PROVE  Repeats(u)'
  <1>1. case' = case /\ Only(t) /\ thread[t].pc # "done"
    BY StepOf
  <1>2. \A v : Request(v)' = Request(v)
    BY <1>1 DEF Request
  <1>3. \A v \in Threads \ {t} : thread'[v] = thread[v]
    BY <1>1 DEF Only
  <1>4. ASSUME NEW v \in Settled
        PROVE  v \in Threads /\ v # t /\ thread'[v] = thread[v]
               /\ (~Request(v).probe => Finished(v))
    <2>1. v \in Threads /\ thread[v].pc = "done"
      BY DEF Settled
    <2>2. v \in Delivered
      BY <2>1, ThreadIs
    <2>3. QED
      BY <1>1, <1>3, <2>1, <2>2 DEF Finished
  <1>5. thread[u].settled \subseteq Settled
    BY DEF SettledAreDone
  <1>6. CASE thread'[u].settled = thread[u].settled
    <2>1. Same(u)' = Same(u)
      BY <1>2, <1>6 DEF Same
    <2>2. CASE Same(u) # {} /\ ~Request(u).probe
      <3>1. /\ thread[u].pc = "done" /\ thread[u].consulted = {}
            /\ \E v \in Same(u) : thread[u].answer = thread[v].answer
        BY <2>2 DEF Repeats
      <3>2. thread'[u] = thread[u]
        BY <1>1, <1>3, <3>1
      <3>3. PICK v \in Same(u) : thread[u].answer = thread[v].answer
        BY <3>1
      <3>4. thread'[v] = thread[v]
        BY <1>4, <1>5 DEF Same
      <3>5. QED
        BY <2>1, <3>1, <3>2, <3>3, <3>4 DEF Repeats
    <2>3. CASE ~(Same(u) # {} /\ ~Request(u).probe)
      BY <1>2, <2>1, <2>3 DEF Repeats
    <2>4. QED
      BY <2>2, <2>3
  <1>7. CASE u = t /\ thread'[t].settled = Settled
    <2>1. Same(t)' = {v \in Settled : ~Request(v).probe /\ Request(v).id = Request(t).id}
      BY <1>2, <1>7 DEF Same
    <2>2. CASE Replays(t)
      <3>1. /\ IsRemembered(Request(t).id) /\ thread'[t].pc = "done"
            /\ thread'[t].answer = Remembered(Request(t).id) /\ thread'[t].consulted = {}
        BY <2>2 DEF Replays
      <3>2. PICK i \in 1 .. Len(seen) :
              seen[i].id = Request(t).id /\ Remembered(Request(t).id) = seen[i].answer
        BY <3>1, RememberedIs
      <3>3. DOMAIN seen = 1 .. Len(seen)
        BY LenProperties DEF Inv, IsMemory
      <3>4. PICK v \in Threads : /\ Finished(v) /\ Request(v).id = seen[i].id
                                 /\ thread[v].answer = seen[i].answer
        BY <3>3 DEF Complete
      <3>5. v \in Settled /\ ~Request(v).probe
        BY <3>4 DEF Finished, Settled
      <3>6. v \in Same(t)' /\ thread'[v] = thread[v]
        BY <1>4, <2>1, <3>2, <3>4, <3>5
      <3>7. thread'[t].answer = thread'[v].answer
        BY <3>1, <3>2, <3>4, <3>6
      <3>8. QED
        BY <1>7, <3>1, <3>6, <3>7 DEF Repeats
    <2>3. CASE ~Request(t).probe => ~IsRemembered(Request(t).id)
      <3>1. ASSUME NEW v \in Settled, ~Request(v).probe, Request(v).id = Request(t).id,
                   ~Request(t).probe
            PROVE  FALSE
        BY <1>4, <2>3, <3>1 DEF Complete
      <3>2. QED
        BY <1>2, <1>7, <2>1, <3>1 DEF Repeats
    <2>4. Replays(t) \/ (~Request(t).probe => ~IsRemembered(Request(t).id))
            \/ thread'[t].settled = thread[t].settled
      BY DEF OfKind, Moves, GoesOn, Finishes, Ended, Refuses, Starts, Sends, Trims
    <2>5. QED
      BY <1>6, <1>7, <2>2, <2>3, <2>4
  <1>8. QED
    <2>1. CASE u # t
      BY <1>3, <1>6, <2>1
    <2>2. CASE u = t
      BY <1>6, <1>7, <2>2, StepOf
    <2>3. QED
      BY <2>1, <2>2

\* A request that arrives again after it was answered is answered at once as
\* before, and nobody is consulted.
THEOREM Replayed == Spec => []DuplicatesAreReplayed
  <1> DEFINE Kept == Few(case) => \A t \in Delivered : Repeats(t)
  <1>1. Init => Kept
    <2>1. SUFFICES ASSUME Init
                   PROVE  \A t \in Delivered : Repeats(t)
      OBVIOUS
    <2>2. Delivered \subseteq Threads /\ \A t \in Threads : thread[t].settled = {}
      BY <2>1, CasesAre, NoThreadIs DEF Init, IsCase, Delivered
    <2>3. QED
      BY <2>2 DEF Repeats, Same
  <1>2. Inv /\ AllRemembered /\ SettledAreDone /\ Kept /\ [Next]_vars => Kept'
    <2>1. SUFFICES ASSUME Inv, AllRemembered, SettledAreDone, Kept, [Next]_vars
                   PROVE  Kept'
      OBVIOUS
    <2>2. World \/ \E t \in Threads : t \in Delivered /\ OfKind(t)
      BY <2>1, Steps
    <2>3. CASE World
      BY <2>1, <2>3 DEF World, Few, Repeats, Same, Request, Delivered
    <2>4. ASSUME NEW t \in Threads, t \in Delivered, OfKind(t)
          PROVE  Kept'
      <3>1. case' = case
        BY <2>4, StepOf
      <3>2. Delivered' = Delivered /\ (Few(case') <=> Few(case))
        BY <3>1 DEF Delivered
      <3>3. Delivered \subseteq Threads
        BY <2>1, CasesAre DEF Inv, IsCase, Delivered
      <3>4. ASSUME Few(case), NEW u \in Delivered
            PROVE  Repeats(u)'
        BY <2>1, <2>4, <3>3, <3>4, RepeatsKept DEF AllRemembered
      <3>5. QED
        BY <3>2, <3>4
    <2>5. QED
      BY <2>2, <2>3, <2>4
  <1>3. Kept => DuplicatesAreReplayed
    <2>1. {Request(u).id : u \in {v \in Delivered : ~Request(v).probe}} = RequestIds(case)
      BY DEF RequestIds, Request, Delivered
    <2>2. QED
      BY <2>1 DEF DuplicatesAreReplayed, Repeats, Same, Few
  <1>4. QED
    BY <1>1, <1>2, <1>3, Invariance, Remembering, PTL DEF Spec

-----------------------------------------------------------------------------
(* How much is remembered.                                                  *)

\* What a step makes of the memory, and of what its thread accounts for.
LEMMA Stores ==
  ASSUME Inv, NEW t, t \in Delivered, OfKind(t)
  PROVE  \/ Len(seen') = Len(seen) /\ (Exceeds(thread[t]) => Exceeds(thread'[t]))
         \/ Len(seen') = Len(seen) - 1
         \/ ~Over(seen') /\ ~Exceeds(thread[t])
         \/ /\ Len(seen') \in {Len(seen), Len(seen) + 1}
            /\ ~Exceeds(thread[t]) /\ Exceeds(thread'[t])
  <1>1. ASSUME NEW l, Ended(t, l), ~Exceeds(thread[t])
        PROVE  \/ ~Over(seen')
               \/ Len(seen') \in {Len(seen), Len(seen) + 1} /\ Exceeds(thread'[t])
    <2> DEFINE entry == [id |-> Request(t).id, answer |-> thread'[t].answer]
    <2>1. /\ seen' = Stored(entry) /\ EntryIs(case, entry)
          /\ thread'[t].pc = IF Over(seen') THEN "trimming" ELSE "done"
      BY <1>1 DEF Ended
    <2> HIDE DEF entry
    <2>2. IsMemory(case, seen)
      BY DEF Inv
    <2>3. Len(seen') \in {Len(seen), Len(seen) + 1}
      BY <2>1, <2>2, StoredIs
    <2>4. Over(seen') => thread'[t].pc = "trimming"
      BY <2>1
    <2>5. QED
      BY <2>3, <2>4 DEF Exceeds
  <1>2. CASE Moves(t)
    BY <1>2 DEF Moves, GoesOn, Exceeds
  <1>3. CASE Finishes(t)
    <2>1. thread[t].pc \notin {"trimming", "failed"}
      BY <1>3 DEF Finishes
    <2>2. QED
      BY <1>1, <1>3, <2>1 DEF Finishes, Exceeds
  <1>4. CASE Replays(t)
    BY <1>4 DEF Replays, Exceeds
  <1>5. CASE Refuses(t)
    BY <1>1, <1>5 DEF Refuses, Exceeds
  <1>6. CASE Starts(t)
    BY <1>6 DEF Starts, Exceeds
  <1>7. CASE Sends(t)
    BY <1>7 DEF Sends, Exceeds
  <1>8. CASE Trims(t)
    BY <1>8 DEF Trims, Exceeds
  <1>9. QED
    BY <1>2, <1>3, <1>4, <1>5, <1>6, <1>7, <1>8 DEF OfKind

\* There are finitely many threads.
LEMMA DeliveredFinite ==
  ASSUME Inv
  PROVE  Delivered \subseteq Threads /\ IsFiniteSet(Delivered)
  <1>1. Delivered \in SUBSET Threads
    BY CasesAre DEF Inv, IsCase, Delivered
  <1>2. IsFiniteSet(Threads)
    BY BoundsAre, FS_Interval DEF Threads
  <1>3. QED
    BY <1>1, <1>2, FS_Subset

\* The memory exceeds its limit by what is being trimmed, or could not be.
LEMMA ExcessKept ==
  ASSUME Inv, Inv', NEW t \in Threads, t \in Delivered, OfKind(t), ExcessAccounted
  PROVE  ExcessAccounted'
  <1> DEFINE E == Exceeding
             F == Exceeding'
  <1>1. case' = case /\ Only(t)
    BY StepOf
  <1>2. /\ E = {u \in Delivered : Exceeds(thread[u])} /\ F = {u \in Delivered : Exceeds(thread'[u])}
    <2>1. Delivered' = Delivered
      BY <1>1 DEF Delivered
    <2>2. QED
      BY <2>1 DEF Exceeding
  <1>3. E \in SUBSET Delivered /\ F \in SUBSET Delivered
    BY <1>2
  <1>4. \A u \in Delivered \ {t} : u \in E <=> u \in F
    BY <1>1, <1>2, DeliveredFinite DEF Only
  <1>5. (t \in E <=> Exceeds(thread[t])) /\ (t \in F <=> Exceeds(thread'[t]))
    BY <1>2
  <1>6. Len(seen) \in Nat /\ Len(seen') \in Nat
    BY LenProperties DEF Inv, IsMemory
  <1>7. Len(seen) <= RememberLimit + Cardinality(E)
    BY DEF ExcessAccounted
  <1> HIDE DEF E, F
  <1>8. /\ IsFiniteSet(E) /\ Cardinality(E) \in Nat
        /\ IsFiniteSet(F) /\ Cardinality(F) \in Nat
    <2>1. IsFiniteSet(E) /\ IsFiniteSet(F)
      BY <1>3, DeliveredFinite, FS_Subset
    <2>2. QED
      BY <2>1, FS_CardinalityType
  <1>9. CASE Len(seen') = Len(seen) /\ (Exceeds(thread[t]) => Exceeds(thread'[t]))
    <2>1. E \in SUBSET F
      BY <1>3, <1>4, <1>5, <1>9
    <2>2. Cardinality(E) <= Cardinality(F)
      BY <1>8, <2>1, FS_Subset
    <2>3. QED
      BY <1>6, <1>7, <1>8, <1>9, <2>2, BoundsAre DEF ExcessAccounted, F
  <1>10. CASE Len(seen') = Len(seen) - 1
    <2>1. E \ {t} \in SUBSET F
      BY <1>3, <1>4
    <2>2. Cardinality(E \ {t}) <= Cardinality(F)
      BY <1>8, <2>1, FS_Subset
    <2>3. Cardinality(E \ {t}) = IF t \in E THEN Cardinality(E) - 1 ELSE Cardinality(E)
      BY <1>8, FS_RemoveElement
    <2>4. Cardinality(E) - 1 <= Cardinality(F)
      BY <1>8, <2>2, <2>3
    <2>5. QED
      BY <1>6, <1>7, <1>8, <1>10, <2>4, BoundsAre DEF ExcessAccounted, F
  <1>11. CASE ~Over(seen')
    BY <1>6, <1>8, <1>11, BoundsAre DEF ExcessAccounted, Over, F
  <1>12. CASE /\ Len(seen') \in {Len(seen), Len(seen) + 1}
              /\ ~Exceeds(thread[t]) /\ Exceeds(thread'[t])
    <2>1. F = E \cup {t} /\ t \notin E
      BY <1>3, <1>4, <1>5, <1>12
    <2>2. Cardinality(F) = Cardinality(E) + 1
      BY <1>8, <2>1, FS_AddElement
    <2>3. QED
      BY <1>6, <1>7, <1>8, <1>12, <2>2, BoundsAre DEF ExcessAccounted, F
  <1>13. QED
    BY <1>9, <1>10, <1>11, <1>12, Stores

\* The memory never holds more than its limit, but for the answers that are
\* being trimmed and those whose trimming another thread made fail.
THEOREM MemoryBounded == Spec => []MemoryIsBounded
  <1>1. Init => ExcessAccounted
    <2>1. SUFFICES ASSUME Init
                   PROVE  ExcessAccounted
      OBVIOUS
    <2>2. Inv
      BY <2>1, Starting
    <2>3. Len(seen) = 0
      BY <2>1, EmptySeq DEF Init
    <2>4. Exceeding \in SUBSET Delivered
      BY DEF Exceeding
    <2>5. Cardinality(Exceeding) \in Nat
      BY <2>2, <2>4, DeliveredFinite, FS_Subset, FS_CardinalityType
    <2>6. QED
      BY <2>3, <2>5, BoundsAre DEF ExcessAccounted
  <1>2. Inv /\ ExcessAccounted /\ [Next]_vars => ExcessAccounted'
    <2>1. SUFFICES ASSUME Inv, ExcessAccounted, [Next]_vars
                   PROVE  ExcessAccounted'
      OBVIOUS
    <2>2. Inv' /\ (World \/ \E t \in Threads : t \in Delivered /\ OfKind(t))
      BY <2>1, Steps
    <2>3. CASE World
      BY <2>1, <2>3 DEF World, ExcessAccounted, Exceeding, Delivered
    <2>4. QED
      BY <2>1, <2>2, <2>3, ExcessKept
  <1>3. Inv /\ ExcessAccounted => MemoryIsBounded
    <2> DEFINE A == {t \in Delivered : thread[t].pc = "trimming"}
               B == {t \in Delivered : thread[t].pc = "failed" /\ thread[t].oldest # ""}
    <2>1. SUFFICES ASSUME Inv, ExcessAccounted
                   PROVE  MemoryIsBounded
      OBVIOUS
    <2>2. A \in SUBSET Delivered /\ B \in SUBSET Delivered /\ A \cap B = {}
          /\ Exceeding = A \cup B
      BY DEF Exceeding, Exceeds
    <2>3. MemoryIsBounded <=> Len(seen) <= RememberLimit + Cardinality(A) + Cardinality(B)
      BY DEF MemoryIsBounded
    <2> HIDE DEF A, B
    <2>4. IsFiniteSet(A) /\ IsFiniteSet(B)
      BY <2>1, <2>2, DeliveredFinite, FS_Subset
    <2>5. Cardinality(A \cup B) = Cardinality(A) + Cardinality(B) - 0
      BY <2>2, <2>4, FS_Union, FS_EmptySet
    <2>6. Cardinality(A) \in Nat /\ Cardinality(B) \in Nat
      BY <2>4, FS_CardinalityType
    <2>7. QED
      BY <2>1, <2>2, <2>3, <2>5, <2>6, BoundsAre DEF ExcessAccounted
  <1>4. QED
    BY <1>1, <1>2, <1>3, Invariance, PTL DEF Spec
-----------------------------------------------------------------------------
(* Which routes a handoff tries.                                            *)

\* A probe's request is simple, as is what it is handed on with.
ProbesAreSimple == \A t \in Delivered : Request(t).probe => thread[t].decision.complexity = "simple"

\* The failure of a probe's route leaves the decision.
LEMMA TryNextDecides ==
  ASSUME Inv, NEW t \in Threads, Request(t).probe, NEW key, TryNext(t, key)
  PROVE  thread'[t].decision = thread[t].decision
  <1>1. CASE Later(t) # {}
    <2> DEFINE pos == First(Later(t))
    <2>1. thread' = [thread EXCEPT ![t].pc = "sending", ![t].pos = pos]
      BY <1>1 DEF TryNext
    <2> HIDE DEF pos
    <2>2. QED
      BY <2>1, PosSet
  <1>2. CASE Later(t) = {}
    <2> DEFINE n == thread[t].probe + 1
    <2>1. thread' = [thread EXCEPT ![t].pc = "probing", ![t].probe = n]
      BY <1>2 DEF TryNext
    <2> HIDE DEF n
    <2>2. QED
      BY <2>1, ProbeSet
  <1>3. QED
    BY <1>1, <1>2

\* So does all that a thread does for a probe, but to begin.
LEMMA DecisionKept ==
  ASSUME Inv, NEW t \in Threads, Acts(t), Request(t).probe
  PROVE  thread'[t].decision = thread[t].decision \/ thread'[t].decision = NoThread.decision
  <1>1. ASSUME NEW pc, thread' = [thread EXCEPT ![t].pc = pc]
        PROVE  thread'[t].decision = thread[t].decision
    BY <1>1, PcSet
  <1>2. CASE Drop(t)
    BY <1>1, <1>2 DEF Drop
  <1>3. CASE StartProbe(t)
    <2> DEFINE l == IF Gateway.client = "static"
                      THEN [NoThread EXCEPT !.pc = "probing", !.probe = 1, !.settled = Settled]
                      ELSE [NoThread EXCEPT !.pc = "asking", !.consulted = {"jev"},
                                            !.settled = Settled]
    <2>1. thread' = [thread EXCEPT ![t] = l]
      BY <1>3 DEF StartProbe
    <2>2. l.decision = NoThread.decision
      BY DEF NoThread
    <2> HIDE DEF l
    <2>3. QED
      BY <2>1, <2>2, OneThread
  <1>4. CASE \E reply \in Replies(t) : RouteReply(t, reply)
    <2>1. PICK reply \in Replies(t) : RouteReply(t, reply)
      BY <1>4
    <2>2. \/ \E pc \in {"failed", "done"} : thread' = [thread EXCEPT ![t].pc = pc]
          \/ \E key \in {"handoff_unavailable", "handoff_invalid_response"} : TryNext(t, key)
      BY <2>1 DEF RouteReply
    <2>3. QED
      BY <1>1, <2>2, TryNextDecides
  <1>5. CASE Send(t)
    <2>1. CASE TryNext(t, "handoff_unavailable")
      BY <2>1, TryNextDecides
    <2>2. CASE thread' = [thread EXCEPT ![t].pc = "waiting", ![t].consulted = @ \cup {Attempt(t)}]
      <3> DEFINE consulted == thread[t].consulted \cup {Attempt(t)}
      <3>1. thread' = [thread EXCEPT ![t].pc = "waiting", ![t].consulted = consulted]
        BY <2>2
      <3> HIDE DEF consulted
      <3>2. QED
        BY <3>1, ConsultedSet
    <2>3. QED
      BY <1>5, <2>1, <2>2 DEF Send
  <1>6. CASE Trim(t)
    BY <1>1, <1>6 DEF Trim
  <1>7. CASE ProbeAnswered(t)
    BY <1>7, ProbeSet DEF ProbeAnswered
  <1>8. CASE ProbeRoute(t)
    <2> DEFINE n == thread[t].probe
               first == Gateway.routes[n].id
               attempts == AttemptsFrom(t, "simple", first)
    <2>1. CASE thread' = [thread EXCEPT ![t].pc = "done"]
      BY <1>1, <2>1
    <2>2. CASE thread' = [thread EXCEPT ![t] = [@ EXCEPT !.probe = n + 1]]
      <3> DEFINE l == [thread[t] EXCEPT !.probe = n + 1]
      <3>1. thread' = [thread EXCEPT ![t] = l]
        BY <2>2
      <3>2. l.decision = thread[t].decision
        BY ThreadIs DEF Shaped
      <3> HIDE DEF l
      <3>3. QED
        BY <3>1, <3>2, OneThread
    <2>3. CASE thread' = [thread EXCEPT ![t] = HandedOff(thread[t], first, attempts)]
      <3> DEFINE l == HandedOff(thread[t], first, attempts)
      <3>1. thread' = [thread EXCEPT ![t] = l] /\ Shaped(thread[t])
        BY <2>3, ThreadIs
      <3> HIDE DEF first, attempts
      <3>2. l.decision = thread[t].decision
        BY <3>1, HandedOffIs
      <3> HIDE DEF l
      <3>3. QED
        BY <3>1, <3>2, OneThread
    <2>4. QED
      BY <1>8, <2>1, <2>2, <2>3 DEF ProbeRoute
  <1>9. QED
    BY <1>2, <1>3, <1>4, <1>5, <1>6, <1>7, <1>8
       DEF Acts, Step, Replay, Refuse, Consult

\* Only a step of a thread changes it; the case stays.
LEMMA ChangesAreActs ==
  ASSUME Inv, [Next]_vars
  PROVE  case' = case /\ \A t \in Threads : thread'[t] = thread[t] \/ Acts(t)
  <1>1. CASE \E u \in Threads : Acts(u)
    <2>1. PICK u \in Threads : Acts(u)
      BY <1>1
    <2>2. case' = case /\ Only(u)
      BY <2>1, ActsAre, StepOf
    <2>3. QED
      BY <2>1, <2>2 DEF Only
  <1>2. CASE Reconcile \/ Invalidate \/ \E r \in RouteIds(Gateway) : Cooldown(r)
    BY <1>2 DEF Reconcile, Invalidate, Cooldown
  <1>3. CASE UNCHANGED vars
    BY <1>3 DEF vars
  <1>4. QED
    BY <1>1, <1>2, <1>3 DEF Next, Acts

\* No step makes a probe's request any less simple.
LEMMA SimpleKept ==
  ASSUME Inv, ProbesAreSimple, [Next]_vars
  PROVE  ProbesAreSimple'
  <1> SUFFICES ASSUME NEW t \in Delivered', Request(t)'.probe
               PROVE  thread'[t].decision.complexity = "simple"
    BY DEF ProbesAreSimple
  <1>1. case' = case /\ t \in Delivered /\ t \in Threads /\ Request(t).probe
    <2>1. case' = case
      BY ChangesAreActs
    <2>2. QED
      BY <2>1, CasesAre DEF Inv, IsCase, Delivered, Request
  <1>2. NoThread.decision.complexity = "simple"
    BY DEF NoThread, Simple, Decision
  <1>3. QED
    BY <1>1, <1>2, ChangesAreActs, DecisionKept DEF ProbesAreSimple

\* A thread that finishes ends.
LEMMA FinishEnds ==
  ASSUME Inv, NEW t \in Threads, NEW a, Finish(t, a)
  PROVE  thread'[t].pc \in {"trimming", "done"}
  <1> DEFINE entries == Stored([id |-> Request(t).id, answer |-> a])
             pc == IF Over(entries) THEN "trimming" ELSE "done"
             oldest == IF Over(entries) THEN Head(entries).id ELSE ""
             k == Answered(thread[t], a, pc, oldest)
  <1>1. thread' = [thread EXCEPT ![t] = k]
    BY DEF Finish, Ends, Answered
  <1>2. pc \in {"trimming", "done"} /\ Shaped(thread[t])
    BY ThreadIs
  <1> HIDE DEF pc, oldest
  <1>3. k.pc = pc
    BY <1>2, AnsweredIs
  <1> HIDE DEF k
  <1>4. QED
    BY <1>1, <1>2, <1>3, OneThread

\* A handoff starts with the attempts that its first route and the complexity
\* come to.
LEMMA HandoffStarts ==
  ASSUME Inv, ProbesAreSimple, [Next]_vars, NEW t \in Threads, t \in Delivered,
         thread[t].pc \in {"asking", "probing"}, thread'[t].pc = "sending"
  PROVE  LET k == thread'[t]
         IN  /\ k.first \in RouteIds(Gateway)
             /\ k.attempts = AttemptsFrom(t, k.decision.complexity, k.first)
  <1> DEFINE l == thread[t]
             k == thread'[t]
  <1>1. Acts(t) /\ Shaped(l)
    BY ChangesAreActs, ThreadIs
  <1>2. ~ProbeAnswered(t)
    <2>1. ProbeAnswered(t) => thread' = [thread EXCEPT ![t].pc = "probing", ![t].probe = 1]
      BY DEF ProbeAnswered
    <2>2. QED
      BY <2>1, ProbeSet
  <1>3. \/ ~Request(t).probe /\ \E d \in Decisions(t) : Decide(t, d)
        \/ ProbeRoute(t)
    BY <1>1, <1>2
       DEF Acts, Step, Send, Trim, Drop, Replay, Refuse, Consult, StartProbe, Arrives
  <1>4. CASE ~Request(t).probe /\ \E d \in Decisions(t) : Decide(t, d)
    <2>1. PICK d \in Decisions(t) : Decide(t, d)
      BY <1>4
    <2> DEFINE taken == IF d.error = "" THEN d ELSE Simple("delegate")
               first == FirstRoute(t, taken)
               attempts == AttemptsFrom(t, taken.complexity, first)
               m == Keeping(l, taken)
    <2>2. \/ \E verdict \in Verdicts(t, d) : Finish(t, verdict)
          \/ Finish(t, Reply(t, "route_not_allowed"))
          \/ first # "none" /\ thread' = [thread EXCEPT ![t] = HandedOff(m, first, attempts)]
      <3> HIDE DEF taken
      <3>1. PICK verdict \in Verdicts(t, d) :
              IF verdict.key \notin Delegable \/ Gateway.routes = << >> THEN Finish(t, verdict)
              ELSE IF first = "none" THEN Finish(t, Reply(t, "route_not_allowed"))
              ELSE /\ thread' = [thread EXCEPT ![t] =
                        HandedOff([thread[t] EXCEPT !.decision = taken], first, attempts)]
                   /\ UNCHANGED seen
        BY <2>1 DEF Decide, taken
      <3>2. QED
        BY <3>1 DEF Keeping
    <2>3. first # "none" /\ thread' = [thread EXCEPT ![t] = HandedOff(m, first, attempts)]
      <3> HIDE DEF first, attempts, m
      <3>1. QED
        BY <2>2, FinishEnds
    <2> HIDE DEF taken
    <2>4. first \in RouteIds(Gateway)
      BY <1>4, <2>3, FirstRouteTried
    <2>5. Shaped(m) /\ m.decision = taken
      BY <1>1, KeepingIs
    <2> HIDE DEF first, m
    <2>6. k = HandedOff(m, first, attempts)
      <3> DEFINE h == HandedOff(m, first, attempts)
      <3>1. thread' = [thread EXCEPT ![t] = h]
        BY <2>3
      <3> HIDE DEF h
      <3>2. k = h
        BY <3>1, OneThread
      <3>3. QED
        BY <3>2 DEF h
    <2>7. k.first = first /\ k.attempts = attempts /\ k.decision = taken
      <3> HIDE DEF k, attempts
      <3>1. QED
        BY <2>5, <2>6, HandedOffIs
    <2>8. k.first \in RouteIds(Gateway) /\ k.attempts = AttemptsFrom(t, k.decision.complexity, k.first)
      <3> HIDE DEF k
      <3>1. QED
        BY <2>4, <2>7
    <2>9. QED
      BY <2>8
  <1>5. CASE ProbeRoute(t)
    <2> DEFINE n == l.probe
               first == Gateway.routes[n].id
               attempts == AttemptsFrom(t, "simple", first)
    <2>1. l.pc = "probing" /\ Request(t).probe /\ n \in Nat \ {0}
      BY <1>5, ThreadIs DEF ProbeRoute, Typed, Request
    <2>2. thread' # [thread EXCEPT ![t].pc = "done"]
      BY PcSet
    <2>3. thread' # [thread EXCEPT ![t] = [@ EXCEPT !.probe = n + 1]]
      <3> DEFINE h == [l EXCEPT !.probe = n + 1]
      <3>1. h.pc = "probing"
        BY <1>1, <2>1 DEF Shaped
      <3>2. thread' # [thread EXCEPT ![t] = h]
        <4> HIDE DEF h
        <4>1. QED
          BY <3>1, OneThread
      <3>3. QED
        BY <3>2
    <2>4. n <= Len(Gateway.routes) /\ thread' = [thread EXCEPT ![t] = HandedOff(l, first, attempts)]
      <3>1. Len(Gateway.routes) \in Nat
        BY GatewayIs
      <3> HIDE DEF attempts, first
      <3>2. \/ ~(n > Len(Gateway.routes)) /\ thread' = [thread EXCEPT ![t] = HandedOff(l, first, attempts)]
            \/ thread' = [thread EXCEPT ![t].pc = "done"]
            \/ thread' = [thread EXCEPT ![t] = [@ EXCEPT !.probe = n + 1]]
        BY <1>5 DEF ProbeRoute, attempts, first
      <3> HIDE DEF l, n
      <3>3. QED
        BY <2>1, <2>2, <2>3, <3>1, <3>2
    <2>5. first \in RouteIds(Gateway)
      <3>1. n \in DOMAIN Gateway.routes
        BY <2>1, <2>4, GatewayIs
      <3>2. QED
        BY <3>1 DEF RouteIds
    <2>6. l.decision.complexity = "simple"
      BY <2>1 DEF ProbesAreSimple
    <2> HIDE DEF first, n
    <2>7. k = HandedOff(l, first, attempts)
      <3> DEFINE h == HandedOff(l, first, attempts)
      <3>1. thread' = [thread EXCEPT ![t] = h]
        BY <2>4
      <3> HIDE DEF h
      <3>2. k = h
        BY <3>1, OneThread
      <3>3. QED
        BY <3>2 DEF h
    <2>8. k.first = first /\ k.attempts = attempts /\ k.decision = l.decision
      <3> HIDE DEF k, l, attempts
      <3>1. QED
        BY <1>1, <2>7, HandedOffIs
    <2>9. k.first \in RouteIds(Gateway) /\ k.attempts = AttemptsFrom(t, k.decision.complexity, k.first)
      <3> HIDE DEF k, l
      <3>1. QED
        BY <2>5, <2>6, <2>8
    <2>10. QED
      BY <2>9
  <1>6. QED
    BY <1>3, <1>4, <1>5

\* What the failovers of the case lead to is what the order kept for their
\* first route visits.
LEMMA LeadsToIs ==
  ASSUME Inv, NEW first \in RouteIds(Gateway)
  PROVE  LeadsTo(first, FailsOver) = ToSet(Gateway.order[first])
  <1> DEFINE routes == Gateway.routes
             ids == RouteIds(Gateway)
             O == ToSet(Gateway.order[first])
             L == LeadsTo(first, FailsOver)
  <1>1. /\ first \in O /\ O \subseteq ids /\ Followed(routes, O, O)
        /\ \A S \in Leads(routes, ids, first) : O \subseteq S
    <2>1. CompleteOrder(routes, ids, first, Gateway.order[first])
      BY OrderIs
    <2>2. /\ Gateway.order[first] \in Seq(ids) /\ 1 \in DOMAIN Gateway.order[first]
          /\ Gateway.order[first][1] = first
      BY GatewayIs
    <2>3. O \subseteq ids /\ first \in O
      <3>1. DOMAIN Gateway.order[first] = 1 .. Len(Gateway.order[first])
        BY GatewayIs
      <3>2. QED
        BY <2>2, <3>1, ElementOfSeq DEF ToSet
    <2>4. QED
      BY <2>1, <2>3 DEF CompleteOrder
  <1>2. ASSUME NEW p \in FailsOver  PROVE p[1] \in ids /\ p[2] \in FailoversOf(routes, p[1])
    BY DEF FailsOver, FailoversOf
  <1>3. ASSUME NEW r \in ids, NEW b \in FailoversOf(routes, r)
        PROVE  <<r, b>> \in FailsOver
    BY DEF FailsOver, FailoversOf
  <1> HIDE DEF O, routes, ids, L
  <1>4. L \subseteq O
    <2>1. ClosedUnder(O, FailsOver)
      BY <1>1, <1>2 DEF ClosedUnder, Followed
    <2>2. QED
      BY <1>1, <2>1, LeadsToLeast DEF L
  <1>5. O \subseteq L
    <2>1. first \in L /\ ClosedUnder(L, FailsOver)
      BY LeadsToLeast DEF L
    <2>2. Followed(routes, L, L)
      <3>1. ASSUME NEW r \in L, NEW b \in FailoversOf(routes, r)  PROVE b \in L
        <4>1. <<r, b>> \in FailsOver
          BY <1>1, <1>3, <1>4
        <4>2. <<r, b>>[1] \in L => <<r, b>>[2] \in L
          BY <2>1, <4>1 DEF ClosedUnder
        <4>3. QED
          BY <4>2
      <3>2. QED
        BY <3>1 DEF Followed
    <2>3. L \in Leads(routes, ids, first)
      BY <1>1, <1>4, <2>1, <2>2 DEF Leads
    <2>4. QED
      BY <1>1, <2>3
  <1>6. QED
    BY <1>4, <1>5 DEF L, O

\* Of the routes in an order, those that can be used are tried, eight of them
\* at most.
AllTried(order, attempts, fit) ==
  /\ \A i, j \in attempts : order[i] = order[j] => i = j
  /\ {order[i] : i \in attempts} \subseteq fit
  /\ Cardinality(fit) <= MaxAttempts => {order[i] : i \in attempts} = fit

LEMMA OrderedRoutesAre ==
  ASSUME NEW routes, NEW S, NEW order \in Seq(S), Distinct(order), NEW open, NEW envelope,
         NEW attempts, attempts = OrderedRoutes(routes, order, open, envelope),
         NEW fit, fit = {r \in ToSet(order) : Eligible(Route(routes, r), open, envelope)}
  PROVE  AllTried(order, attempts, fit)
  <1> DEFINE usable(i) == Eligible(Route(routes, order[i]), open, envelope)
             upTo(i) == {j \in 1 .. i : usable(j)}
  <1>1. Len(order) \in Nat /\ DOMAIN order = 1 .. Len(order)
    BY LenProperties
  <1>2. attempts = {i \in DOMAIN order : usable(i) /\ Cardinality(upTo(i)) <= MaxAttempts}
    BY DEF OrderedRoutes
  <1>3. \A i \in DOMAIN order : order[i] \in fit <=> usable(i)
    BY DEF ToSet
  <1>4. \A r \in fit : \E i \in DOMAIN order : r = order[i]
    BY DEF ToSet
  <1> HIDE DEF usable
  <1>5. \A i, j \in attempts : order[i] = order[j] => i = j
    BY <1>2 DEF Distinct
  <1>6. {order[i] : i \in attempts} \subseteq fit
    BY <1>2, <1>3
  <1>7. IsFiniteSet(fit)
    <2>1. IsFiniteSet(1 .. Len(order))
      BY <1>1, FS_Interval
    <2>2. IsFiniteSet({order[i] : i \in 1 .. Len(order)})
      BY <2>1, FiniteImage
    <2>3. fit \subseteq {order[i] : i \in 1 .. Len(order)}
      BY <1>1, <1>4
    <2>4. QED
      BY <2>2, <2>3, FS_Subset
  <1>8. ASSUME NEW i \in DOMAIN order, Cardinality(fit) <= MaxAttempts
        PROVE  Cardinality(upTo(i)) <= MaxAttempts
    <2> DEFINE P == upTo(i)
               f == [j \in P |-> order[j]]
    <2>1. \A j \in P : j \in DOMAIN order /\ usable(j)
      BY <1>1
    <2> HIDE DEF P
    <2>2. f \in Injection(P, fit)
      <3>1. f \in [P -> fit]
        BY <1>3, <2>1
      <3>2. \A j, k \in P : f[j] = f[k] => j = k
        BY <2>1 DEF Distinct
      <3> HIDE DEF f
      <3>3. QED
        BY <3>1, <3>2 DEF Injection, IsInjective
    <2>3. IsFiniteSet(P) /\ Cardinality(P) <= Cardinality(fit)
      <3> HIDE DEF f
      <3>1. QED
        BY <1>7, <2>2, FS_Injection
    <2>4. Cardinality(P) \in Nat /\ Cardinality(fit) \in Nat
      BY <1>7, <2>3, FS_CardinalityType
    <2>5. Cardinality(P) <= MaxAttempts
      BY <1>8, <2>3, <2>4 DEF MaxAttempts
    <2>6. QED
      BY <2>5 DEF P
  <1> HIDE DEF upTo
  <1>9. ASSUME Cardinality(fit) <= MaxAttempts
        PROVE  fit \subseteq {order[i] : i \in attempts}
    BY <1>2, <1>3, <1>4, <1>8, <1>9
  <1>10. QED
    BY <1>5, <1>6, <1>9 DEF AllTried

\* A route of the registry can be used as a failover if it is usable: its
\* latency and its cost are within what any failover may take.
LEMMA UsableIs ==
  ASSUME Inv, NEW t, NEW r \in RouteIds(Gateway),
         NEW mode, mode = IF Request(t).probe THEN Gateway.privacy ELSE Mode(t),
         NEW complexity, complexity = thread'[t].decision.complexity
  PROVE  Eligible(Route(Gateway.routes, r), Open,
                  Envelope(complexity, mode, ReplyKinds(t), MaxLatency, NoLimit))
           <=> Usable(Route(Gateway.routes, r), t)
  <1> DEFINE x == Route(Gateway.routes, r)
             e == Envelope(complexity, mode, ReplyKinds(t), MaxLatency, NoLimit)
  <1>1. x.id = r /\ x.latency <= MaxLatency /\ x.cost <= NoLimit
    <2>1. r \in {Gateway.routes[i].id : i \in DOMAIN Gateway.routes}
      BY DEF RouteIds
    <2>2. PICK i \in DOMAIN Gateway.routes : x = Gateway.routes[i] /\ Gateway.routes[i].id = r
      BY <2>1, RouteLookedUp
    <2>3. QED
      BY <2>2, GatewayIs DEF IsGateway
  <1>2. /\ e.kinds = ReplyKinds(t) /\ e.complexity = complexity /\ e.mode = mode
        /\ e.latency = MaxLatency /\ e.cost = NoLimit
    BY DEF Envelope
  <1>3. r \in Open <=> circuit[r].open
    BY DEF Open
  <1> HIDE DEF x, e
  <1>4. Eligible(x, Open, e) <=> Usable(x, t)
    BY <1>1, <1>2, <1>3 DEF Eligible, Supports, RouteAllowed, Usable
  <1>5. QED
    BY <1>4 DEF x, e

\* A handoff that starts will try usable routes that the failovers lead to
\* from its first one, each once, whatever the failovers are, and all of these
\* that are within the budget, unless more than eight are usable.
THEOREM EveryRouteTried == Spec => EveryRouteOnce
  <1>1. Init => ProbesAreSimple
    <2>1. NoThread.decision.complexity = "simple"
      BY DEF NoThread, Simple, Decision
    <2>2. Init => \A t \in Delivered : thread[t] = NoThread
      BY CasesAre DEF Init, IsCase, Delivered
    <2>3. QED
      BY <2>1, <2>2 DEF ProbesAreSimple
  <1>2. Inv /\ ProbesAreSimple /\ [Next]_vars => ProbesAreSimple'
    BY SimpleKept
  <1>3. ASSUME Inv, ProbesAreSimple, [Next]_vars, NEW t \in Delivered,
               thread[t].pc \in {"asking", "probing"}, thread'[t].pc = "sending"
        PROVE  TriesEveryRoute(t)
    <2> DEFINE first == thread'[t].first
               order == Gateway.order[first]
               attempts == thread'[t].attempts
               complexity == thread'[t].decision.complexity
               mode == IF Request(t).probe THEN Gateway.privacy ELSE Mode(t)
               e == Envelope(complexity, mode, ReplyKinds(t), MaxLatency, NoLimit)
               fit == {r \in ToSet(order) : Eligible(Route(Gateway.routes, r), Open, e)}
               usable == {r \in LeadsTo(first, FailsOver) : Usable(Route(Gateway.routes, r), t)}
    <2>1. t \in Threads
      BY <1>3, CasesAre DEF Inv, IsCase, Delivered
    <2>2. first \in RouteIds(Gateway) /\ attempts = AttemptsFrom(t, complexity, first)
      BY <1>3, <2>1, HandoffStarts
    <2>3. attempts = OrderedRoutes(Gateway.routes, order, Open, e)
      BY <2>2 DEF AttemptsFrom
    <2> HIDE DEF first, complexity, attempts, e
    <2>4. order \in Seq(RouteIds(Gateway)) /\ Distinct(order)
      BY <1>3, <2>2, OrderIs DEF CompleteOrder
    <2>5. fit = usable
      <3>1. LeadsTo(first, FailsOver) = ToSet(order)
        BY <1>3, <2>2, LeadsToIs
      <3>2. ToSet(order) \subseteq RouteIds(Gateway)
        BY <2>4, LenProperties, ElementOfSeq DEF ToSet
      <3>3. ASSUME NEW r \in ToSet(order)
            PROVE  Eligible(Route(Gateway.routes, r), Open, e) <=> Usable(Route(Gateway.routes, r), t)
        BY <1>3, <3>2, UsableIs DEF complexity, e
      <3>4. QED
        BY <3>1, <3>3
    <2>6. AllTried(order, attempts, fit)
      <3>1. fit = {r \in ToSet(order) : Eligible(Route(Gateway.routes, r), Open, e)}
        OBVIOUS
      <3> HIDE DEF order, fit
      <3>2. QED
        BY <2>3, <2>4, <3>1, OrderedRoutesAre
    <2>7. QED
      <3> DEFINE tried == {order[i] : i \in attempts}
      <3> HIDE DEF fit, usable, order
      <3>1. /\ \A i, j \in attempts : order[i] = order[j] => i = j
            /\ tried \subseteq usable
            /\ Cardinality(usable) <= MaxAttempts => tried = usable
        BY <2>5, <2>6 DEF AllTried
      <3> HIDE DEF tried
      <3>2. Cardinality(usable) <= MaxAttempts =>
              {r \in usable : WithinBudget(Route(Gateway.routes, r))} \subseteq tried
        BY <3>1
      <3>3. QED
        BY <3>1, <3>2 DEF TriesEveryRoute, first, attempts, usable, order, tried
  <1>4. ASSUME Inv, ProbesAreSimple, [Next]_vars
        PROVE  [\A t \in Delivered :
                  thread[t].pc \in {"asking", "probing"} /\ thread'[t].pc = "sending"
                    => TriesEveryRoute(t)]_vars
    BY <1>3, <1>4
  <1>5. QED
    BY <1>1, <1>2, <1>4, Invariance, PTL DEF Spec, EveryRouteOnce

=============================================================================
