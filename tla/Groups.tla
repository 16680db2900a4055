------------------------------- MODULE Groups -------------------------------
(***************************************************************************)
(* What one sentence may set in motion.  Home Assistant's groups, nested   *)
(* as they come, are resolved to members when a profile is compiled        *)
(* (profile.py); a sentence that names a group, or a plural and a place,   *)
(* becomes one bounded batch (batch.py); and a fallback's proposal counts  *)
(* only for a device the sentence names, with a verb of the operation.     *)
(*                                                                         *)
(* A sentence is a record of what the code's regular expressions find in   *)
(* it: names (of devices, places, groups), ops (operations whose words it  *)
(* has), plurals (domains), the action of "turn ... on/off" or "none", and *)
(* whether it has "group", turn/switch, a negation, "all" or "the lights". *)
(***************************************************************************)
EXTENDS Catalogue, SequencesExt

CONSTANT MaxMembers   \* members of a group, targets of a batch: 32

-----------------------------------------------------------------------------
(* _compile_groups.  The empty set stands for an unsafe group.              *)

GroupNamed(snapshot, ref) == CHOOSE g \in snapshot.groups : g.ref = ref
IsGroup(snapshot, ref) == \E g \in snapshot.groups : g.ref = ref

ValidShape(snapshot, g) ==
  /\ Len(g.members) <= MaxMembers
  /\ IsInjective(g.members)
  /\ ~\E e \in snapshot.entities : e.ref = g.ref

\* Read from the normalized entities: exposed or not, each of them has a row.
SafeMember(snapshot, ref) ==
  \E e \in snapshot.entities :
    e.ref = ref /\ e.exposed /\ e.available /\ e.risk = "routine" /\ e.operations # {}

\* What the i-th member stands for; inner maps the groups to what they hold.
Part(snapshot, g, inner, i) ==
  LET ref == g.members[i]
  IN  IF IsGroup(snapshot, ref) THEN inner[GroupNamed(snapshot, ref)]
      ELSE IF SafeMember(snapshot, ref) THEN {ref} ELSE {}

\* Mutant: an unsafe group inside a group is passed over.
JoinedLenient(snapshot, g, inner) ==
  LET part(i) == Part(snapshot, g, inner, i)
      N == DOMAIN g.members
  IN  IF \E i, j \in N : i # j /\ part(i) \cap part(j) # {} THEN {}
      ELSE UNION {part(i) : i \in N}

\* What the members come to, if none is unsafe or counted twice.  The bound
\* is looked at when an entity is added, not when a nested group is: what a
\* last nested group adds may exceed it.
Joined(snapshot, g, inner) ==
  LET part(i) == Part(snapshot, g, inner, i)
      N == DOMAIN g.members
  IN  IF \/ \E i \in N : part(i) = {}
         \/ \E i \in N : /\ ~IsGroup(snapshot, g.members[i])
                         /\ Cardinality(UNION {part(j) : j \in 1 .. i}) > MaxMembers
         \/ \E i, j \in N : i # j /\ part(i) \cap part(j) # {}
        THEN {}
        ELSE UNION {part(i) : i \in N}

MaxNesting == 32

\* within[n] is what each group holds below those being visited, if n more
\* may be visited.  (The code resolves a group once: one that was first met
\* too deep stays unsafe, here only for the groups that lead there.)
Resolve(snapshot) ==
  LET refs == {g.ref : g \in snapshot.groups}
      within[n \in Nat] ==
        [g \in snapshot.groups |-> [visiting \in SUBSET refs |->
           IF n = 0 \/ ~ValidShape(snapshot, g) \/ g.ref \in visiting THEN {}
           ELSE Joined(snapshot, g,
                  [h \in snapshot.groups |-> within[n - 1][h][visiting \cup {g.ref}]])]]
  IN  [g \in snapshot.groups |-> within[MaxNesting][g][{}]]

CompiledGroups(snapshot) ==
  {[ref |-> g.ref, name |-> g.name, members |-> Resolve(snapshot)[g]] :
     g \in snapshot.groups}

\* ProfileGroup refuses more members than the bound, and with it the whole
\* compilation fails.
Compiles(snapshot) ==
  \A g \in CompiledGroups(snapshot) : Cardinality(g.members) <= MaxMembers

-----------------------------------------------------------------------------
(* build_batch_group: no batch, a batch, or the error that refuses it.      *)

NoBatch == [error |-> "", members |-> {}, op |-> ""]
BatchError(code) == [NoBatch EXCEPT !.error = code]
Bounded(found, op) ==
  IF \E c \in found : ~c.available \/ c.risk # "routine"
    THEN BatchError("batch_target_unavailable")
    ELSE [NoBatch EXCEPT !.members = {c.id : c \in found}, !.op = op]

GroupBatch(s, capabilities, groups) ==
  LET named == {g \in groups : g.name \in s.names}
      group == CHOOSE g \in named : TRUE
      found == {c \in capabilities :
                  c.id[1] \in group.members /\ c.operation = s.action}
  IN  IF named = {} THEN BatchError("batch_group_unknown")
      ELSE IF Cardinality(named) > 1 THEN BatchError("batch_scope_ambiguous")
      ELSE IF group.members = {} THEN BatchError("batch_group_invalid")
      ELSE IF s.action = "none" THEN BatchError("batch_scope_ambiguous")
      ELSE IF Cardinality(found) # Cardinality(group.members)
        THEN BatchError("batch_target_unavailable")
      ELSE Bounded(found, s.action)

Kinds == {"area", "floor", "label"}

\* The places of the domain that the sentence names.
Named(s, capabilities, domain, kind) ==
  s.names \cap UNION {c.scopes[kind] : c \in {x \in capabilities : x.domain = domain}}

PluralBatch(s, capabilities) ==
  LET domain == CHOOSE d \in s.plurals : TRUE
      places == [k \in Kinds |-> Named(s, capabilities, domain, k)]
      scoped == {k \in Kinds : places[k] # {}}
      found  == {c \in capabilities :
                   /\ c.domain = domain /\ c.operation = s.action
                   /\ \A k \in scoped : places[k] \subseteq c.scopes[k]}
  IN  IF s.plurals = {} THEN NoBatch
      ELSE IF Cardinality(s.plurals) > 1 \/ s.negated THEN BatchError("batch_scope_ambiguous")
      ELSE IF ~s.verb THEN NoBatch
      ELSE IF s.action = "none" THEN BatchError("batch_scope_ambiguous")
      ELSE IF \/ \E k \in scoped : Cardinality(places[k]) > 1
              \/ Cardinality(scoped) > 1
        THEN BatchError("batch_scope_ambiguous")
      ELSE IF scoped = {} /\ ~s.all THEN NoBatch
      ELSE IF found = {} THEN BatchError("batch_no_targets")
      ELSE IF Cardinality(found) > MaxMembers THEN BatchError("batch_too_large")
      ELSE Bounded(found, s.action)

BatchGroup(s, capabilities, groups) ==
  IF s.group THEN GroupBatch(s, capabilities, groups) ELSE PluralBatch(s, capabilities)

\* The one candidate that stands for the batch; no entity has this name.
BatchId(batch) == <<"batch", batch.op>>

-----------------------------------------------------------------------------
\* _fallback_single_matches: names hold the devices' names, which here are
\* their references, and ops only operations that have words of their own.
FallbackMatches(s, id) == id[2] \in s.ops /\ id[1] \in s.names

Prefix(s, n) == SubSeq(s, 1, IF Len(s) < n THEN Len(s) ELSE n)

\* _handoff_candidates: what the sentence matches goes first.
HandoffFacts(s, candidates, maxFacts) ==
  LET matching == SelectSeq(candidates, LAMBDA id : FallbackMatches(s, id))
      others   == SelectSeq(candidates, LAMBDA id : ~FallbackMatches(s, id))
  IN  ToSet(Prefix(matching \o others, maxFacts))
=============================================================================
