-------------------------- MODULE GatewayOrder_proofs --------------------------
(***************************************************************************)
(* Theorems about the App's profile gate, for any number of threads,       *)
(* snapshots, revisions, invalidations and restarts.                       *)
(***************************************************************************)
EXTENDS GatewayOrder, GatewayProfile_proofs

-----------------------------------------------------------------------------
LEMMA OrderStepIsStep == [OrderNext]_orderVars => [Next]_vars
  BY DEF OrderNext, orderVars

LEMMA TypeInvHolds == OrderSpec => []TypeInv
  <1>1. OrderInit => TypeInv
    BY InitTyped DEF OrderInit
  <1>2. TypeInv /\ [OrderNext]_orderVars => TypeInv'
    BY NextTyped, OrderStepIsStep
  <1>3. QED
    BY <1>1, <1>2, PTL DEF OrderSpec

(***************************************************************************)
(* Every state the gate of the App can be in is well typed, whatever       *)
(* threads run, and however often the process is restarted (TypeOK).       *)
(***************************************************************************)
THEOREM GateTyped == OrderSpec => []TypeOK
  <1>1. TypeInv => TypeOK
    BY DEF TypeInv
  <1>2. QED
    BY <1>1, TypeInvHolds, PTL

-----------------------------------------------------------------------------
(***************************************************************************)
(* The history.  A step of a thread moves this one alone, from one place   *)
(* to another; most places mean nothing to the history.                    *)
(***************************************************************************)
Moves(t, from, to) ==
  /\ thread[t].at = from
  /\ \E work \in Thread : work.at = to /\ Turns(t, work)

HistoryOK ==
  /\ events \in Nat
  /\ number \in [Threads -> 0 .. events]
  /\ since \in [Threads -> Nat]
  /\ acked \subseteq 1 .. events

LEMMA GoesAlone ==
  ASSUME NEW t \in Threads, NEW u \in Threads, NEW from, NEW to, NEW a, NEW b,
         Moves(t, from, to), Goes(u, a, b), a # b
  PROVE  u = t /\ a = from /\ b = to
  BY DEF Moves, Goes, At, Turns

\* What Records amounts to for a step of t.
LEMMA MoveRecords ==
  ASSUME HistoryOK, Records, restarts' = restarts,
         NEW t \in Threads, NEW from, NEW to, Moves(t, from, to), from # to
  PROVE  /\ HistoryOK'
         /\ events' = IF from = "invalidate" /\ to = "bump" THEN events + 1 ELSE events
         /\ \A u \in Threads \ {t} : At(u, "bump") \/ At(u, "compile") =>
              number'[u] = number[u] /\ since'[u] = since[u]
         /\ from = "invalidate" /\ to = "bump" => number'[t] = events + 1
         /\ from = "reconcile" /\ to = "compile" => since'[t] = events
         /\ ~(from = "compile" /\ to = "publish") =>
              UNCHANGED <<covered, straddled, restored>>
         /\ from = "compile" /\ to = "publish" =>
              /\ covered' = 1 .. since[t]
              /\ straddled' = {number[u] : u \in {x \in Threads : At(x, "bump")}}
              /\ restored' = IF latest'.rev = restored THEN NoProfile ELSE restored
  <1>1. \A u \in Threads : Goes(u, from, to) <=> u = t
    BY GoesAlone DEF Moves, Goes, At, Turns
  <1>2. ~Restarting
    BY DEF Restarting
  <1>3. \A a, b : (\E u \in Threads : Goes(u, a, b)) /\ a # b => a = from /\ b = to
    BY GoesAlone
  <1>4. events' = IF from = "invalidate" /\ to = "bump" THEN events + 1 ELSE events
    BY <1>1, <1>3 DEF Records
  <1>5. events' \in Nat /\ events <= events'
    BY <1>4 DEF HistoryOK
  <1>6. number' = [u \in Threads |->
          CASE Goes(u, "invalidate", "bump") -> events'
            [] At(u, "idle")'                -> 0
            [] OTHER                         -> number[u]]
    BY DEF Records
  <1>7. since' = [u \in Threads |->
          CASE Goes(u, "reconcile", "compile") -> events
            [] At(u, "idle")'                  -> 0
            [] OTHER                           -> since[u]]
    BY DEF Records
  <1>8. number' \in [Threads -> 0 .. events']
    BY <1>5, <1>6 DEF HistoryOK
  <1>9. since' \in [Threads -> Nat]
    BY <1>7 DEF HistoryOK
  <1>10. acked' \subseteq 1 .. events'
    BY <1>5 DEF Records, HistoryOK
  <1>11. ASSUME NEW u \in Threads \ {t}, At(u, "bump") \/ At(u, "compile")
         PROVE  number'[u] = number[u] /\ since'[u] = since[u]
    <2>1. thread'[u] = thread[u]
      BY DEF Moves, Turns
    <2>2. ~At(u, "idle")' /\ ~Goes(u, "invalidate", "bump") /\ ~Goes(u, "reconcile", "compile")
      BY <1>11, <2>1 DEF At, Goes
    <2>3. QED
      BY <1>6, <1>7, <2>2
  <1>12. ASSUME from = "invalidate", to = "bump" PROVE number'[t] = events + 1
    <2>1. Goes(t, "invalidate", "bump") /\ ~At(t, "idle")'
      BY <1>1, <1>12 DEF Goes, At
    <2>2. QED
      BY <1>4, <1>6, <1>12, <2>1
  <1>13. ASSUME from = "reconcile", to = "compile" PROVE since'[t] = events
    <2>1. Goes(t, "reconcile", "compile") /\ ~At(t, "idle")'
      BY <1>1, <1>13 DEF Goes, At
    <2>2. QED
      BY <1>7, <2>1
  <1>14. ASSUME ~(from = "compile" /\ to = "publish")
         PROVE  UNCHANGED <<covered, straddled, restored>>
    <2>1. ~Activating
      BY <1>3, <1>14 DEF Activating
    <2>2. QED
      BY <1>2, <2>1 DEF Records
  <1>15. ASSUME from = "compile", to = "publish"
         PROVE  /\ covered' = 1 .. since[t]
                /\ straddled' = {number[u] : u \in {x \in Threads : At(x, "bump")}}
                /\ restored' = IF latest'.rev = restored THEN NoProfile ELSE restored
    <2>1. Activating
      BY <1>1, <1>15 DEF Activating
    <2>2. covered' = 1 .. since[t]
      BY <1>1, <1>15, <2>1 DEF Records
    <2>3. straddled' = {number[u] : u \in {x \in Threads : At(x, "bump")}}
      BY <2>1 DEF Records
    <2>4. restored' = IF latest'.rev = restored THEN NoProfile ELSE restored
      BY <1>2, <2>1 DEF Records
    <2>5. QED
      BY <2>2, <2>3, <2>4
  <1>16. HistoryOK'
    BY <1>5, <1>8, <1>9, <1>10 DEF HistoryOK
  <1>17. QED
    BY <1>4, <1>11, <1>12, <1>13, <1>14, <1>15, <1>16

LEMMA RestartRecords ==
  ASSUME TypeOK, HistoryOK, Records, NEW usable \in BOOLEAN, Restart(usable)
  PROVE  /\ HistoryOK'
         /\ restored' = IF active' # NoProfile THEN active'.rev ELSE restored
  <1>1. \A u \in Threads : thread'[u] = Idle
    BY DEF Restart
  <1>2. Restarting
    BY DEF Restart, Restarting, TypeOK
  <1>3. \A a, b : \A u \in Threads : b # "idle" => ~Goes(u, a, b)
    BY <1>1 DEF Goes, At, Idle
  <1>4. events' = events
    BY <1>3 DEF Records
  <1>5. \A u \in Threads : At(u, "idle")' /\ ~Goes(u, "invalidate", "bump")
                             /\ ~Goes(u, "reconcile", "compile")
    BY <1>1, <1>3 DEF At, Idle
  <1>6. number' = [u \in Threads |-> 0] /\ since' = [u \in Threads |-> 0]
    BY <1>5 DEF Records
  <1>7. acked' = acked
    BY <1>2 DEF Records
  <1>8. ~Activating
    BY <1>3 DEF Activating
  <1>9. restored' = IF active' # NoProfile THEN active'.rev ELSE restored
    BY <1>2, <1>8 DEF Records
  <1>10. HistoryOK'
    BY <1>4, <1>6, <1>7 DEF HistoryOK
  <1>11. QED
    BY <1>9, <1>10

-----------------------------------------------------------------------------
(***************************************************************************)
(* The inductive invariants.  A thread that compiles under the generation  *)
(* of now has, since it began, missed only invalidations that are between  *)
(* their two halves; with nothing pending, and any profile in the process  *)
(* at all, every invalidation is covered or straddled; and whoever holds   *)
(* the revision that was restored holds it marked as stale.                *)
(***************************************************************************)
Pursued(t) ==
  At(t, "compile") =>
    /\ thread[t].gen <= generation
    /\ thread[t].gen = generation =>
         \A n \in 1 .. events :
           n <= since[t] \/ \E u \in Threads : At(u, "bump") /\ number[u] = n

Present ==
  \/ active # NoProfile
  \/ latest # NoProfile
  \/ \E t \in Threads : thread[t].prof # NoProfile

Accounted == ~pending /\ Present => 1 .. events \subseteq covered \cup straddled

Aged(p) == p # NoProfile /\ p.rev = restored => p.status = "stale"

AgedInv ==
  /\ restored \in Revisions \cup {NoProfile}
  /\ Aged(active) /\ Aged(latest)
  /\ \A t \in Threads : Aged(thread[t].prof)

OrderInv ==
  /\ HistoryOK
  /\ \A t \in Threads : Pursued(t)
  /\ Accounted

LEMMA InitOrder == OrderInit => OrderInv /\ AgedInv
  <1> SUFFICES ASSUME OrderInit PROVE OrderInv /\ AgedInv
    OBVIOUS
  <1>1. \A t \in Threads : thread[t] = Idle
    BY DEF OrderInit, Init
  <1>2. HistoryOK
    BY DEF OrderInit, HistoryOK
  <1>3. \A t \in Threads : Pursued(t)
    BY <1>1 DEF Pursued, At, Idle
  <1>4. ~Present
    BY <1>1 DEF Present, OrderInit, Init, Idle
  <1>5. AgedInv
    BY <1>1 DEF AgedInv, Aged, OrderInit, Init, Idle
  <1>6. QED
    BY <1>2, <1>3, <1>4, <1>5 DEF OrderInv, Accounted

\* A compilation is pursued through every step: an invalidation that comes in
\* is at its bump, and one that goes on raises the generation.
LEMMA PursuitGoesOn ==
  ASSUME TypeOK, OrderInv, Records, restarts' = restarts,
         NEW t \in Threads, NEW from, NEW to, Moves(t, from, to), from # to,
         IF from = "bump" THEN generation' = generation + 1 ELSE generation' = generation,
         to = "compile" => from = "reconcile" /\ thread'[t].gen = generation
  PROVE  \A u \in Threads : Pursued(u)'
  <1> SUFFICES ASSUME NEW u \in Threads, At(u, "compile")' PROVE Pursued(u)'
    BY DEF Pursued
  <1>0. /\ HistoryOK
        /\ generation \in Nat /\ events \in Nat
        /\ thread[u].gen \in Nat /\ since[u] \in Nat
    BY ThreadFields DEF OrderInv, HistoryOK, TypeOK
  <1>1. CASE u = t
    <2>1. to = "compile"
      BY <1>1 DEF Moves, Turns, At
    <2>2. generation' = generation /\ thread'[u].gen = generation
      BY <1>1, <2>1
    <2>3. since'[u] = events /\ events' = events
      BY <1>0, <1>1, <2>1, MoveRecords
    <2>4. QED
      BY <1>0, <2>2, <2>3 DEF Pursued
  <1>2. CASE u # t
    <2>1. thread'[u] = thread[u] /\ At(u, "compile")
      BY <1>2 DEF Moves, Turns, At
    <2>2. since'[u] = since[u]
      BY <1>0, <1>2, <2>1, MoveRecords
    <2>3. /\ thread[u].gen <= generation
          /\ thread[u].gen = generation =>
               \A n \in 1 .. events :
                 n <= since[u] \/ \E x \in Threads : At(x, "bump") /\ number[x] = n
      BY <2>1 DEF OrderInv, Pursued
    <2>4. CASE from = "bump"
      BY <1>0, <2>1, <2>3, <2>4 DEF Pursued
    <2>5. CASE from # "bump"
      <3>1. \A x \in Threads : At(x, "bump") => At(x, "bump")' /\ number'[x] = number[x]
        <4>1. \A x \in Threads : At(x, "bump") => x # t
          BY <2>5 DEF Moves, At
        <4>2. QED
          BY <1>0, <4>1, MoveRecords DEF Moves, Turns, At
      <3>2. CASE from = "invalidate" /\ to = "bump"
        <4>1. events' = events + 1 /\ number'[t] = events + 1
          BY <1>0, <3>2, MoveRecords
        <4>2. At(t, "bump")'
          BY <3>2 DEF Moves, Turns, At
        <4>3. ASSUME NEW n \in 1 .. events', thread[u].gen = generation
              PROVE  n <= since[u] \/ \E x \in Threads : At(x, "bump")' /\ number'[x] = n
          <5>1. CASE n = events + 1
            BY <4>1, <4>2, <5>1
          <5>2. CASE n # events + 1
            <6>1. n \in 1 .. events
              BY <1>0, <4>1, <5>2
            <6>2. QED
              BY <2>3, <3>1, <4>3, <6>1
          <5>3. QED
            BY <5>1, <5>2
        <4>4. QED
          BY <2>1, <2>2, <2>3, <2>5, <4>3 DEF Pursued
      <3>3. CASE ~(from = "invalidate" /\ to = "bump")
        <4>1. events' = events
          BY <1>0, <3>3, MoveRecords
        <4>2. QED
          BY <2>1, <2>2, <2>3, <2>5, <3>1, <4>1 DEF Pursued
      <3>4. QED
        BY <3>2, <3>3
    <2>6. QED
      BY <2>4, <2>5
  <1>3. QED
    BY <1>1, <1>2

\* A step that activates nothing: what it leaves in the shared state was there
\* before, or is marked as stale.
LEMMA QuietMove ==
  ASSUME TypeOK, OrderInv, AgedInv, Records, restarts' = restarts,
         NEW t \in Threads, NEW from, NEW to, Moves(t, from, to), from # to,
         IF from = "bump" THEN generation' = generation + 1 ELSE generation' = generation,
         to = "compile" => from = "reconcile" /\ thread'[t].gen = generation,
         ~(from = "compile" /\ to = "publish"),
         pending' = TRUE \/ (pending' = pending /\ from # "invalidate"),
         Aged(active'), Aged(latest'), Aged(thread'[t].prof),
         (active' # NoProfile \/ latest' # NoProfile \/ thread'[t].prof # NoProfile)
           => Present
  PROVE  OrderInv' /\ AgedInv'
  <1>1. HistoryOK' /\ UNCHANGED <<covered, straddled, restored>>
    BY MoveRecords DEF OrderInv
  <1>2. \A u \in Threads : Pursued(u)'
    BY PursuitGoesOn
  <1>3. \A u \in Threads \ {t} : thread'[u] = thread[u]
    BY DEF Moves, Turns
  <1>4. Accounted'
    <2>1. CASE pending' = TRUE
      BY <2>1 DEF Accounted
    <2>2. CASE pending' = pending /\ from # "invalidate"
      <3>1. events' = events
        BY <2>2, MoveRecords DEF OrderInv
      <3>2. Present' => Present
        BY <1>3 DEF Present
      <3>3. QED
        BY <1>1, <2>2, <3>1, <3>2 DEF OrderInv, Accounted
    <2>3. QED
      BY <2>1, <2>2
  <1>5. AgedInv'
    <2>1. restored' = restored
      BY <1>1
    <2>2. ASSUME NEW u \in Threads PROVE Aged(thread[u].prof)'
      BY <1>3, <2>1 DEF AgedInv, Aged
    <2>3. QED
      BY <2>1, <2>2 DEF AgedInv, Aged
  <1>6. QED
    BY <1>1, <1>2, <1>4, <1>5 DEF OrderInv

LEMMA ActivateKeeps ==
  ASSUME TypeInv, OrderInv, AgedInv, Records,
         NEW t \in Threads, NEW rev \in Revisions, Activate(t, rev)
  PROVE  OrderInv' /\ AgedInv'
  <1> DEFINE work == Work("publish", 0, NoProfile, latest')
  <1>0. /\ TypeOK /\ HistoryOK
        /\ restarts' = restarts /\ generation' = generation
        /\ active' = active
    BY DEF TypeInv, OrderInv, Activate
  <1>1. latest' \in Profile /\ latest'.rev = rev /\ Turns(t, work)
    BY ActivateStep
  <1>2. work.at = "publish" /\ work.prof = latest' /\ work \in Thread
    BY <1>0, <1>1, WorkTyped DEF Work
  <1>3. Moves(t, "compile", "publish")
    BY <1>1, <1>2 DEF Moves, Activate, At
  <1>4. /\ HistoryOK'
        /\ events' = events
        /\ covered' = 1 .. since[t]
        /\ straddled' = {number[u] : u \in {x \in Threads : At(x, "bump")}}
        /\ restored' = IF latest'.rev = restored THEN NoProfile ELSE restored
    BY <1>0, <1>3, MoveRecords
  <1>5. \A u \in Threads : Pursued(u)'
    BY <1>0, <1>3, PursuitGoesOn
  <1>6. Accounted'
    <2>1. \A n \in 1 .. events :
            n <= since[t] \/ \E u \in Threads : At(u, "bump") /\ number[u] = n
      BY DEF OrderInv, Pursued, Activate, At
    <2>2. since[t] \in Nat /\ events \in Nat
      BY <1>0 DEF HistoryOK
    <2>3. \A n \in 1 .. events : n \in 1 .. since[t] \/ n \in straddled'
      BY <1>4, <2>1, <2>2
    <2>4. QED
      BY <1>4, <2>3 DEF Accounted
  <1>7. AgedInv'
    <2>1. CASE rev = restored
      <3>1. restored' = NoProfile
        BY <1>1, <1>4, <2>1
      <3>2. ASSUME NEW p \in Profile \cup {NoProfile}, p # NoProfile
            PROVE  p.rev # NoProfile
        BY <3>2, RevisionsAssumption DEF Profile
      <3>3. /\ active' \in Profile \cup {NoProfile}
            /\ \A u \in Threads : thread'[u].prof \in Profile \cup {NoProfile}
        BY <1>0, <1>1, <1>2, ThreadFields DEF Turns, TypeOK
      <3>4. QED
        BY <1>1, <3>1, <3>2, <3>3 DEF AgedInv, Aged
    <2>2. CASE rev # restored
      <3>1. restored' = restored
        BY <1>1, <1>4, <2>2
      <3>2. Aged(latest)'
        BY <1>1, <2>2, <3>1 DEF Aged
      <3>3. ASSUME NEW u \in Threads PROVE Aged(thread[u].prof)'
        <4>1. CASE u = t
          BY <1>1, <1>2, <3>2, <4>1 DEF Turns, Aged
        <4>2. CASE u # t
          BY <1>1, <3>1, <4>2 DEF Turns, AgedInv, Aged
        <4>3. QED
          BY <4>1, <4>2
      <3>4. QED
        BY <1>0, <3>1, <3>2, <3>3 DEF AgedInv, Aged
    <2>3. QED
      BY <2>1, <2>2
  <1>8. QED
    BY <1>4, <1>5, <1>6, <1>7 DEF OrderInv

LEMMA RestartKeeps ==
  ASSUME TypeInv, OrderInv, AgedInv, Records,
         NEW usable \in BOOLEAN, Restart(usable)
  PROVE  OrderInv' /\ AgedInv'
  <1>0. TypeOK /\ HistoryOK
    BY DEF TypeInv, OrderInv
  <1>1. /\ HistoryOK'
        /\ restored' = IF active' # NoProfile THEN active'.rev ELSE restored
    BY <1>0, RestartRecords
  <1>2. \A u \in Threads : thread'[u] = Idle
    BY DEF Restart
  <1>3. \A u \in Threads : Pursued(u)' /\ thread'[u].prof = NoProfile
    BY <1>2 DEF Pursued, At, Idle
  <1>4. /\ latest' = active'
        /\ active' # NoProfile => pending' = TRUE /\ active' \in Profile /\ active'.status = "stale"
    BY <1>0, StaleTyped DEF Restart, TypeOK
  <1>5. Accounted'
    BY <1>3, <1>4 DEF Accounted, Present
  <1>6. restored' \in Revisions \cup {NoProfile}
    BY <1>1, <1>4 DEF AgedInv, Profile
  <1>7. AgedInv'
    BY <1>3, <1>4, <1>6 DEF AgedInv, Aged
  <1>8. QED
    BY <1>1, <1>3, <1>5, <1>7 DEF OrderInv

LEMMA WorkMoves ==
  ASSUME NEW t \in Threads, NEW to, NEW g, NEW snap, NEW p,
         Turns(t, Work(to, g, snap, p))
  PROVE  /\ Moves(t, thread[t].at, to)
         /\ thread'[t].prof = p
         /\ thread'[t].gen = g
  <1>1. thread'[t] \in Thread /\ thread'[t] = Work(to, g, snap, p)
    BY DEF Turns
  <1>2. /\ Work(to, g, snap, p).at = to
        /\ Work(to, g, snap, p).prof = p
        /\ Work(to, g, snap, p).gen = g
    BY DEF Work
  <1>3. QED
    BY <1>1, <1>2 DEF Moves

LEMMA Held ==
  ASSUME AgedInv
  PROVE  /\ Aged(NoProfile)
         /\ Aged(active) /\ (active # NoProfile => Present)
         /\ Aged(latest) /\ (latest # NoProfile => Present)
         /\ \A t \in Threads :
              Aged(thread[t].prof) /\ (thread[t].prof # NoProfile => Present)
  BY DEF AgedInv, Aged, Present

LEMMA NextOrder ==
  TypeInv /\ OrderInv /\ AgedInv /\ [OrderNext]_orderVars => OrderInv' /\ AgedInv'
  <1> SUFFICES ASSUME TypeInv, OrderInv, AgedInv, [OrderNext]_orderVars
               PROVE  OrderInv' /\ AgedInv'
    OBVIOUS
  <1>0. TypeOK
    BY DEF TypeInv
  <1> DEFINE Good == OrderInv' /\ AgedInv'
             Fine(p) == Aged(p) /\ (p # NoProfile => Present)
  <1>1. /\ Fine(NoProfile) /\ Fine(active) /\ Fine(latest)
        /\ \A t \in Threads : Fine(thread[t].prof)
    BY Held
  <1>2. ASSUME Records, NEW t \in Threads, NEW to, NEW g, NEW snap, NEW p,
               Turns(t, Work(to, g, snap, p)), thread[t].at # to,
               restarts' = restarts,
               IF thread[t].at = "bump" THEN generation' = generation + 1
                                        ELSE generation' = generation,
               to = "compile" => thread[t].at = "reconcile" /\ g = generation,
               thread[t].at # "compile" \/ to # "publish",
               pending' = TRUE \/ (pending' = pending /\ thread[t].at # "invalidate"),
               Fine(active'), Fine(latest'), Fine(p)
        PROVE  Good
    <2>1. Moves(t, thread[t].at, to) /\ thread'[t].prof = p /\ thread'[t].gen = g
      BY <1>2, WorkMoves
    <2>2. QED
      BY <1>0, <1>2, <2>1, QuietMove
  <1>3. ASSUME Records, NEW t \in Threads, NEW s \in Snapshots, PostReconcile(t, s)
        PROVE  Good
    <2>1. Turns(t, Work("reconcile", 0, s, NoProfile))
      BY <1>0, <1>3, PostReconcileStep
    <2>2. QED
      BY <1>1, <1>2, <1>3, <2>1 DEF PostReconcile, At
  <1>4. ASSUME Records, NEW t \in Threads, PostInvalidate(t) PROVE Good
    <2>1. Turns(t, Work("invalidate", 0, NoProfile, NoProfile))
      BY <1>0, <1>4, PostInvalidateStep
    <2>2. QED
      BY <1>1, <1>2, <1>4, <2>1 DEF PostInvalidate, At
  <1>5. ASSUME Records, NEW t \in Threads, BeginCompile(t) PROVE Good
    <2>1. Turns(t, Work("compile", generation, thread[t].snap, thread[t].prof))
      BY <1>0, <1>5, BeginCompileStep
    <2>2. QED
      BY <1>1, <1>2, <1>5, <2>1 DEF BeginCompile, At
  <1>6. ASSUME Records, NEW t \in Threads, NEW rev \in Revisions, Activate(t, rev)
        PROVE  Good
    BY <1>6, ActivateKeeps
  <1>7. ASSUME Records, NEW t \in Threads, Supersede(t) PROVE Good
    <2>1. Turns(t, Work("superseded", 0, NoProfile, NoProfile))
      BY <1>0, <1>7, SupersedeStep
    <2>2. QED
      BY <1>1, <1>2, <1>7, <2>1 DEF Supersede, At
  <1>8. ASSUME Records, NEW t \in Threads, ReturnLatest(t) PROVE Good
    <2>1. CASE Turns(t, Work("idle", 0, NoProfile, NoProfile))
      BY <1>1, <1>2, <1>8, <2>1 DEF ReturnLatest, At
    <2>2. CASE Turns(t, Work("publish", 0, NoProfile, latest))
      BY <1>1, <1>2, <1>8, <2>2 DEF ReturnLatest, At
    <2>3. QED
      BY <1>0, <1>8, <2>1, <2>2, ReturnLatestStep
  <1>9. ASSUME Records, NEW t \in Threads, Publish(t) PROVE Good
    <2>1. Turns(t, Work("save", thread[t].gen, thread[t].snap, thread[t].prof))
      BY <1>0, <1>9, GoToStep DEF Publish
    <2>2. QED
      BY <1>1, <1>2, <1>9, <2>1 DEF Publish, At
  <1>10. ASSUME Records, NEW t \in Threads, Ingest(t) PROVE Good
    <2>1. Turns(t, Work("bump", thread[t].gen, thread[t].snap, thread[t].prof))
      BY <1>0, <1>10, GoToStep DEF Ingest
    <2>2. QED
      BY <1>1, <1>2, <1>10, <2>1 DEF Ingest, At
  <1>11. ASSUME Records, NEW t \in Threads, Bump(t) PROVE Good
    <2>1. Turns(t, Work("mark", thread[t].gen, thread[t].snap, thread[t].prof))
      BY <1>0, <1>11, GoToStep DEF Bump
    <2>2. QED
      BY <1>1, <1>2, <1>11, <2>1 DEF Bump, At
  <1>12. ASSUME Records, NEW t \in Threads, Mark(t) PROVE Good
    <2>1. CASE Turns(t, Work("status", thread[t].gen, thread[t].snap, thread[t].prof))
      BY <1>1, <1>2, <1>12, <2>1 DEF Mark, At
    <2>2. CASE active \in Profile /\ Turns(t, Work("assign", 0, NoProfile, Stale(active)))
      <3>1. Fine(Stale(active))
        BY <1>1, <2>2, StaleTyped, NoProfileIsNone DEF Aged
      <3>2. QED
        BY <1>1, <1>2, <1>12, <2>2, <3>1 DEF Mark, At
    <2>3. QED
      BY <1>0, <1>12, <2>1, <2>2, MarkStep
  <1>13. ASSUME Records, NEW t \in Threads, Assign(t) PROVE Good
    <2>1. Turns(t, Work("save", thread[t].gen, thread[t].snap, thread[t].prof))
      BY <1>0, <1>13, GoToStep DEF Assign
    <2>2. QED
      BY <1>1, <1>2, <1>13, <2>1 DEF Assign, At
  <1>14. ASSUME Records, NEW t \in Threads, Save(t) PROVE Good
    <2>1. Turns(t, Work("status", 0, NoProfile, NoProfile))
      BY <1>0, <1>14, SaveStep
    <2>2. QED
      BY <1>1, <1>2, <1>14, <2>1 DEF Save, At
  <1>15. ASSUME Records, NEW t \in Threads, SaveFails(t) \/ Answer(t) PROVE Good
    <2>1. Turns(t, Work("idle", 0, NoProfile, NoProfile))
      BY <1>0, <1>15, IdleStep
    <2>2. QED
      BY <1>1, <1>2, <1>15, <2>1 DEF SaveFails, Answer, At
  <1>16. ASSUME Records, NEW usable \in BOOLEAN, Restart(usable) PROVE Good
    BY <1>16, RestartKeeps
  <1>17. CASE UNCHANGED orderVars
    BY <1>17
    DEF orderVars, vars, history, OrderInv, HistoryOK, Pursued, At, Accounted, Present,
        AgedInv, Aged
  <1>18. CASE OrderNext
    BY <1>3, <1>4, <1>5, <1>6, <1>7, <1>8, <1>9, <1>10, <1>11, <1>12, <1>13, <1>14,
       <1>15, <1>16, <1>18
    DEF OrderNext, Next, Request, Reconcile, Invalidate, Store
  <1>19. QED
    BY <1>17, <1>18

LEMMA InvariantsHold == OrderSpec => [](TypeInv /\ OrderInv /\ AgedInv)
  <1>1. OrderInit => OrderInv /\ AgedInv
    BY InitOrder
  <1>2. QED
    BY <1>1, NextOrder, TypeInvHolds, PTL DEF OrderSpec

(***************************************************************************)
(* A profile read back from the disk opens the gate in no order of the new *)
(* process's threads: gateway.py:127 marks it as stale, and no publication *)
(* or assignment takes the mark off (RestoredNeverServes).                 *)
(***************************************************************************)
THEOREM RestoredProfilesNeverServe == OrderSpec => []RestoredNeverServes
  <1>1. TypeInv /\ AgedInv => RestoredNeverServes
    <2> SUFFICES ASSUME TypeInv, AgedInv, GateOpen PROVE active.rev # restored
      BY DEF RestoredNeverServes
    <2>1. active # NoProfile /\ active.status = "active"
      BY DEF GateOpen
    <2>2. QED
      BY <2>1 DEF AgedInv, Aged
  <1>2. QED
    BY <1>1, InvariantsHold, PTL

(***************************************************************************)
(* The generation check of ChangeMonitor.reconcile loses an answered       *)
(* invalidation only if the activation fell between its two halves, for    *)
(* any number of handler threads (OnlyStraddlersAreLost).                  *)
(***************************************************************************)
THEOREM OnlyStraddlersGetLost == OrderSpec => []OnlyStraddlersAreLost
  <1>1. OrderInv => OnlyStraddlersAreLost
    BY DEF OrderInv, Accounted, Present, HistoryOK, OnlyStraddlersAreLost, GateOpen
  <1>2. QED
    BY <1>1, InvariantsHold, PTL
=============================================================================
