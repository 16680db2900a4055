-------------------------- MODULE Coordinator_proofs --------------------------
(***************************************************************************)
(* Theorems about Coordinator, for any number of recovery ticks, event     *)
(* types, revisions, attempts, batches, changes and failures.              *)
(***************************************************************************)
EXTENDS Coordinator, TLAPS

(* The tasks of the code are tasks of the model. *)
LEMMA TasksTyped ==
  /\ {"start", "flush", "periodic", "scan", "direct"} \subseteq Tasks
  /\ Ticks \subseteq Tasks
  BY DEF Tasks

(***************************************************************************)
(* Every variable keeps its type.                                          *)
(***************************************************************************)
LEMMA InitTyped == Init => TypeOK
  BY RevisionAssumption DEF Init, TypeOK, NoMap, NoRun, Tasks

LEMMA NextTyped == TypeOK /\ [Next]_vars => TypeOK'
  <1> SUFFICES ASSUME TypeOK, [Next]_vars
               PROVE  TypeOK'
    OBVIOUS
  <1> USE TasksTyped DEF TypeOK
  <1>1. ASSUME NEW k \in Kinds, RegistryChange(k)
        PROVE  TypeOK'
    <2>1. CASE life = "running" /\ pc["flush"] = "idle"
      BY <1>1, <2>1 DEF RegistryChange, OnEvent
    <2>2. CASE life = "running" /\ pc["flush"] # "idle"
      BY <1>1, <2>2 DEF RegistryChange, OnEvent
    <2>3. CASE life # "running"
      BY <1>1, <2>3 DEF RegistryChange
    <2>4. QED
      BY <2>1, <2>2, <2>3
  <1>2. CASE DirectEvent
    BY <1>2 DEF DirectEvent, Moved
  <1>3. CASE Scan
    BY <1>3 DEF Scan, Moved
  <1>4. CASE Shutdown
    BY <1>4 DEF Shutdown, Cancelled, NoRun
  <1>5. ASSUME NEW t \in Ticks, Tick(t)
        PROVE  TypeOK'
    BY <1>5 DEF Tick, Moved
  <1>6. CASE Periodic
    BY <1>6 DEF Periodic, Moved
  <1>7. CASE StartReply
    BY <1>7 DEF StartReply, Moved
  <1>8. CASE StartFails
    BY <1>8 DEF StartFails, Moved
  <1>9. CASE FlushDrain
    BY <1>9 DEF FlushDrain, Moved
  <1>10. CASE FlushHandOver
    BY <1>10 DEF FlushHandOver, Moved
  <1>11. ASSUME NEW k \in Kinds, FlushSent(k)
         PROVE  TypeOK'
    BY <1>11 DEF FlushSent, Moved
  <1>12. ASSUME NEW t \in Tasks, NEW current \in BOOLEAN,
                NEW rev \in Revisions \cup {NoRevision},
                TickReply(t, current, rev)
         PROVE  TypeOK'
    BY <1>12 DEF TickReply, Moved
  <1>13. ASSUME NEW t \in Tasks, CallReply(t)
         PROVE  TypeOK'
    BY <1>13 DEF CallReply, Moved
  <1>14. ASSUME NEW t \in Tasks, Acquire(t)
         PROVE  TypeOK'
    BY <1>14 DEF Acquire, Attempt, Moved
  <1>15. ASSUME NEW t \in Tasks, NEW rev \in Revisions, Accepted(t, rev)
         PROVE  TypeOK'
    <2>1. published' \in [rev : Revisions \cup {NoRevision}, asOf : Nat]
      BY <1>15 DEF Accepted
    <2>2. /\ pc' \in [Tasks -> {"idle", "drain", "call", "lock", "reply"}]
          /\ run' \in [Tasks -> [gen : Nat, asOf : Nat, attempt : Nat]]
          /\ batch' \in Nat
          /\ holder' \in Tasks \cup {Nobody}
      BY <1>15 DEF Accepted, Leave, NoRun
    <2>3. /\ life' \in {"setup", "running", "closed"}
          /\ stale' \in BOOLEAN
      BY <1>15 DEF Accepted
    <2>4. QED
      BY <1>15, <2>1, <2>2, <2>3 DEF Accepted
  <1>16. ASSUME NEW t \in Tasks, Superseded(t)
         PROVE  TypeOK'
    BY <1>16, BoundAssumption DEF Superseded, Attempt
  <1>17. ASSUME NEW t \in Tasks, Exhausted(t)
         PROVE  TypeOK'
    BY <1>17 DEF Exhausted, GiveUp, Leave, NoRun
  <1>18. ASSUME NEW t \in Tasks, Failed(t)
         PROVE  TypeOK'
    BY <1>18 DEF Failed, GiveUp, Leave, NoRun
  <1>19. ASSUME NEW t \in Tasks, TickFails(t)
         PROVE  TypeOK'
    BY <1>19 DEF TickFails, Moved
  <1>20. ASSUME NEW t \in Tasks, CallFails(t)
         PROVE  TypeOK'
    BY <1>20 DEF CallFails, Moved
  <1>21. CASE UNCHANGED vars
    BY <1>21 DEF vars
  <1> HIDE DEF TypeOK
  <1>22. CASE Environment
    BY <1>22, <1>1, <1>2, <1>3, <1>4 DEF Environment
  <1>23. CASE Timers
    BY <1>23, <1>5, <1>6 DEF Timers
  <1>24. CASE Setup
    BY <1>24, <1>7, <1>8 DEF Setup
  <1>25. CASE Flush
    BY <1>25, <1>9, <1>10, <1>11 DEF Flush
  <1>26. ASSUME NEW t \in Tasks, Answers(t)
         PROVE  TypeOK'
    BY <1>26, <1>12, <1>13 DEF Answers
  <1>27. ASSUME NEW t \in Tasks, Answered(t)
         PROVE  TypeOK'
    BY <1>27, <1>15, <1>16, <1>17 DEF Answered
  <1>28. ASSUME NEW t \in Tasks, Failure(t)
         PROVE  TypeOK'
    BY <1>28, <1>18, <1>19, <1>20 DEF Failure
  <1>29. QED
    BY <1>14, <1>21, <1>22, <1>23, <1>24, <1>25, <1>26, <1>27, <1>28 DEF Next

\* Every reachable state of the coordinator is well typed.
THEOREM CoordinatorTyped == Spec => []TypeOK
  BY InitTyped, NextTyped, PTL DEF Spec

-----------------------------------------------------------------------------
(***************************************************************************)
(* The inductive invariant behind FreshWrites.  An answer that is still    *)
(* awaited under an unchanged generation belongs to a build made after the *)
(* last event: every event raises the generation, and the generation noted *)
(* by a build is never ahead of the coordinator's.  Without the second     *)
(* conjunct the step that accepts an answer could publish any build.       *)
(***************************************************************************)
BuildsAreDated ==
  \A t \in Tasks : pc[t] = "reply" =>
    /\ run[t].gen <= generation
    /\ run[t].gen = generation => run[t].asOf >= heard

FreshInv ==
  /\ heard <= home
  /\ BuildsAreDated
  /\ ~stale => published.asOf >= heard

LEMMA InitFresh == Init => FreshInv
  BY TasksTyped DEF Init, FreshInv, BuildsAreDated

(* A step that neither hears of a change, nor starts or ends a build, nor  *)
(* touches the map leaves the invariant as it was.                         *)
LEMMA QuietStepFresh ==
  ASSUME TypeOK, FreshInv,
         UNCHANGED <<home, heard, generation, stale, published, run>>,
         \A t \in Tasks : pc'[t] = "reply" => pc[t] = "reply"
  PROVE  FreshInv'
  BY DEF FreshInv, BuildsAreDated

LEMMA NextFresh == TypeOK /\ FreshInv /\ [Next]_vars => FreshInv'
  <1> SUFFICES ASSUME TypeOK, FreshInv, [Next]_vars
               PROVE  FreshInv'
    OBVIOUS
  <1> USE TasksTyped
  <1>1. ASSUME NEW k \in Kinds, RegistryChange(k)
        PROVE  FreshInv'
    <2>1. CASE life = "running"
      <3>1. /\ home' = home + 1
            /\ heard' = home'
            /\ generation' = generation + 1
            /\ stale' = TRUE
            /\ run' = run
        BY <1>1, <2>1 DEF RegistryChange, OnEvent
      <3>2. \A t \in Tasks : pc'[t] = "reply" => pc[t] = "reply"
        BY <1>1, <2>1 DEF RegistryChange, OnEvent, TypeOK
      <3>3. BuildsAreDated'
        BY <3>1, <3>2 DEF FreshInv, BuildsAreDated, TypeOK
      <3>4. QED
        BY <3>1, <3>3 DEF FreshInv, TypeOK
    <2>2. CASE life # "running"
      BY <1>1, <2>2 DEF RegistryChange, FreshInv, BuildsAreDated, TypeOK
    <2>3. QED
      BY <2>1, <2>2
  <1>2. CASE DirectEvent
    <2>1. /\ home' = home + 1
          /\ heard' = home'
          /\ generation' = generation + 1
          /\ stale' = TRUE
          /\ run' = run
      BY <1>2 DEF DirectEvent
    <2>2. \A t \in Tasks : pc'[t] = "reply" => pc[t] = "reply"
      BY <1>2 DEF DirectEvent, Moved, TypeOK
    <2>3. BuildsAreDated'
      BY <2>1, <2>2 DEF FreshInv, BuildsAreDated, TypeOK
    <2>4. QED
      BY <2>1, <2>3 DEF FreshInv, TypeOK
  <1>3. ASSUME NEW t \in Tasks, Acquire(t)
        PROVE  FreshInv'
    <2>1. run'[t].gen = generation /\ run'[t].asOf = home
      BY <1>3 DEF Acquire, Attempt, TypeOK
    <2>2. \A u \in Tasks \ {t} : run'[u] = run[u] /\ pc'[u] = pc[u]
      BY <1>3 DEF Acquire, Attempt, Moved, TypeOK
    <2>3. BuildsAreDated'
      BY <1>3, <2>1, <2>2 DEF Acquire, FreshInv, BuildsAreDated, TypeOK
    <2>4. QED
      BY <1>3, <2>3 DEF Acquire, FreshInv
  <1>4. ASSUME NEW t \in Tasks, NEW rev \in Revisions, Accepted(t, rev)
        PROVE  FreshInv'
    <2>1. published'.asOf >= heard'
      BY <1>4 DEF Accepted, FreshInv, BuildsAreDated, TypeOK
    <2>2. BuildsAreDated'
      BY <1>4 DEF Accepted, Leave, FreshInv, BuildsAreDated, TypeOK
    <2>3. QED
      BY <1>4, <2>1, <2>2 DEF Accepted, FreshInv
  <1>5. ASSUME NEW t \in Tasks, Superseded(t)
        PROVE  FreshInv'
    <2>1. run'[t].gen = generation /\ run'[t].asOf = home
      BY <1>5 DEF Superseded, Attempt, TypeOK
    <2>2. \A u \in Tasks \ {t} : run'[u] = run[u]
      BY <1>5 DEF Superseded, Attempt, TypeOK
    <2>3. BuildsAreDated'
      BY <1>5, <2>1, <2>2 DEF Superseded, FreshInv, BuildsAreDated, TypeOK
    <2>4. QED
      BY <1>5, <2>3 DEF Superseded, FreshInv
  <1>6. ASSUME NEW t \in Tasks, Exhausted(t)
        PROVE  FreshInv'
    BY <1>6 DEF Exhausted, GiveUp, Leave, FreshInv, BuildsAreDated, TypeOK
  <1>7. ASSUME NEW t \in Tasks, Failed(t)
        PROVE  FreshInv'
    BY <1>7 DEF Failed, GiveUp, Leave, FreshInv, BuildsAreDated, TypeOK
  <1>8. CASE Shutdown
    BY <1>8 DEF Shutdown, Cancelled, FreshInv, BuildsAreDated, TypeOK
  <1>9. CASE Scan
    BY <1>9, QuietStepFresh DEF Scan, Moved, TypeOK
  <1>10. CASE Timers
    BY <1>10, QuietStepFresh DEF Timers, Tick, Periodic, Moved, TypeOK
  <1>11. CASE Setup
    BY <1>11, QuietStepFresh DEF Setup, StartReply, StartFails, Moved, TypeOK
  <1>12. CASE FlushDrain
    BY <1>12, QuietStepFresh DEF FlushDrain, Moved, TypeOK
  <1>13. CASE FlushHandOver
    BY <1>13, QuietStepFresh DEF FlushHandOver, Moved, TypeOK
  <1>14. ASSUME NEW k \in Kinds, FlushSent(k)
         PROVE  FreshInv'
    BY <1>14, QuietStepFresh DEF FlushSent, Moved, TypeOK
  <1>15. ASSUME NEW t \in Tasks, NEW current \in BOOLEAN,
                NEW rev \in Revisions \cup {NoRevision},
                TickReply(t, current, rev)
         PROVE  FreshInv'
    BY <1>15, QuietStepFresh DEF TickReply, Moved, TypeOK
  <1>16. ASSUME NEW t \in Tasks, CallReply(t)
         PROVE  FreshInv'
    BY <1>16, QuietStepFresh DEF CallReply, Moved, TypeOK
  <1>17. ASSUME NEW t \in Tasks, TickFails(t) \/ CallFails(t)
         PROVE  FreshInv'
    BY <1>17, QuietStepFresh DEF TickFails, CallFails, Moved, TypeOK
  <1>18. CASE UNCHANGED vars
    BY <1>18 DEF vars, FreshInv, BuildsAreDated
  <1>19. CASE Environment
    BY <1>19, <1>1, <1>2, <1>8, <1>9 DEF Environment
  <1>20. CASE Flush
    BY <1>20, <1>12, <1>13, <1>14 DEF Flush
  <1>21. ASSUME NEW t \in Tasks, Answers(t)
         PROVE  FreshInv'
    BY <1>21, <1>15, <1>16 DEF Answers
  <1>22. ASSUME NEW t \in Tasks, Answered(t)
         PROVE  FreshInv'
    BY <1>22, <1>4, <1>5, <1>6 DEF Answered
  <1>23. ASSUME NEW t \in Tasks, Failure(t)
         PROVE  FreshInv'
    BY <1>23, <1>7, <1>17 DEF Failure
  <1>24. QED
    BY <1>3, <1>10, <1>11, <1>18, <1>19, <1>20, <1>21, <1>22, <1>23 DEF Next

\* What makes FreshWrites inductive holds in every reachable state: builds are
\* dated, and a map that is not stale is as new as the last change heard.
THEOREM FreshInvHolds == Spec => []FreshInv
  BY InitTyped, NextTyped, InitFresh, NextFresh, PTL DEF Spec

(***************************************************************************)
(* No write under a map older than the last change heard.                  *)
(***************************************************************************)
THEOREM WritesAreFresh == Spec => []FreshWrites
  <1>1. FreshInv => FreshWrites
    BY DEF FreshInv, FreshWrites, WritesAllowed
  <1>2. QED
    BY <1>1, FreshInvHolds, PTL

-----------------------------------------------------------------------------
(***************************************************************************)
(* The coordinator implements the write gate.  Only three kinds of step    *)
(* matter to the gate: hearing of a change, publishing a map, and leaving  *)
(* the running state; all others are stutters.                             *)
(***************************************************************************)
LEMMA InitGate == Init => Gate!Init
  BY DEF Init, Gate!Init, NoMap, WritesAllowed

(* The variables the gate is made of.                                      *)
GateVars == <<heard, life, stale, published>>

LEMMA GateStutters == UNCHANGED GateVars => UNCHANGED Gate!vars
  BY DEF GateVars, Gate!vars, WritesAllowed

LEMMA NextGate ==
  TypeOK /\ FreshInv /\ FreshInv' /\ TypeOK' /\ [Next]_vars
    => [Gate!Next]_(Gate!vars)
  <1> SUFFICES ASSUME TypeOK, FreshInv, FreshInv', TypeOK', [Next]_vars
               PROVE  [Gate!Next]_(Gate!vars)
    OBVIOUS
  <1> USE TasksTyped
  <1>1. ASSUME heard' = home', home' = home + 1, stale' = TRUE,
               published' = published
        PROVE  Gate!Notice
    BY <1>1 DEF Gate!Notice, WritesAllowed, FreshInv, TypeOK
  <1>2. ASSUME UNCHANGED <<heard, published>>, ~WritesAllowed'
        PROVE  [Gate!Next]_(Gate!vars)
    BY <1>2 DEF Gate!Next, Gate!Shut, Gate!vars
  <1>3. ASSUME NEW k \in Kinds, RegistryChange(k)
        PROVE  [Gate!Next]_(Gate!vars)
    <2>1. CASE life = "running"
      BY <1>1, <1>3, <2>1 DEF RegistryChange, OnEvent, Gate!Next
    <2>2. CASE life # "running"
      BY <1>3, <2>2, GateStutters DEF RegistryChange, GateVars
    <2>3. QED
      BY <2>1, <2>2
  <1>4. CASE DirectEvent
    BY <1>1, <1>4 DEF DirectEvent, Gate!Next
  <1>5. CASE Shutdown
    BY <1>2, <1>5 DEF Shutdown, WritesAllowed
  <1>6. CASE Scan
    BY <1>6, GateStutters DEF Scan, GateVars
  <1>7. CASE Timers
    BY <1>7, GateStutters DEF Timers, Tick, Periodic, GateVars
  <1>8. CASE StartReply
    BY <1>8, GateStutters DEF StartReply, GateVars
  <1>9. CASE StartFails
    BY <1>2, <1>9 DEF StartFails, WritesAllowed
  <1>10. CASE Flush
    BY <1>10, GateStutters
    DEF Flush, FlushDrain, FlushHandOver, FlushSent, GateVars
  <1>11. ASSUME NEW t \in Tasks, Answers(t)
         PROVE  [Gate!Next]_(Gate!vars)
    BY <1>11, GateStutters DEF Answers, TickReply, CallReply, GateVars
  <1>12. ASSUME NEW t \in Tasks, Acquire(t)
         PROVE  [Gate!Next]_(Gate!vars)
    BY <1>12, GateStutters DEF Acquire, GateVars
  <1>13. ASSUME NEW t \in Tasks, NEW rev \in Revisions, Accepted(t, rev)
         PROVE  [Gate!Next]_(Gate!vars)
    <2>1. /\ heard' = heard
          /\ published'.asOf \in Nat
          /\ published'.asOf >= heard
      BY <1>13 DEF Accepted, FreshInv, TypeOK
    <2>2. Gate!Publish
      BY <2>1 DEF Gate!Publish, WritesAllowed
    <2>3. QED
      BY <2>2 DEF Gate!Next
  <1>14. ASSUME NEW t \in Tasks, Superseded(t)
         PROVE  [Gate!Next]_(Gate!vars)
    BY <1>2, <1>14 DEF Superseded, WritesAllowed
  <1>15. ASSUME NEW t \in Tasks, Exhausted(t)
         PROVE  [Gate!Next]_(Gate!vars)
    BY <1>2, <1>15 DEF Exhausted, GiveUp, WritesAllowed
  <1>16. ASSUME NEW t \in Tasks, Failed(t)
         PROVE  [Gate!Next]_(Gate!vars)
    <2>1. CASE t = "start"
      BY <1>2, <1>16, <2>1 DEF Failed, GiveUp, WritesAllowed
    <2>2. CASE t # "start"
      BY <1>16, <2>2, GateStutters DEF Failed, GiveUp, GateVars
    <2>3. QED
      BY <2>1, <2>2
  <1>17. ASSUME NEW t \in Tasks, TickFails(t) \/ CallFails(t)
         PROVE  [Gate!Next]_(Gate!vars)
    BY <1>17, GateStutters DEF TickFails, CallFails, GateVars
  <1>18. CASE UNCHANGED vars
    BY <1>18, GateStutters DEF vars, GateVars
  <1>19. CASE Environment
    BY <1>19, <1>3, <1>4, <1>5, <1>6 DEF Environment
  <1>20. ASSUME NEW t \in Tasks, Answered(t)
         PROVE  [Gate!Next]_(Gate!vars)
    BY <1>20, <1>13, <1>14, <1>15 DEF Answered
  <1>21. ASSUME NEW t \in Tasks, Failure(t)
         PROVE  [Gate!Next]_(Gate!vars)
    BY <1>21, <1>16, <1>17 DEF Failure
  <1>22. QED
    BY <1>7, <1>8, <1>9, <1>10, <1>11, <1>12, <1>18, <1>19, <1>20, <1>21
    DEF Next, Setup

\* Each step of the coordinator, seen through its map and writes_allowed, is a
\* step of the abstract write gate or leaves it alone.
THEOREM CoordinatorImplementsWriteGate == Spec => ImplementsWriteGate
  <1>1. Spec => []TypeOK /\ []FreshInv
    BY CoordinatorTyped, FreshInvHolds, PTL
  <1>2. QED
    BY <1>1, InitGate, NextGate, PTL DEF Spec, ImplementsWriteGate, Gate!Spec
-----------------------------------------------------------------------------
(***************************************************************************)
(* The lock.  The invariant is inductive as it stands: whoever awaits an   *)
(* answer holds the lock, so no other task does.                           *)
(***************************************************************************)
LEMMA NobodyIsNoTask == Nobody \notin Tasks
  BY NobodyAssumption DEF Tasks

LEMMA InitLock == Init => LockDiscipline
  BY NobodyIsNoTask DEF Init, LockDiscipline

(* A step that leaves the holder alone, and takes no task to the answer of *)
(* a reconciliation or away from it, keeps the discipline.                 *)
LEMMA QuietStepLock ==
  ASSUME LockDiscipline, UNCHANGED holder,
         \A t \in Tasks : pc'[t] = "reply" <=> pc[t] = "reply"
  PROVE  LockDiscipline'
  BY DEF LockDiscipline

(* Whoever leaves async_reconcile held the lock, and gives it back.        *)
LEMMA LeavingReleases ==
  ASSUME TypeOK, LockDiscipline, NEW t \in Tasks, pc[t] = "reply", Leave(t)
  PROVE  LockDiscipline'
  <1>1. \A u \in Tasks \ {t} : pc[u] # "reply"
    BY DEF LockDiscipline
  <1>2. pc'[t] # "reply" /\ \A u \in Tasks \ {t} : pc'[u] = pc[u]
    BY DEF Leave, TypeOK
  <1>3. QED
    BY <1>1, <1>2, NobodyIsNoTask DEF Leave, LockDiscipline

LEMMA NextLock == TypeOK /\ LockDiscipline /\ [Next]_vars => LockDiscipline'
  <1> SUFFICES ASSUME TypeOK, LockDiscipline, [Next]_vars
               PROVE  LockDiscipline'
    OBVIOUS
  <1> USE TasksTyped
  <1>1. ASSUME NEW k \in Kinds, RegistryChange(k)
        PROVE  LockDiscipline'
    <2>1. CASE life = "running"
      BY <1>1, <2>1, QuietStepLock DEF RegistryChange, OnEvent, TypeOK
    <2>2. CASE life # "running"
      BY <1>1, <2>2, QuietStepLock DEF RegistryChange
    <2>3. QED
      BY <2>1, <2>2
  <1>2. CASE DirectEvent
    BY <1>2, QuietStepLock DEF DirectEvent, Moved, TypeOK
  <1>3. CASE Scan
    BY <1>3, QuietStepLock DEF Scan, Moved, TypeOK
  <1>4. CASE Shutdown
    BY <1>4, NobodyIsNoTask
    DEF Shutdown, Cancelled, LockDiscipline, TypeOK
  <1>5. CASE Timers
    BY <1>5, QuietStepLock DEF Timers, Tick, Periodic, Moved, TypeOK
  <1>6. CASE Setup
    BY <1>6, QuietStepLock DEF Setup, StartReply, StartFails, Moved, TypeOK
  <1>7. CASE FlushDrain
    BY <1>7, QuietStepLock DEF FlushDrain, Moved, TypeOK
  <1>8. CASE FlushHandOver
    BY <1>8, QuietStepLock DEF FlushHandOver, Moved, TypeOK
  <1>9. ASSUME NEW k \in Kinds, FlushSent(k)
        PROVE  LockDiscipline'
    BY <1>9, QuietStepLock DEF FlushSent, Moved, TypeOK
  <1>10. ASSUME NEW t \in Tasks, Answers(t)
         PROVE  LockDiscipline'
    BY <1>10, QuietStepLock DEF Answers, TickReply, CallReply, Moved, TypeOK
  <1>11. ASSUME NEW t \in Tasks, Acquire(t)
         PROVE  LockDiscipline'
    BY <1>11, NobodyIsNoTask DEF Acquire, Moved, LockDiscipline, TypeOK
  <1>12. ASSUME NEW t \in Tasks, NEW rev \in Revisions, Accepted(t, rev)
         PROVE  LockDiscipline'
    BY <1>12, LeavingReleases DEF Accepted
  <1>13. ASSUME NEW t \in Tasks, Superseded(t)
         PROVE  LockDiscipline'
    BY <1>13, QuietStepLock DEF Superseded
  <1>14. ASSUME NEW t \in Tasks, Exhausted(t) \/ Failed(t)
         PROVE  LockDiscipline'
    BY <1>14, LeavingReleases DEF Exhausted, Failed, GiveUp
  <1>15. ASSUME NEW t \in Tasks, TickFails(t) \/ CallFails(t)
         PROVE  LockDiscipline'
    BY <1>15, QuietStepLock DEF TickFails, CallFails, Moved, TypeOK
  <1>16. CASE UNCHANGED vars
    BY <1>16, QuietStepLock DEF vars
  <1>17. CASE Environment
    BY <1>17, <1>1, <1>2, <1>3, <1>4 DEF Environment
  <1>18. CASE Flush
    BY <1>18, <1>7, <1>8, <1>9 DEF Flush
  <1>19. ASSUME NEW t \in Tasks, Answered(t)
         PROVE  LockDiscipline'
    BY <1>19, <1>12, <1>13, <1>14 DEF Answered
  <1>20. ASSUME NEW t \in Tasks, Failure(t)
         PROVE  LockDiscipline'
    BY <1>20, <1>14, <1>15 DEF Failure
  <1>21. QED
    BY <1>5, <1>6, <1>10, <1>11, <1>16, <1>17, <1>18, <1>19, <1>20 DEF Next

(***************************************************************************)
(* One reconciliation at a time, and every way out of it frees the lock.   *)
(***************************************************************************)
THEOREM LockIsDisciplined == Spec => []LockDiscipline
  BY InitTyped, NextTyped, InitLock, NextLock, PTL DEF Spec

-----------------------------------------------------------------------------
(***************************************************************************)
(* The inductive invariant behind NoEventForgotten.  It has to know that   *)
(* nothing is pending before the coordinator runs: the step that ends      *)
(* async_start would otherwise find events that no task was started for.   *)
(***************************************************************************)
FlushInv ==
  /\ pc["start"] # "idle" => life = "setup"
  /\ life = "setup" => pendingEvents = {}
  /\ life = "running" /\ pendingEvents # {} => pc["flush"] # "idle"

LEMMA FlushIsNoTick == "flush" \notin Ticks /\ "start" \notin Ticks
  BY TicksAssumption

LEMMA InitFlush == Init => FlushInv
  BY TasksTyped DEF Init, FlushInv

(* A step that neither queues events, nor changes the life of the          *)
(* coordinator, nor starts or ends the flush task or the start.            *)
LEMMA QuietStepFlush ==
  ASSUME FlushInv, UNCHANGED <<life, pendingEvents>>,
         pc["flush"] # "idle" => pc'["flush"] # "idle",
         pc'["start"] # "idle" => pc["start"] # "idle"
  PROVE  FlushInv'
  BY DEF FlushInv

LEMMA NextFlush == TypeOK /\ FlushInv /\ [Next]_vars => FlushInv'
  <1> SUFFICES ASSUME TypeOK, FlushInv, [Next]_vars
               PROVE  FlushInv'
    OBVIOUS
  <1> USE TasksTyped, FlushIsNoTick
  <1>1. ASSUME NEW k \in Kinds, RegistryChange(k)
        PROVE  FlushInv'
    <2>1. CASE life = "running"
      BY <1>1, <2>1 DEF RegistryChange, OnEvent, FlushInv, TypeOK
    <2>2. CASE life # "running"
      BY <1>1, <2>2 DEF RegistryChange, FlushInv
    <2>3. QED
      BY <2>1, <2>2
  <1>2. CASE DirectEvent
    BY <1>2, QuietStepFlush DEF DirectEvent, Moved, TypeOK
  <1>3. CASE Scan
    BY <1>3, QuietStepFlush DEF Scan, Moved, TypeOK
  <1>4. CASE Shutdown
    BY <1>4 DEF Shutdown, Cancelled, FlushInv, TypeOK
  <1>5. CASE Timers
    BY <1>5, QuietStepFlush DEF Timers, Tick, Periodic, Moved, TypeOK
  <1>6. CASE StartReply
    BY <1>6, QuietStepFlush DEF StartReply, Moved, TypeOK
  <1>7. CASE StartFails
    BY <1>7 DEF StartFails, Moved, FlushInv, TypeOK
  <1>8. CASE FlushDrain
    BY <1>8 DEF FlushDrain, Moved, FlushInv, TypeOK
  <1>9. CASE FlushHandOver
    BY <1>9 DEF FlushHandOver, Moved, FlushInv, TypeOK
  <1>10. ASSUME NEW k \in Kinds, FlushSent(k)
         PROVE  FlushInv'
    BY <1>10, QuietStepFlush DEF FlushSent, Moved, TypeOK
  <1>11. ASSUME NEW t \in Tasks, Answers(t)
         PROVE  FlushInv'
    BY <1>11, QuietStepFlush DEF Answers, TickReply, CallReply, Moved, TypeOK
  <1>12. ASSUME NEW t \in Tasks, Acquire(t)
         PROVE  FlushInv'
    BY <1>12, QuietStepFlush DEF Acquire, Moved, TypeOK
  <1>13. ASSUME NEW t \in Tasks, NEW rev \in Revisions, Accepted(t, rev)
         PROVE  FlushInv'
    <2>1. CASE t = "start"
      BY <1>13, <2>1 DEF Accepted, Leave, FlushInv, TypeOK
    <2>2. CASE t # "start"
      BY <1>13, <2>2, QuietStepFlush DEF Accepted, Leave, TypeOK
    <2>3. QED
      BY <2>1, <2>2
  <1>14. ASSUME NEW t \in Tasks, Superseded(t)
         PROVE  FlushInv'
    BY <1>14, QuietStepFlush DEF Superseded
  <1>15. ASSUME NEW t \in Tasks, Exhausted(t) \/ Failed(t)
         PROVE  FlushInv'
    <2>1. pc[t] = "reply" /\ GiveUp(t)
      BY <1>15 DEF Exhausted, Failed
    <2>2. CASE t = "start"
      BY <2>1, <2>2 DEF GiveUp, Leave, FlushInv, TypeOK
    <2>3. CASE t # "start"
      BY <2>1, <2>3, QuietStepFlush DEF GiveUp, Leave, TypeOK
    <2>4. QED
      BY <2>2, <2>3
  <1>16. ASSUME NEW t \in Ticks, TickFails(t)
         PROVE  FlushInv'
    BY <1>16, QuietStepFlush DEF TickFails, Moved, TypeOK
  <1>17. ASSUME NEW t \in Tasks, CallFails(t)
         PROVE  FlushInv'
    BY <1>17, QuietStepFlush DEF CallFails, Moved, TypeOK
  <1>18. CASE UNCHANGED vars
    BY <1>18, QuietStepFlush DEF vars
  <1>19. CASE Environment
    BY <1>19, <1>1, <1>2, <1>3, <1>4 DEF Environment
  <1>20. CASE Flush
    BY <1>20, <1>8, <1>9, <1>10 DEF Flush
  <1>21. ASSUME NEW t \in Tasks, Answered(t)
         PROVE  FlushInv'
    BY <1>21, <1>13, <1>14, <1>15 DEF Answered
  <1>22. ASSUME NEW t \in Tasks, Failure(t)
         PROVE  FlushInv'
    BY <1>22, <1>15, <1>16, <1>17 DEF Failure
  <1>23. QED
    BY <1>5, <1>6, <1>7, <1>11, <1>12, <1>18, <1>19, <1>20, <1>21, <1>22
    DEF Next, Setup

(***************************************************************************)
(* Whatever is pending while the coordinator runs has a flush task.        *)
(***************************************************************************)
THEOREM NoEventIsForgotten == Spec => []NoEventForgotten
  <1>1. FlushInv => NoEventForgotten
    BY DEF FlushInv, NoEventForgotten
  <1>2. QED
    BY <1>1, InitTyped, NextTyped, InitFlush, NextFlush, PTL DEF Spec
=============================================================================
