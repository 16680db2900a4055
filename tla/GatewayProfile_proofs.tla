------------------------- MODULE GatewayProfile_proofs -------------------------
(***************************************************************************)
(* Theorems about the App's profile lifecycle, for any number of threads,  *)
(* snapshots, revisions, invalidations and restarts.                       *)
(***************************************************************************)
EXTENDS GatewayProfile, TLAPS

-----------------------------------------------------------------------------
(***************************************************************************)
(* Types.  They need to know that a thread that compiles has something to  *)
(* compile, and one that publishes or saves a profile to work on.          *)
(***************************************************************************)
Equipped(work) ==
  /\ work.at \in {"reconcile", "compile"} => work.snap \in Snapshots
  /\ work.at \in {"publish", "assign", "save"} => work.prof \in Profile

TypeInv == TypeOK /\ \A t \in Threads : Equipped(thread[t])

LEMMA IdleTyped == Idle \in Thread /\ Equipped(Idle)
  BY DEF Idle, Thread, Equipped

LEMMA StaleTyped ==
  ASSUME NEW p \in Profile
  PROVE  /\ Stale(p) \in Profile /\ Stale(p).status = "stale"
         /\ Stale(p).rev = p.rev /\ Stale(p).snap = p.snap
  BY DEF Stale, Profile

LEMMA NoProfileIsNone == NoProfile \notin Profile
  BY NoProfileAssumption DEF Profile

LEMMA InitTyped == Init => TypeInv
  <1> SUFFICES ASSUME Init PROVE TypeInv
    OBVIOUS
  <1>1. thread \in [Threads -> Thread] /\ \A t \in Threads : thread[t] = Idle
    BY IdleTyped DEF Init
  <1>2. \A t \in Threads : Equipped(thread[t])
    BY <1>1, IdleTyped
  <1>3. TypeOK
    BY <1>1 DEF Init, TypeOK
  <1>4. QED
    BY <1>2, <1>3 DEF TypeInv

(***************************************************************************)
(* What a step of thread t leaves of the threads: it is now busy with work *)
(* and the others are where they were.                                     *)
(***************************************************************************)
Turns(t, work) ==
  /\ thread' \in [Threads -> Thread]
  /\ thread'[t] = work
  /\ \A u \in Threads \ {t} : thread'[u] = thread[u]

LEMMA LocalTurns ==
  ASSUME TypeOK, NEW t \in Threads, NEW work \in Thread, Local(t, work)
  PROVE  Turns(t, work)
  BY DEF TypeOK, Local, Turns

Work(at, gen, snap, prof) == [at |-> at, gen |-> gen, snap |-> snap, prof |-> prof]

LEMMA WorkTyped ==
  ASSUME NEW at, NEW gen \in Nat, NEW snap \in Snapshots \cup {NoProfile},
         NEW prof \in Profile \cup {NoProfile},
         at \in {"idle", "reconcile", "compile", "superseded", "publish", "invalidate",
                 "bump", "mark", "assign", "save", "status"}
  PROVE  Work(at, gen, snap, prof) \in Thread
  BY DEF Work, Thread

LEMMA ThreadFields ==
  ASSUME TypeOK, NEW t \in Threads
  PROVE  /\ thread[t] \in Thread
         /\ thread[t].gen \in Nat
         /\ thread[t].snap \in Snapshots \cup {NoProfile}
         /\ thread[t].prof \in Profile \cup {NoProfile}
         /\ thread[t] = Work(thread[t].at, thread[t].gen, thread[t].snap, thread[t].prof)
  <1>1. thread[t] \in Thread
    BY DEF TypeOK
  <1>2. QED
    BY <1>1 DEF Thread, Work

(* Two fields changed at once are two changes.                              *)

LEMMA IdleWithSnapshot ==
  ASSUME NEW at, NEW s
  PROVE  [Idle EXCEPT !.at = at, !.snap = s] = Work(at, 0, s, NoProfile)
  <1> DEFINE first == [Idle EXCEPT !.at = at]
  <1>1. first = Work(at, 0, NoProfile, NoProfile)
    BY DEF Idle, Work
  <1>2. [Work(at, 0, NoProfile, NoProfile) EXCEPT !.snap = s] = Work(at, 0, s, NoProfile)
    BY DEF Work
  <1>3. [first EXCEPT !.snap = s] = Work(at, 0, s, NoProfile)
    BY <1>1, <1>2, Zenon
  <1>4. QED
    BY <1>3, Zenon

LEMMA IdleWithProfile ==
  ASSUME NEW at, NEW p
  PROVE  [Idle EXCEPT !.at = at, !.prof = p] = Work(at, 0, NoProfile, p)
  <1> DEFINE first == [Idle EXCEPT !.at = at]
  <1>1. first = Work(at, 0, NoProfile, NoProfile)
    BY DEF Idle, Work
  <1>2. [Work(at, 0, NoProfile, NoProfile) EXCEPT !.prof = p] = Work(at, 0, NoProfile, p)
    BY DEF Work
  <1>3. [first EXCEPT !.prof = p] = Work(at, 0, NoProfile, p)
    BY <1>1, <1>2, Zenon
  <1>4. QED
    BY <1>3, Zenon

LEMMA WithGeneration ==
  ASSUME NEW work \in Thread, NEW at, NEW g
  PROVE  [work EXCEPT !.at = at, !.gen = g] = Work(at, g, work.snap, work.prof)
  <1> DEFINE first == [work EXCEPT !.at = at]
  <1>1. first = Work(at, work.gen, work.snap, work.prof)
    BY DEF Thread, Work
  <1>2. [Work(at, work.gen, work.snap, work.prof) EXCEPT !.gen = g]
          = Work(at, g, work.snap, work.prof)
    BY DEF Work
  <1>3. [first EXCEPT !.gen = g] = Work(at, g, work.snap, work.prof)
    BY <1>1, <1>2, Zenon
  <1>4. QED
    BY <1>3, Zenon

-----------------------------------------------------------------------------
(***************************************************************************)
(* The steps, with the work they leave their thread with written out.      *)
(***************************************************************************)
LEMMA PostReconcileStep ==
  ASSUME TypeOK, NEW t \in Threads, NEW s \in Snapshots, PostReconcile(t, s)
  PROVE  Turns(t, Work("reconcile", 0, s, NoProfile))
  <1>1. Local(t, Work("reconcile", 0, s, NoProfile))
    BY IdleWithSnapshot DEF PostReconcile
  <1>2. QED
    BY <1>1, LocalTurns, WorkTyped

LEMMA PostInvalidateStep ==
  ASSUME TypeOK, NEW t \in Threads, PostInvalidate(t)
  PROVE  Turns(t, Work("invalidate", 0, NoProfile, NoProfile))
  <1>1. Local(t, Work("invalidate", 0, NoProfile, NoProfile))
    BY DEF PostInvalidate, Idle, Work
  <1>2. QED
    BY <1>1, LocalTurns, WorkTyped

LEMMA BeginCompileStep ==
  ASSUME TypeOK, NEW t \in Threads, BeginCompile(t)
  PROVE  Turns(t, Work("compile", generation, thread[t].snap, thread[t].prof))
  <1>1. Local(t, Work("compile", generation, thread[t].snap, thread[t].prof))
    BY ThreadFields, WithGeneration DEF BeginCompile
  <1>2. QED
    BY <1>1, LocalTurns, WorkTyped, ThreadFields DEF TypeOK

LEMMA ActivateStep ==
  ASSUME TypeInv, NEW t \in Threads, NEW rev \in Revisions, Activate(t, rev)
  PROVE  /\ latest' \in Profile
         /\ latest'.rev = rev
         /\ Turns(t, Work("publish", 0, NoProfile, latest'))
  <1>1. thread[t].snap \in Snapshots
    BY DEF TypeInv, Activate, At, Equipped
  <1>2. latest' \in Profile /\ latest'.rev = rev
    BY <1>1 DEF Activate, Profile
  <1>3. Local(t, Work("publish", 0, NoProfile, latest'))
    BY IdleWithProfile DEF Activate
  <1>4. QED
    BY <1>2, <1>3, LocalTurns, WorkTyped DEF TypeInv

LEMMA SupersedeStep ==
  ASSUME TypeOK, NEW t \in Threads, Supersede(t)
  PROVE  Turns(t, Work("superseded", 0, NoProfile, NoProfile))
  <1>1. Local(t, Work("superseded", 0, NoProfile, NoProfile))
    BY DEF Supersede, Idle, Work
  <1>2. QED
    BY <1>1, LocalTurns, WorkTyped

LEMMA ReturnLatestStep ==
  ASSUME TypeOK, NEW t \in Threads, ReturnLatest(t)
  PROVE  \/ Turns(t, Work("idle", 0, NoProfile, NoProfile))
         \/ latest # NoProfile /\ Turns(t, Work("publish", 0, NoProfile, latest))
  <1>1. CASE latest = NoProfile
    <2>1. Local(t, Work("idle", 0, NoProfile, NoProfile))
      BY <1>1 DEF ReturnLatest, Idle, Work
    <2>2. QED
      BY <2>1, LocalTurns, WorkTyped
  <1>2. CASE latest # NoProfile
    <2>1. Local(t, Work("publish", 0, NoProfile, latest))
      BY <1>2, IdleWithProfile DEF ReturnLatest
    <2>2. QED
      BY <1>2, <2>1, LocalTurns, WorkTyped DEF TypeOK
  <1>3. QED
    BY <1>1, <1>2

LEMMA GoToStep ==
  ASSUME TypeOK, NEW t \in Threads, NEW step \in {"bump", "mark", "save", "status"},
         GoTo(t, step)
  PROVE  Turns(t, Work(step, thread[t].gen, thread[t].snap, thread[t].prof))
  <1>1. thread[t] \in Thread
    BY ThreadFields
  <1>2. [thread[t] EXCEPT !.at = step]
          = Work(step, thread[t].gen, thread[t].snap, thread[t].prof)
    BY <1>1 DEF Thread, Work
  <1>3. Local(t, Work(step, thread[t].gen, thread[t].snap, thread[t].prof))
    BY <1>2, Zenon DEF GoTo
  <1>4. QED
    BY <1>3, LocalTurns, WorkTyped, ThreadFields

LEMMA MarkStep ==
  ASSUME TypeOK, NEW t \in Threads, Mark(t)
  PROVE  \/ Turns(t, Work("status", thread[t].gen, thread[t].snap, thread[t].prof))
         \/ active \in Profile /\ Turns(t, Work("assign", 0, NoProfile, Stale(active)))
  <1>1. CASE active = NoProfile
    <2>1. GoTo(t, "status")
      BY <1>1 DEF Mark
    <2>2. QED
      BY <2>1, GoToStep
  <1>2. CASE active # NoProfile
    <2>1. Local(t, Work("assign", 0, NoProfile, Stale(active)))
      BY <1>2, IdleWithProfile DEF Mark
    <2>2. active \in Profile
      BY <1>2 DEF TypeOK
    <2>3. QED
      BY <2>1, <2>2, LocalTurns, WorkTyped, StaleTyped
  <1>3. QED
    BY <1>1, <1>2

LEMMA SaveStep ==
  ASSUME TypeOK, NEW t \in Threads, Save(t)
  PROVE  Turns(t, Work("status", 0, NoProfile, NoProfile))
  <1>1. Local(t, Work("status", 0, NoProfile, NoProfile))
    BY DEF Save, Idle, Work
  <1>2. QED
    BY <1>1, LocalTurns, WorkTyped

LEMMA IdleStep ==
  ASSUME TypeOK, NEW t \in Threads, SaveFails(t) \/ Answer(t)
  PROVE  Turns(t, Work("idle", 0, NoProfile, NoProfile))
  <1>1. Local(t, Work("idle", 0, NoProfile, NoProfile))
    BY DEF SaveFails, Answer, Idle, Work
  <1>2. QED
    BY <1>1, LocalTurns, WorkTyped

-----------------------------------------------------------------------------
LEMMA TurnsTyped ==
  ASSUME TypeInv, NEW t \in Threads, NEW work, Equipped(work), Turns(t, work)
  PROVE  /\ thread' \in [Threads -> Thread]
         /\ \A u \in Threads : Equipped(thread[u])'
  BY DEF Turns, TypeInv, Equipped

LEMMA NextTyped == TypeInv /\ [Next]_vars => TypeInv'
  <1> SUFFICES ASSUME TypeInv, [Next]_vars PROVE TypeInv'
    OBVIOUS
  <1>0. TypeOK
    BY DEF TypeInv
  <1> DEFINE Rest == /\ generation' \in Nat /\ pending' \in BOOLEAN
                     /\ latest' \in Profile \cup {NoProfile}
                     /\ active' \in Profile \cup {NoProfile}
                     /\ disk' \in Profile \cup {NoProfile}
                     /\ restarts' \in Nat
             Snapped(t, work) == Equipped(work) /\ Turns(t, work)
  <1>1. ASSUME NEW t \in Threads, NEW work, Snapped(t, work), Rest
        PROVE  TypeInv'
    BY <1>1, TurnsTyped DEF TypeInv, TypeOK
  <1>2. ASSUME NEW t \in Threads PROVE thread[t].prof \in Profile \cup {NoProfile}
    BY <1>0, ThreadFields
  <1>3. ASSUME NEW t \in Threads, NEW s \in Snapshots, PostReconcile(t, s)
        PROVE  TypeInv'
    <2>1. Snapped(t, Work("reconcile", 0, s, NoProfile))
      BY <1>0, <1>3, PostReconcileStep DEF Equipped, Work
    <2>2. Rest
      BY <1>0, <1>3 DEF PostReconcile, TypeOK
    <2>3. QED
      BY <1>1, <2>1, <2>2
  <1>4. ASSUME NEW t \in Threads, PostInvalidate(t) PROVE TypeInv'
    <2>1. Snapped(t, Work("invalidate", 0, NoProfile, NoProfile))
      BY <1>0, <1>4, PostInvalidateStep DEF Equipped, Work
    <2>2. Rest
      BY <1>0, <1>4 DEF PostInvalidate, TypeOK
    <2>3. QED
      BY <1>1, <2>1, <2>2
  <1>5. ASSUME NEW t \in Threads, BeginCompile(t) PROVE TypeInv'
    <2>1. thread[t].snap \in Snapshots
      BY <1>5 DEF TypeInv, Equipped, BeginCompile, At
    <2>2. Snapped(t, Work("compile", generation, thread[t].snap, thread[t].prof))
      BY <1>0, <1>5, <2>1, BeginCompileStep DEF Equipped, Work
    <2>3. Rest
      BY <1>0, <1>5 DEF BeginCompile, TypeOK
    <2>4. QED
      BY <1>1, <2>2, <2>3
  <1>6. ASSUME NEW t \in Threads, NEW rev \in Revisions, Activate(t, rev)
        PROVE  TypeInv'
    <2>1. latest' \in Profile /\ Snapped(t, Work("publish", 0, NoProfile, latest'))
      BY <1>6, ActivateStep DEF Equipped, Work
    <2>2. Rest
      BY <1>0, <1>6, <2>1 DEF Activate, TypeOK
    <2>3. QED
      BY <1>1, <2>1, <2>2
  <1>7. ASSUME NEW t \in Threads, Supersede(t) PROVE TypeInv'
    <2>1. Snapped(t, Work("superseded", 0, NoProfile, NoProfile))
      BY <1>0, <1>7, SupersedeStep DEF Equipped, Work
    <2>2. Rest
      BY <1>0, <1>7 DEF Supersede, TypeOK
    <2>3. QED
      BY <1>1, <2>1, <2>2
  <1>8. ASSUME NEW t \in Threads, ReturnLatest(t) PROVE TypeInv'
    <2>1. \/ Snapped(t, Work("idle", 0, NoProfile, NoProfile))
          \/ Snapped(t, Work("publish", 0, NoProfile, latest))
      BY <1>0, <1>8, ReturnLatestStep DEF Equipped, Work, TypeOK
    <2>2. Rest
      BY <1>0, <1>8 DEF ReturnLatest, TypeOK
    <2>3. QED
      BY <1>1, <2>1, <2>2
  <1>9. ASSUME NEW t \in Threads, NEW step \in {"bump", "mark", "save", "status"},
               step = "save" => thread[t].prof \in Profile,
               GoTo(t, step), Rest
        PROVE  TypeInv'
    <2>1. Snapped(t, Work(step, thread[t].gen, thread[t].snap, thread[t].prof))
      BY <1>0, <1>9, GoToStep DEF Equipped, Work
    <2>2. QED
      BY <1>1, <1>9, <2>1
  <1>10. ASSUME NEW t \in Threads, Publish(t) \/ Ingest(t) \/ Bump(t) \/ Assign(t)
         PROVE  TypeInv'
    <2>1. Rest
      <3>1. CASE Publish(t)
        BY <1>0, <1>2, <3>1 DEF Publish, TypeOK
      <3>2. CASE Ingest(t)
        BY <1>0, <3>2 DEF Ingest, TypeOK
      <3>3. CASE Bump(t)
        BY <1>0, <3>3 DEF Bump, TypeOK
      <3>4. CASE Assign(t)
        BY <1>0, <1>2, <3>4 DEF Assign, TypeOK
      <3>5. QED
        BY <1>10, <3>1, <3>2, <3>3, <3>4
    <2>2. \E step \in {"bump", "mark", "save", "status"} :
            /\ GoTo(t, step)
            /\ step = "save" => thread[t].prof \in Profile
      BY <1>10 DEF Publish, Ingest, Bump, Assign, At, TypeInv, Equipped
    <2>3. QED
      BY <1>9, <2>1, <2>2
  <1>11. ASSUME NEW t \in Threads, Mark(t) PROVE TypeInv'
    <2>1. \/ Snapped(t, Work("status", thread[t].gen, thread[t].snap, thread[t].prof))
          \/ Snapped(t, Work("assign", 0, NoProfile, Stale(active)))
      BY <1>0, <1>11, MarkStep, StaleTyped DEF Equipped, Work
    <2>2. Rest
      BY <1>0, <1>11 DEF Mark, TypeOK
    <2>3. QED
      BY <1>1, <2>1, <2>2
  <1>12. ASSUME NEW t \in Threads, Store(t) \/ Answer(t) PROVE TypeInv'
    <2>1. \/ Snapped(t, Work("status", 0, NoProfile, NoProfile))
          \/ Snapped(t, Work("idle", 0, NoProfile, NoProfile))
      BY <1>0, <1>12, SaveStep, IdleStep DEF Equipped, Work, Store
    <2>2. Rest
      BY <1>0, <1>2, <1>12 DEF Store, Save, SaveFails, Answer, TypeOK
    <2>3. QED
      BY <1>1, <2>1, <2>2
  <1>13. ASSUME NEW usable \in BOOLEAN, Restart(usable) PROVE TypeInv'
    <2>1. /\ thread' \in [Threads -> Thread]
          /\ \A u \in Threads : Equipped(thread[u])'
      <3>1. thread' = [u \in Threads |-> Idle]
        BY <1>13 DEF Restart
      <3>2. QED
        BY <3>1, IdleTyped DEF Equipped
    <2>2. Rest
      BY <1>0, <1>13, StaleTyped DEF Restart, TypeOK
    <2>3. QED
      BY <2>1, <2>2 DEF TypeInv, TypeOK
  <1>14. CASE UNCHANGED vars
    BY <1>14 DEF vars, TypeInv, TypeOK, Equipped
  <1>15. QED
    BY <1>3, <1>4, <1>5, <1>6, <1>7, <1>8, <1>10, <1>11, <1>12, <1>13, <1>14
    DEF Next, Request, Reconcile, Invalidate

(***************************************************************************)
(* Every state the App's profile lifecycle can be in is well typed,        *)
(* whatever threads run, and however often the process is restarted.       *)
(***************************************************************************)
THEOREM ProfileTyped == Spec => []TypeOK
  <1>1. TypeInv => TypeOK
    BY DEF TypeInv
  <1>2. QED
    BY <1>1, InitTyped, NextTyped, PTL DEF Spec

-----------------------------------------------------------------------------
(***************************************************************************)
(* Where profiles come from.  All that a step leaves in the App bears the  *)
(* revision and the snapshot of a profile that was there before, unless it *)
(* activates a new one; no thread has a snapshot but those posted.         *)
(***************************************************************************)
Profiles ==
  ({latest, active, disk} \cup {thread[t].prof : t \in Threads}) \ {NoProfile}

Derived(p) ==
  p = NoProfile \/ \E q \in Profiles : p.rev = q.rev /\ p.snap = q.snap

SnapsKept ==
  \A u \in Threads :
    thread'[u].snap = NoProfile \/ \E w \in Threads : thread'[u].snap = thread[w].snap

Inherits ==
  /\ \A p \in Profiles' : Derived(p)
  /\ SnapsKept

LEMMA StaleDerived ==
  ASSUME NEW p \in Profile, p \in Profiles
  PROVE  Derived(Stale(p))
  BY StaleTyped DEF Derived

LEMMA HeldDerived ==
  ASSUME TypeInv
  PROVE  /\ Derived(NoProfile) /\ Derived(latest) /\ Derived(active) /\ Derived(disk)
         /\ \A u \in Threads : Derived(thread[u].prof)
         /\ active \in Profile => Derived(Stale(active))
  <1>1. active \in Profile => Derived(Stale(active))
    BY StaleDerived, NoProfileIsNone DEF Profiles
  <1>2. QED
    BY <1>1 DEF Derived, Profiles

LEMMA StepInherits ==
  ASSUME TypeInv, NEW t \in Threads, NEW work, Turns(t, work),
         work.snap = NoProfile \/ work.snap = thread[t].snap,
         Derived(work.prof), Derived(latest'), Derived(active'), Derived(disk')
  PROVE  Inherits
  <1>1. \A u \in Threads : Derived(thread'[u].prof)
    BY HeldDerived DEF Turns
  <1>2. SnapsKept
    BY DEF SnapsKept, Turns
  <1>3. \A p \in Profiles' : Derived(p)
    BY <1>1 DEF Profiles
  <1>4. QED
    BY <1>2, <1>3 DEF Inherits

LEMMA SameInherits ==
  ASSUME TypeInv, NEW t \in Threads, NEW work, Turns(t, work),
         work.snap = NoProfile \/ work.snap = thread[t].snap,
         Derived(work.prof), UNCHANGED <<latest, active, disk>>
  PROVE  Inherits
  BY HeldDerived, StepInherits

LEMMA QuietInherits ==
  ASSUME TypeInv, NEW t \in Threads,
         \/ PostInvalidate(t) \/ BeginCompile(t) \/ Supersede(t) \/ ReturnLatest(t)
         \/ Publish(t) \/ Invalidate(t) \/ Store(t) \/ Answer(t)
  PROVE  Inherits
  <1>0. /\ TypeOK
        /\ thread[t] = Work(thread[t].at, thread[t].gen, thread[t].snap, thread[t].prof)
    BY ThreadFields DEF TypeInv
  <1>1. CASE PostInvalidate(t)
    <2>1. UNCHANGED <<latest, active, disk>>
      BY <1>1 DEF PostInvalidate
    <2>2. QED
      BY <1>0, <1>1, <2>1, PostInvalidateStep, SameInherits, HeldDerived DEF Work
  <1>2. CASE BeginCompile(t)
    <2>1. UNCHANGED <<latest, active, disk>>
      BY <1>2 DEF BeginCompile
    <2>2. QED
      BY <1>0, <1>2, <2>1, BeginCompileStep, SameInherits, HeldDerived DEF Work
  <1>3. CASE Supersede(t)
    <2>1. UNCHANGED <<latest, active, disk>>
      BY <1>3 DEF Supersede
    <2>2. QED
      BY <1>0, <1>3, <2>1, SupersedeStep, SameInherits, HeldDerived DEF Work
  <1>4. CASE ReturnLatest(t)
    <2>1. UNCHANGED <<latest, active, disk>>
      BY <1>4 DEF ReturnLatest
    <2>2. CASE Turns(t, Work("idle", 0, NoProfile, NoProfile))
      BY <2>1, <2>2, SameInherits, HeldDerived DEF Work
    <2>3. CASE Turns(t, Work("publish", 0, NoProfile, latest))
      BY <2>1, <2>3, SameInherits, HeldDerived DEF Work
    <2>4. QED
      BY <1>0, <1>4, <2>2, <2>3, ReturnLatestStep
  <1>5. ASSUME NEW step \in {"bump", "mark", "save", "status"}, GoTo(t, step),
               Derived(latest'), Derived(active'), disk' = disk
        PROVE  Inherits
    BY <1>0, <1>5, GoToStep, StepInherits, HeldDerived DEF Work
  <1>6. CASE Publish(t)
    BY <1>5, <1>6, HeldDerived DEF Publish
  <1>7. CASE Ingest(t) \/ Bump(t)
    BY <1>5, <1>7, HeldDerived DEF Ingest, Bump
  <1>8. CASE Assign(t)
    BY <1>5, <1>8, HeldDerived DEF Assign
  <1>9. CASE Mark(t)
    <2>1. UNCHANGED <<latest, active, disk>>
      BY <1>9 DEF Mark
    <2>2. CASE Turns(t, Work("status", thread[t].gen, thread[t].snap, thread[t].prof))
      BY <2>1, <2>2, SameInherits, HeldDerived DEF Work
    <2>3. CASE /\ active \in Profile
               /\ Turns(t, Work("assign", 0, NoProfile, Stale(active)))
      BY <2>1, <2>3, SameInherits, HeldDerived DEF Work
    <2>4. QED
      BY <1>0, <1>9, <2>2, <2>3, MarkStep
  <1>10. CASE Store(t)
    <2>1. /\ latest' = latest /\ active' = active
          /\ disk' = disk \/ disk' = thread[t].prof
      BY <1>10 DEF Store, Save, SaveFails
    <2>2. Derived(latest') /\ Derived(active') /\ Derived(disk')
      BY <2>1, HeldDerived
    <2>3. \/ Turns(t, Work("status", 0, NoProfile, NoProfile))
          \/ Turns(t, Work("idle", 0, NoProfile, NoProfile))
      BY <1>0, <1>10, SaveStep, IdleStep DEF Store
    <2>4. QED
      BY <2>2, <2>3, StepInherits, HeldDerived DEF Work
  <1>11. CASE Answer(t)
    <2>1. UNCHANGED <<latest, active, disk>>
      BY <1>11 DEF Answer
    <2>2. QED
      BY <1>0, <1>11, <2>1, IdleStep, SameInherits, HeldDerived DEF Work
  <1>12. QED
    BY <1>1, <1>2, <1>3, <1>4, <1>6, <1>7, <1>8, <1>9, <1>10, <1>11 DEF Invalidate

LEMMA RestartInherits ==
  ASSUME TypeInv, NEW usable, Restart(usable)
  PROVE  Inherits
  <1>1. \A u \in Threads : thread'[u] = Idle
    BY DEF Restart
  <1>2. Idle.snap = NoProfile /\ Idle.prof = NoProfile
    BY DEF Idle
  <1>3. disk \in Profile => Derived(Stale(disk))
    BY StaleDerived, NoProfileIsNone DEF Profiles
  <1>4. disk \in Profile \cup {NoProfile}
    BY DEF TypeInv, TypeOK
  <1>5. (active' = Stale(disk) /\ disk \in Profile) \/ active' = NoProfile
    BY <1>4 DEF Restart
  <1>6. Derived(active') /\ Derived(latest') /\ Derived(disk')
    BY <1>3, <1>5, HeldDerived DEF Restart
  <1>7. \A p \in Profiles' : Derived(p)
    BY <1>1, <1>2, <1>6, HeldDerived DEF Profiles
  <1>8. SnapsKept
    BY <1>1, <1>2 DEF SnapsKept
  <1>9. QED
    BY <1>7, <1>8 DEF Inherits

LEMMA ActivateAdds ==
  ASSUME TypeInv, NEW t \in Threads, NEW rev \in Revisions, Activate(t, rev)
  PROVE  /\ SnapsKept
         /\ latest' \in Profile /\ latest'.rev = rev
         /\ latest'.snap = thread[t].snap /\ thread[t].snap \in Snapshots
         /\ \A p \in Profiles' : p = latest' \/ Derived(p)
  <1>1. /\ latest' \in Profile /\ latest'.rev = rev
        /\ Turns(t, Work("publish", 0, NoProfile, latest'))
    BY ActivateStep
  <1>2. latest'.snap = thread[t].snap /\ active' = active /\ disk' = disk
    BY DEF Activate
  <1>3. thread[t].snap \in Snapshots
    BY DEF TypeInv, Equipped, Activate, At
  <1>4. \A u \in Threads : /\ thread'[u].prof = latest' \/ Derived(thread'[u].prof)
                           /\ thread'[u].snap = NoProfile \/ thread'[u].snap = thread[u].snap
    BY <1>1, HeldDerived DEF Turns, Work
  <1>5. SnapsKept
    BY <1>4 DEF SnapsKept
  <1>6. \A p \in Profiles' : p = latest' \/ Derived(p)
    BY <1>2, <1>4, HeldDerived DEF Profiles
  <1>7. QED
    BY <1>1, <1>2, <1>3, <1>5, <1>6

LEMMA PostReconcileAdds ==
  ASSUME TypeInv, NEW t \in Threads, NEW s \in Snapshots, PostReconcile(t, s)
  PROVE  /\ thread' \in [Threads -> Thread]
         /\ thread'[t].at = "reconcile" /\ thread'[t].snap = s
         /\ \A u \in Threads \ {t} : thread'[u] = thread[u]
         /\ \A p \in Profiles' : Derived(p)
  <1>1. Turns(t, Work("reconcile", 0, s, NoProfile))
    BY PostReconcileStep DEF TypeInv
  <1>2. UNCHANGED <<latest, active, disk>>
    BY DEF PostReconcile
  <1>3. \A u \in Threads : Derived(thread'[u].prof)
    BY <1>1, HeldDerived DEF Turns, Work
  <1>4. \A p \in Profiles' : Derived(p)
    BY <1>2, <1>3, HeldDerived DEF Profiles
  <1>5. QED
    BY <1>1, <1>4 DEF Turns, Work

-----------------------------------------------------------------------------
(***************************************************************************)
(* A request for a reconciliation never does what an invalidation does,    *)
(* and leaves an active profile behind when it comes to an end.            *)
(***************************************************************************)
Reconciling(work, p) ==
  /\ work.at \notin {"invalidate", "bump", "mark", "assign"}
  /\ work.at \in {"save", "status"} => p # NoProfile

LEMMA TurnTyped ==
  ASSUME TypeInv, NEW t \in Threads,
         Reconcile(t) \/ Invalidate(t) \/ Store(t) \/ Answer(t)
  PROVE  TypeInv'
  <1>1. Next
    BY DEF Next
  <1>2. QED
    BY <1>1, NextTyped

LEMMA TurnGoesOn ==
  ASSUME TypeInv, NEW t \in Threads,
         Reconcile(t) \/ Invalidate(t) \/ Store(t) \/ Answer(t)
  PROVE  /\ thread[t].at # "idle"
         /\ \A u \in Threads \ {t} : thread'[u] = thread[u]
         /\ active # NoProfile => active' # NoProfile
         /\ Reconciling(thread[t], active) => Reconciling(thread'[t], active')
  <1>0. TypeOK /\ Equipped(thread[t])
    BY DEF TypeInv
  <1> DEFINE Goal(from) ==
        /\ thread[t].at = from
        /\ \A u \in Threads \ {t} : thread'[u] = thread[u]
        /\ active # NoProfile => active' # NoProfile
        /\ Reconciling(thread[t], active) => Reconciling(thread'[t], active')
  <1>1. CASE BeginCompile(t)
    <2>1. active' = active /\ thread[t].at = "reconcile"
      BY <1>1 DEF BeginCompile, At
    <2>2. Turns(t, Work("compile", generation, thread[t].snap, thread[t].prof))
      BY <1>0, <1>1, BeginCompileStep
    <2>3. thread'[t].at = "compile"
      BY <2>2 DEF Turns, Work
    <2>4. QED
      BY <2>1, <2>2, <2>3 DEF Turns, Reconciling
  <1>2. ASSUME NEW rev \in Revisions, Activate(t, rev) PROVE Goal("compile")
    <2>1. active' = active /\ thread[t].at = "compile"
      BY <1>2 DEF Activate, At
    <2>2. QED
      BY <1>2, <2>1, ActivateStep DEF Turns, Work, Reconciling
  <1>3. CASE Supersede(t)
    <2>1. active' = active /\ thread[t].at = "compile"
      BY <1>3 DEF Supersede, At
    <2>2. QED
      BY <1>0, <1>3, <2>1, SupersedeStep DEF Turns, Work, Reconciling
  <1>4. CASE ReturnLatest(t)
    <2>1. active' = active /\ thread[t].at = "superseded"
      BY <1>4 DEF ReturnLatest, At
    <2>2. QED
      BY <1>0, <1>4, <2>1, ReturnLatestStep DEF Turns, Work, Reconciling
  <1>5. CASE Publish(t)
    <2>1. /\ active' = thread[t].prof /\ thread[t].at = "publish"
          /\ GoTo(t, "save")
      BY <1>5 DEF Publish, At
    <2>2. active' # NoProfile
      BY <1>0, <2>1, NoProfileIsNone DEF Equipped
    <2>3. Turns(t, Work("save", thread[t].gen, thread[t].snap, thread[t].prof))
      BY <1>0, <2>1, GoToStep
    <2>4. thread'[t].at = "save"
      BY <2>3 DEF Turns, Work
    <2>5. QED
      BY <2>1, <2>2, <2>3, <2>4 DEF Turns, Reconciling
  <1>6. CASE Ingest(t) \/ Bump(t)
    <2>1. /\ active' = active /\ thread[t].at \in {"invalidate", "bump"}
          /\ \E step \in {"bump", "mark"} : GoTo(t, step)
      BY <1>6 DEF Ingest, Bump, At
    <2>2. \A u \in Threads \ {t} : thread'[u] = thread[u]
      BY <1>0, <2>1, GoToStep DEF Turns
    <2>3. QED
      BY <2>1, <2>2 DEF Reconciling
  <1>7. CASE Mark(t)
    <2>1. active' = active /\ thread[t].at = "mark"
      BY <1>7 DEF Mark, At
    <2>2. QED
      BY <1>0, <1>7, <2>1, MarkStep DEF Turns, Reconciling
  <1>8. CASE Assign(t)
    <2>1. /\ active' = thread[t].prof /\ thread[t].at = "assign"
          /\ GoTo(t, "save")
      BY <1>8 DEF Assign, At
    <2>2. active' # NoProfile
      BY <1>0, <2>1, NoProfileIsNone DEF Equipped
    <2>3. \A u \in Threads \ {t} : thread'[u] = thread[u]
      BY <1>0, <2>1, GoToStep DEF Turns
    <2>4. QED
      BY <2>1, <2>2, <2>3 DEF Reconciling
  <1>9. CASE Store(t)
    <2>1. active' = active /\ thread[t].at = "save"
      BY <1>9 DEF Store, Save, SaveFails, At
    <2>2. \/ Turns(t, Work("status", 0, NoProfile, NoProfile))
          \/ Turns(t, Work("idle", 0, NoProfile, NoProfile))
      BY <1>0, <1>9, SaveStep, IdleStep DEF Store
    <2>3. QED
      BY <2>1, <2>2 DEF Turns, Work, Reconciling
  <1>10. CASE Answer(t)
    <2>1. active' = active /\ thread[t].at = "status"
      BY <1>10 DEF Answer, At
    <2>2. QED
      BY <1>0, <1>10, <2>1, IdleStep DEF Turns, Work, Reconciling
  <1>11. QED
    BY <1>1, <1>2, <1>3, <1>4, <1>5, <1>6, <1>7, <1>8, <1>9, <1>10
    DEF Reconcile, Invalidate

-----------------------------------------------------------------------------
(***************************************************************************)
(* How one step of a request moves its thread on: where a thread that is   *)
(* now at a place has been before, and what it has brought along.          *)
(***************************************************************************)
MovesOn(t) ==
  LET here == thread[t]
      next == thread'[t]
  IN /\ next.at \notin {"reconcile", "invalidate"}
     /\ next.at = "compile" =>
          here.at = "reconcile" /\ next.gen = generation /\ next.snap = here.snap
     /\ next.at = "superseded" =>
          here.at = "compile" /\ here.gen # generation /\ pending' = TRUE
     /\ next.at = "publish" =>
          \/ here.at = "superseded"
          \/ /\ here.at = "compile" /\ next.prof = latest'
             /\ next.prof.snap = here.snap
     /\ next.at = "bump" => here.at = "invalidate"
     /\ next.at = "mark" => here.at = "bump"
     /\ next.at = "assign" => here.at = "mark" /\ next.prof.status = "stale"
     /\ next.at = "save" =>
          here.at \in {"publish", "assign"} /\ active' = here.prof
     /\ next.at = "status" =>
          here.at = "save" \/ here.at = "mark"
     /\ next.at = "idle" => here.at \in {"superseded", "save", "status"}

(***************************************************************************)
(* What it does to the state that the threads share.                       *)
(***************************************************************************)
Touches(t) ==
  /\ \/ generation' = generation
     \/ thread[t].at = "bump" /\ generation' = generation + 1
  /\ \/ pending => pending'
     \/ thread[t].at = "compile" /\ thread'[t].at = "publish"
  /\ active' = active \/ thread'[t].at = "save"

LEMMA TurnMoves ==
  ASSUME TypeInv, NEW t \in Threads,
         Reconcile(t) \/ Invalidate(t) \/ Store(t) \/ Answer(t)
  PROVE  MovesOn(t) /\ Touches(t)
  <1>0. TypeOK
    BY DEF TypeInv
  <1> DEFINE Goal == MovesOn(t) /\ Touches(t)
  <1>1. CASE BeginCompile(t)
    <2>1. /\ thread[t].at = "reconcile"
          /\ UNCHANGED <<generation, pending, active>>
      BY <1>1 DEF BeginCompile, At
    <2>2. thread'[t] = Work("compile", generation, thread[t].snap, thread[t].prof)
      BY <1>0, <1>1, BeginCompileStep DEF Turns
    <2>3. QED
      BY <2>1, <2>2 DEF Work, MovesOn, Touches
  <1>2. ASSUME NEW rev \in Revisions, Activate(t, rev) PROVE Goal
    <2>1. /\ thread[t].at = "compile" /\ latest'.snap = thread[t].snap
          /\ UNCHANGED <<generation, active>>
      BY <1>2 DEF Activate, At
    <2>2. thread'[t] = Work("publish", 0, NoProfile, latest')
      BY <1>2, ActivateStep DEF Turns
    <2>3. QED
      BY <2>1, <2>2 DEF Work, MovesOn, Touches
  <1>3. CASE Supersede(t)
    <2>1. /\ thread[t].at = "compile" /\ thread[t].gen # generation /\ pending' = TRUE
          /\ UNCHANGED <<generation, active>>
      BY <1>3 DEF Supersede, At
    <2>2. thread'[t] = Work("superseded", 0, NoProfile, NoProfile)
      BY <1>0, <1>3, SupersedeStep DEF Turns
    <2>3. QED
      BY <2>1, <2>2 DEF Work, MovesOn, Touches
  <1>4. CASE ReturnLatest(t)
    <2>1. /\ thread[t].at = "superseded" /\ UNCHANGED <<generation, pending, active>>
      BY <1>4 DEF ReturnLatest, At
    <2>2. \/ thread'[t] = Work("idle", 0, NoProfile, NoProfile)
          \/ thread'[t] = Work("publish", 0, NoProfile, latest)
      BY <1>0, <1>4, ReturnLatestStep DEF Turns
    <2>3. QED
      BY <2>1, <2>2 DEF Work, MovesOn, Touches
  <1>5. CASE Publish(t)
    <2>1. /\ thread[t].at = "publish" /\ active' = thread[t].prof
          /\ UNCHANGED <<generation, pending>>
      BY <1>5 DEF Publish, At
    <2>2. thread'[t] = Work("save", thread[t].gen, thread[t].snap, thread[t].prof)
      BY <1>0, <1>5, GoToStep DEF Turns, Publish
    <2>3. QED
      BY <2>1, <2>2 DEF Work, MovesOn, Touches
  <1>6. CASE Ingest(t)
    <2>1. thread[t].at = "invalidate" /\ pending' = TRUE /\ UNCHANGED <<generation, active>>
      BY <1>6 DEF Ingest, At
    <2>2. thread'[t] = Work("bump", thread[t].gen, thread[t].snap, thread[t].prof)
      BY <1>0, <1>6, GoToStep DEF Turns, Ingest
    <2>3. QED
      BY <2>1, <2>2 DEF Work, MovesOn, Touches
  <1>7. CASE Bump(t)
    <2>1. /\ thread[t].at = "bump" /\ generation' = generation + 1
          /\ UNCHANGED <<pending, active>>
      BY <1>7 DEF Bump, At
    <2>2. thread'[t] = Work("mark", thread[t].gen, thread[t].snap, thread[t].prof)
      BY <1>0, <1>7, GoToStep DEF Turns, Bump
    <2>3. QED
      BY <2>1, <2>2 DEF Work, MovesOn, Touches
  <1>8. CASE Mark(t)
    <2>1. thread[t].at = "mark" /\ UNCHANGED <<generation, pending, active>>
      BY <1>8 DEF Mark, At
    <2>2. \/ thread'[t] = Work("status", thread[t].gen, thread[t].snap, thread[t].prof)
          \/ /\ thread'[t] = Work("assign", 0, NoProfile, Stale(active))
             /\ Stale(active).status = "stale"
      BY <1>0, <1>8, MarkStep, StaleTyped DEF Turns
    <2>3. QED
      BY <2>1, <2>2 DEF Work, MovesOn, Touches
  <1>9. CASE Assign(t)
    <2>1. /\ thread[t].at = "assign" /\ active' = thread[t].prof
          /\ UNCHANGED <<generation, pending>>
      BY <1>9 DEF Assign, At
    <2>2. thread'[t] = Work("save", thread[t].gen, thread[t].snap, thread[t].prof)
      BY <1>0, <1>9, GoToStep DEF Turns, Assign
    <2>3. QED
      BY <2>1, <2>2 DEF Work, MovesOn, Touches
  <1>10. CASE Store(t) \/ Answer(t)
    <2>1. /\ thread[t].at \in {"save", "status"}
          /\ UNCHANGED <<generation, pending, active>>
      BY <1>10 DEF Store, Save, SaveFails, Answer, At
    <2>2. \/ thread'[t] = Work("idle", 0, NoProfile, NoProfile)
          \/ /\ thread'[t] = Work("status", 0, NoProfile, NoProfile)
             /\ thread[t].at = "save"
      BY <1>0, <1>10, SaveStep, IdleStep DEF Turns, Store, Save, At
    <2>3. QED
      BY <2>1, <2>2 DEF Work, MovesOn, Touches
  <1>11. QED
    BY <1>1, <1>2, <1>3, <1>4, <1>5, <1>6, <1>7, <1>8, <1>9, <1>10
    DEF Reconcile, Invalidate
=============================================================================
