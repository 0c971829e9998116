-------------------------- MODULE SupervisorProofs --------------------------
(***************************************************************************)
(* Proofs about the supervisor, for any finite sets of providers and tasks *)
(* and any limits.  IInv is inductive; the safety properties follow.       *)
(***************************************************************************)
EXTENDS SupervisorProperties, FiniteSetTheorems, TLAPS

\* What the assumption on the constants says of one task of each kind.
LEMMA TaskKinds ==
    /\ Clients \subseteq Tasks /\ Stoppers \subseteq Tasks
    /\ Reaper \in Stoppers /\ Lifespan \in Stoppers /\ Admins \subseteq Stoppers
    /\ Reaper \in Tasks /\ Lifespan \in Tasks /\ NoOne \notin Tasks
    /\ \A c \in Clients : c \notin Stoppers /\ c # Reaper /\ c # Lifespan
    /\ \A a \in Admins : a \in Tasks /\ a # Reaper /\ a # Lifespan /\ a \notin Clients
    /\ Reaper # Lifespan /\ NoOne \notin Providers /\ Every \notin Providers
    /\ \A t \in Cancellable : t \in Clients \cup Admins /\ t \in Tasks
    /\ Every # NoOne
    /\ Reaper \notin Admins /\ Lifespan \notin Admins
  BY SupervisorAssumption DEF Tasks, Stoppers

\* A task that has made its call has a provider.
LEMMA TargetType ==
    ASSUME TypeOK, NEW c \in Clients, pc[c] # "new"
    PROVE  target[c] \in Providers
  BY DEF TypeOK

\* The sets of tasks that hold a lease are finite, and a task that holds one is
\* counted.
LEMMA HoldersFinite ==
    ASSUME NEW p \in Providers
    PROVE  /\ IsFiniteSet(Holders(p)) /\ Cardinality(Holders(p)) \in Nat
           /\ \A c \in Holders(p) : Cardinality(Holders(p)) >= 1
<1>1. IsFiniteSet(Holders(p))
  BY SupervisorAssumption, FS_Subset DEF Holders
<1>2. Cardinality(Holders(p)) \in Nat
  BY <1>1, FS_CardinalityType
<1>3. Cardinality(Holders(p)) = 0 <=> Holders(p) = {}
  BY <1>1, FS_EmptySet
<1>4. QED
  BY <1>1, <1>2, <1>3

\* A task in the body of acquire() makes the count of its provider positive.
LEMMA HolderCounted ==
    ASSUME TypeOK, LeaseCovered, NEW c \in Clients, pc[c] \in {"leased", "releasing"}
    PROVE  target[c] \in Providers /\ active[target[c]] \in Nat /\ active[target[c]] >= 1
<1>1. target[c] \in Providers
  BY TargetType
<1>2. c \in Holders(target[c])
  BY DEF Holders
<1>3. active[target[c]] \in Nat
  BY <1>1 DEF TypeOK
<1>4. active[target[c]] >= Cardinality(Holders(target[c]))
  BY <1>1 DEF LeaseCovered
<1>5. QED
  BY <1>1, <1>2, <1>3, <1>4, HoldersFinite

\* notify_all() changes the waiting tasks alone.
LEMMA NotifyAllValue ==
    ASSUME NEW f, NEW t \in Tasks
    PROVE  NotifyAll(f)[t] = IF f[t] = "waiting" THEN "woken" ELSE f[t]
  BY DEF NotifyAll

\* The supervisor starts with an empty table, no lease and a free lock: IInv holds.
THEOREM InitIInv == Init => IInv
<1> SUFFICES ASSUME Init PROVE IInv
  OBVIOUS
<1> USE SupervisorAssumption, TaskKinds
<1>0. /\ pc[Lifespan] = "preparing" /\ pc[Reaper] = "off"
      /\ \A t \in Clients \cup Admins : pc[t] = "new"
  BY DEF Init
<1>1. TypeOK
  <2>1. pc \in [Tasks -> PCs \cup {"preparing", "failed", "running", "drain",
                                  "stopped", "off", "sleep"}]
    BY DEF Init, PCs
  <2>2. /\ clock \in 1..MaxClock /\ asOf \in 0..MaxClock
        /\ target \in [Clients \cup Admins -> Providers \cup {Every, NoOne}]
        /\ \A c \in Clients : target[c] = NoOne
    BY DEF Init
  <2>4. /\ proc \in [Providers -> {"absent", "booting", "ready", "dead"}]
        /\ alive \in [Providers -> Nat] /\ active \in [Providers -> Nat]
        /\ lastUsed \in [Providers -> Nat]
        /\ started \in BOOLEAN
    BY DEF Init
  <2>3. QED
    BY <1>0, <2>1, <2>2, <2>4 DEF Init, TypeOK, PCs, StopPCs
<1>2. Resident = {}
  BY DEF Init, Resident
<1>3. \A t \in Tasks : pc[t] \in {"preparing", "off", "new"}
  BY DEF Init
<1>4. LockInv
  BY <1>2, <1>3 DEF Init, LockInv, HolderPCs
<1>5. ClientInv
  BY <1>3 DEF Init, ClientInv, HolderPCs
<1>6. SlotInv
  BY <1>2, <1>3, FS_EmptySet DEF SlotInv, StopPCs
<1>7. TodoInv
  BY <1>3 DEF Init, TodoInv, StopPCs
<1>8. LifespanInv
  BY DEF Init, LifespanInv, StopPCs
<1>9. WaiterInv
  BY <1>3 DEF WaiterInv
<1>10. LeaseCovered
  <2> SUFFICES ASSUME NEW p \in Providers PROVE active[p] >= Cardinality(Holders(p))
    BY DEF LeaseCovered
  <2>1. Holders(p) = {}
    BY <1>3 DEF Holders
  <2>2. QED
    BY <2>1, FS_EmptySet DEF Init
<1>11. AliveInv
  <2> SUFFICES ASSUME NEW p \in Providers PROVE alive[p] >= Reachable(p)
    BY DEF Init, AliveInv
  <2>1. QED
    BY DEF Init, Reachable, Running
<1>12. QED
  BY <1>1, <1>4, <1>5, <1>6, <1>7, <1>8, <1>9, <1>10, <1>11 DEF IInv

\* A task that is about to pick its next stop, or that finds the lock free, stops
\* nothing at the moment.
LEMMA NoVictim ==
    ASSUME IInv, lock = NoOne \/ \E t \in Tasks : pc[t] = "loop"
    PROVE  victim = NoOne
  BY TaskKinds DEF IInv, LockInv, HolderPCs

\* A process the supervisor can reach is one the host runs.
LEMMA ReachableRuns ==
    ASSUME IInv, NEW p \in Providers, proc[p] \in Running \/ victim = p \/ Strays(p) > 0
    PROVE  alive[p] \in Nat /\ alive[p] >= 1
<1>1. alive[p] \in Nat /\ alive[p] >= Reachable(p)
  BY DEF IInv, TypeOK, AliveInv
<1>2. QED
  BY <1>1 DEF Reachable, Strays

\* TypeOK is preserved.
LEMMA TypeStep == ASSUME IInv, Next PROVE TypeOK'
<1> USE SupervisorAssumption, TaskKinds DEF IInv, TypeOK, PCs, StopPCs,
        idleVars, leaseVars, stopVars
<1>1. ASSUME NEW p \in Providers, PrepareBundle(p)
      PROVE  TypeOK'
  BY <1>1 DEF PrepareBundle
<1>2. ASSUME PrepareFails
      PROVE  TypeOK'
  BY <1>2 DEF PrepareFails
<1>3. ASSUME Start
      PROVE  TypeOK'
  BY <1>3 DEF Start
<1>4. ASSUME StopBegins
      PROVE  TypeOK'
  <2> DEFINE f == [pc EXCEPT ![Lifespan] = "drain", ![Reaper] = "off"]
  <2>1. f \in [Tasks -> PCs \cup {"preparing", "failed", "running", "drain",
                                "stopped", "off", "sleep"}]
    OBVIOUS
  <2>2. /\ \A c \in Clients : f[c] \in PCs /\ (pc[c] = "new" <=> f[c] = "new")
        /\ \A a \in Admins : f[a] = pc[a]
        /\ f[Reaper] = "off" /\ f[Lifespan] = "drain"
    OBVIOUS
  <2>3. pc' = NotifyAll(f)
    BY <1>4 DEF StopBegins
  <2> HIDE DEF f
  <2>4. /\ pc' \in [Tasks -> PCs \cup {"preparing", "failed", "running", "drain",
                                   "stopped", "off", "sleep"}]
        /\ \A c \in Clients : pc'[c] \in PCs /\ (pc'[c] # "new" => pc[c] # "new")
        /\ \A a \in Admins : pc'[a] = IF pc[a] = "waiting" THEN "woken" ELSE pc[a]
        /\ pc'[Reaper] = "off" /\ pc'[Lifespan] = "drain"
    BY <2>1, <2>2, <2>3 DEF NotifyAll
  <2>5. asOf' \in 0..MaxClock /\ clock' \in 1..MaxClock
    BY <1>4 DEF StopBegins
  <2>6. \A a \in Admins : pc'[a] \in StopPCs \cup {"new", "enter", "done"}
    BY <2>4
  <2>7. \A t \in Clients \cup Admins : pc'[t] # "new" => pc[t] # "new"
    BY <2>4
  <2>8. /\ UNCHANGED <<proc, alive, active, lastUsed, lock, victim, todo, target,
                     unprepared>>
        /\ started' \in BOOLEAN
    BY <1>4 DEF StopBegins
  <2>9. \A c \in Clients : pc'[c] \in PCs /\ target'[c] # Every
    BY <2>4, <2>8
  <2>10. lock' \in Tasks \cup {NoOne} /\ victim' \in Providers \cup {NoOne}
    BY <2>8
  <2>11. QED
    BY <2>4, <2>5, <2>6, <2>7, <2>8, <2>9, <2>10
<1>5. ASSUME StopDrains
      PROVE  TypeOK'
  BY <1>5 DEF StopDrains, DrainTargets, Resident
<1>6. ASSUME NEW c \in Clients, NEW p \in Providers, CallAcquire(c, p)
      PROVE  TypeOK'
  BY <1>6 DEF CallAcquire
<1>7. ASSUME NEW c \in Clients, NEW p \in Providers, Evict(c, p)
      PROVE  TypeOK'
  BY <1>7 DEF Evict, Decides, Pop, LeastRecent, IdleCandidates
<1>8. ASSUME NEW c \in Clients, Refuse(c)
      PROVE  TypeOK'
  BY <1>8 DEF Refuse
<1>9. ASSUME NEW c \in Clients, WaitForSlot(c)
      PROVE  TypeOK'
  BY <1>9 DEF WaitForSlot, Decides
<1>10. ASSUME NEW c \in Clients, Reuse(c)
      PROVE  TypeOK'
  BY <1>10 DEF Reuse, Decides, Running
<1>11. ASSUME NEW c \in Clients, Spawn(c)
      PROVE  TypeOK'
  BY <1>11 DEF Spawn, Decides
<1>12. ASSUME NEW c \in Clients, SpawnFails(c)
      PROVE  TypeOK'
  BY <1>12 DEF SpawnFails, Decides
<1>13. ASSUME NEW c \in Clients, Healthy(c)
      PROVE  TypeOK'
  BY <1>13 DEF Healthy, Answers, Running
<1>14. ASSUME NEW c \in Clients, Unhealthy(c)
      PROVE  TypeOK'
  BY <1>14 DEF Unhealthy
<1>15. ASSUME NEW c \in Clients, Return(c)
      PROVE  TypeOK'
  <2> DEFINE f == [pc EXCEPT ![c] = "done"]
  <2>1. f \in [Tasks -> PCs \cup {"preparing", "failed", "running", "drain",
                                "stopped", "off", "sleep"}]
    OBVIOUS
  <2>2. /\ \A d \in Clients : f[d] \in PCs /\ (f[d] # "new" => pc[d] # "new")
        /\ \A a \in Admins : f[a] = pc[a]
        /\ f[Reaper] = pc[Reaper] /\ f[Lifespan] = pc[Lifespan]
    BY <1>15 DEF Return
  <2>3. pc' = NotifyAll(f)
    BY <1>15 DEF Return
  <2>4. /\ active' \in [Providers -> Nat] /\ lastUsed' \in [Providers -> Nat]
    BY <1>15, HolderCounted DEF Return
  <2> HIDE DEF f
  <2>5. QED
    BY <1>15, <2>1, <2>2, <2>3, <2>4, NotifyAllValue DEF Return, NotifyAll
<1>16. ASSUME NEW c \in Clients, QueueReturn(c)
      PROVE  TypeOK'
  BY <1>16 DEF QueueReturn
<1>17. ASSUME NEW a \in Admins, NEW x \in Providers \cup {Every}, CallUnload(a, x)
      PROVE  TypeOK'
  BY <1>17 DEF CallUnload
<1>18. ASSUME NEW a \in Admins, UnloadBusy(a)
      PROVE  TypeOK'
  BY <1>18 DEF UnloadBusy
<1>19. ASSUME NEW a \in Admins, UnloadBegins(a)
      PROVE  TypeOK'
  BY <1>19 DEF UnloadBegins, Scope
<1>20. ASSUME ReaperWakes
      PROVE  TypeOK'
  BY <1>20 DEF ReaperWakes
<1>21. ASSUME ReaperSweeps
      PROVE  TypeOK'
  BY <1>21 DEF ReaperSweeps, IdleCandidates, Resident
<1>22. ASSUME NEW t \in Tasks, TermTimeout(t)
      PROVE  TypeOK'
  BY <1>22 DEF TermTimeout
<1>23. ASSUME NEW t \in Tasks, VictimExits(t)
      PROVE  TypeOK'
  <2>1. victim \in Providers
    BY <1>23 DEF VictimExits, LockInv
  <2>2. alive' \in [Providers -> Nat]
    BY <1>23, <2>1, ReachableRuns DEF VictimExits
  <2>3. QED
    BY <1>23, <2>2 DEF VictimExits
<1>24. ASSUME NEW t \in Tasks, StopLoopEnds(t)
      PROVE  TypeOK'
  BY <1>24 DEF StopLoopEnds, AfterSweep
<1>25. ASSUME NEW t \in Tasks, NEW p \in Providers, StopNext(t, p)
      PROVE  TypeOK'
  BY <1>25 DEF StopNext, Pop
<1>26. ASSUME NEW t \in Tasks, CancelQueued(t)
      PROVE  TypeOK'
  BY <1>26 DEF CancelQueued
<1>27. ASSUME NEW t \in Tasks, CancelStop(t)
      PROVE  TypeOK'
  BY <1>27 DEF CancelStop
<1>28. ASSUME NEW t \in Tasks, CancelHealth(t)
      PROVE  TypeOK'
  BY <1>28 DEF CancelHealth
<1>29. ASSUME NEW t \in Tasks, CancelReturn(t)
      PROVE  TypeOK'
  BY <1>29 DEF CancelReturn
<1>30. ASSUME Tick
      PROVE  TypeOK'
  BY <1>30 DEF Tick
<1>31. ASSUME NEW p \in Providers, Boot(p)
      PROVE  TypeOK'
  BY <1>31 DEF Boot
<1>32. ASSUME NEW p \in Providers, Crash(p)
      PROVE  TypeOK'
  <2>1. alive' \in [Providers -> Nat]
    BY <1>32, ReachableRuns DEF Crash
  <2>2. QED
    BY <1>32, <2>1 DEF Crash, Running
<1>33. ASSUME NEW p \in Providers, StrayExits(p)
      PROVE  TypeOK'
  <2>1. alive' \in [Providers -> Nat]
    BY <1>33, ReachableRuns DEF StrayExits
  <2>2. QED
    BY <1>33, <2>1 DEF StrayExits
<1>34. QED
  BY <1>1, <1>2, <1>3, <1>4, <1>5, <1>6, <1>7, <1>8, <1>9, <1>10, <1>11, <1>12, <1>13, <1>14, <1>15, <1>16, <1>17,
     <1>18, <1>19, <1>20, <1>21, <1>22, <1>23, <1>24, <1>25, <1>26, <1>27, <1>28, <1>29, <1>30, <1>31, <1>32, <1>33
     DEF Next, Starting, Stopping, Acquiring, Unloading, Reaping, StopStep, Cancel,
         Environment

\* LockInv is preserved: the lock is taken only when it is free.
LEMMA LockStep == ASSUME IInv, Next PROVE LockInv'
<1> USE SupervisorAssumption, TaskKinds DEF IInv, TypeOK, LockInv, HolderPCs,
        PCs, StopPCs, Resident, idleVars, leaseVars, stopVars
<1>1. ASSUME NEW p \in Providers, PrepareBundle(p)
      PROVE  LockInv'
  BY <1>1 DEF PrepareBundle
<1>2. ASSUME PrepareFails
      PROVE  LockInv'
  BY <1>2 DEF PrepareFails
<1>3. ASSUME Start
      PROVE  LockInv'
  BY <1>3 DEF Start
<1>4. ASSUME StopBegins
      PROVE  LockInv'
  BY <1>4 DEF StopBegins, NotifyAll
<1>5. ASSUME StopDrains
      PROVE  LockInv'
  BY <1>5 DEF StopDrains, DrainTargets
<1>6. ASSUME NEW c \in Clients, NEW p \in Providers, CallAcquire(c, p)
      PROVE  LockInv'
  BY <1>6 DEF CallAcquire
<1>7. ASSUME NEW c \in Clients, NEW p \in Providers, Evict(c, p)
      PROVE  LockInv'
  BY <1>7 DEF Evict, Decides, Pop, LeastRecent, IdleCandidates
<1>8. ASSUME NEW c \in Clients, Refuse(c)
      PROVE  LockInv'
  BY <1>8 DEF Refuse
<1>9. ASSUME NEW c \in Clients, WaitForSlot(c)
      PROVE  LockInv'
  BY <1>9 DEF WaitForSlot, Decides
<1>10. ASSUME NEW c \in Clients, Reuse(c)
      PROVE  LockInv'
  BY <1>10 DEF Reuse, Decides, Running
<1>11. ASSUME NEW c \in Clients, Spawn(c)
      PROVE  LockInv'
  BY <1>11 DEF Spawn, Decides
<1>12. ASSUME NEW c \in Clients, SpawnFails(c)
      PROVE  LockInv'
  BY <1>12 DEF SpawnFails, Decides
<1>13. ASSUME NEW c \in Clients, Healthy(c)
      PROVE  LockInv'
  BY <1>13 DEF Healthy, Answers, Running
<1>14. ASSUME NEW c \in Clients, Unhealthy(c)
      PROVE  LockInv'
  BY <1>14 DEF Unhealthy
<1>15. ASSUME NEW c \in Clients, Return(c)
      PROVE  LockInv'
  BY <1>15 DEF Return, NotifyAll
<1>16. ASSUME NEW c \in Clients, QueueReturn(c)
      PROVE  LockInv'
  BY <1>16 DEF QueueReturn
<1>17. ASSUME NEW a \in Admins, NEW x \in Providers \cup {Every}, CallUnload(a, x)
      PROVE  LockInv'
  BY <1>17 DEF CallUnload
<1>18. ASSUME NEW a \in Admins, UnloadBusy(a)
      PROVE  LockInv'
  BY <1>18 DEF UnloadBusy
<1>19. ASSUME NEW a \in Admins, UnloadBegins(a)
      PROVE  LockInv'
  BY <1>19 DEF UnloadBegins, Scope
<1>20. ASSUME ReaperWakes
      PROVE  LockInv'
  BY <1>20 DEF ReaperWakes
<1>21. ASSUME ReaperSweeps
      PROVE  LockInv'
  BY <1>21 DEF ReaperSweeps, IdleCandidates
<1>22. ASSUME NEW t \in Tasks, TermTimeout(t)
      PROVE  LockInv'
  BY <1>22 DEF TermTimeout
<1>23. ASSUME NEW t \in Tasks, VictimExits(t)
      PROVE  LockInv'
  BY <1>23 DEF VictimExits
<1>24. ASSUME NEW t \in Tasks, StopLoopEnds(t)
      PROVE  LockInv'
  BY <1>24 DEF StopLoopEnds, AfterSweep
<1>25. ASSUME NEW t \in Tasks, NEW p \in Providers, StopNext(t, p)
      PROVE  LockInv'
  BY <1>25 DEF StopNext, Pop
<1>26. ASSUME NEW t \in Tasks, CancelQueued(t)
      PROVE  LockInv'
  BY <1>26 DEF CancelQueued
<1>27. ASSUME NEW t \in Tasks, CancelStop(t)
      PROVE  LockInv'
  BY <1>27 DEF CancelStop
<1>28. ASSUME NEW t \in Tasks, CancelHealth(t)
      PROVE  LockInv'
  BY <1>28 DEF CancelHealth
<1>29. ASSUME NEW t \in Tasks, CancelReturn(t)
      PROVE  LockInv'
  BY <1>29 DEF CancelReturn
<1>30. ASSUME Tick
      PROVE  LockInv'
  BY <1>30 DEF Tick
<1>31. ASSUME NEW p \in Providers, Boot(p)
      PROVE  LockInv'
  BY <1>31 DEF Boot
<1>32. ASSUME NEW p \in Providers, Crash(p)
      PROVE  LockInv'
  BY <1>32 DEF Crash, Running
<1>33. ASSUME NEW p \in Providers, StrayExits(p)
      PROVE  LockInv'
  BY <1>33 DEF StrayExits
<1>34. QED
  BY <1>1, <1>2, <1>3, <1>4, <1>5, <1>6, <1>7, <1>8, <1>9, <1>10, <1>11, <1>12, <1>13, <1>14, <1>15, <1>16, <1>17,
     <1>18, <1>19, <1>20, <1>21, <1>22, <1>23, <1>24, <1>25, <1>26, <1>27, <1>28, <1>29, <1>30, <1>31, <1>32, <1>33
     DEF Next, Starting, Stopping, Acquiring, Unloading, Reaping, StopStep, Cancel,
         Environment

\* ClientInv is preserved.
LEMMA ClientStep == ASSUME IInv, Next PROVE ClientInv'
<1> USE SupervisorAssumption, TaskKinds DEF IInv, TypeOK, LockInv, ClientInv,
        HolderPCs, PCs, StopPCs, Resident, idleVars, leaseVars, stopVars
<1>1. ASSUME NEW p \in Providers, PrepareBundle(p)
      PROVE  ClientInv'
  BY <1>1 DEF PrepareBundle
<1>2. ASSUME PrepareFails
      PROVE  ClientInv'
  BY <1>2 DEF PrepareFails
<1>3. ASSUME Start
      PROVE  ClientInv'
  BY <1>3 DEF Start
<1>4. ASSUME StopBegins
      PROVE  ClientInv'
  BY <1>4 DEF StopBegins, NotifyAll
<1>5. ASSUME StopDrains
      PROVE  ClientInv'
  BY <1>5 DEF StopDrains, DrainTargets
<1>6. ASSUME NEW c \in Clients, NEW p \in Providers, CallAcquire(c, p)
      PROVE  ClientInv'
  BY <1>6 DEF CallAcquire
<1>7. ASSUME NEW c \in Clients, NEW p \in Providers, Evict(c, p)
      PROVE  ClientInv'
  BY <1>7 DEF Evict, Decides, Pop, LeastRecent, IdleCandidates
<1>8. ASSUME NEW c \in Clients, Refuse(c)
      PROVE  ClientInv'
  BY <1>8 DEF Refuse
<1>9. ASSUME NEW c \in Clients, WaitForSlot(c)
      PROVE  ClientInv'
  BY <1>9 DEF WaitForSlot, Decides
<1>10. ASSUME NEW c \in Clients, Reuse(c)
      PROVE  ClientInv'
  BY <1>10 DEF Reuse, Decides, Running
<1>11. ASSUME NEW c \in Clients, Spawn(c)
      PROVE  ClientInv'
  BY <1>11 DEF Spawn, Decides
<1>12. ASSUME NEW c \in Clients, SpawnFails(c)
      PROVE  ClientInv'
  BY <1>12 DEF SpawnFails, Decides
<1>13. ASSUME NEW c \in Clients, Healthy(c)
      PROVE  ClientInv'
  BY <1>13 DEF Healthy, Answers, Running
<1>14. ASSUME NEW c \in Clients, Unhealthy(c)
      PROVE  ClientInv'
  BY <1>14 DEF Unhealthy
<1>15. ASSUME NEW c \in Clients, Return(c)
      PROVE  ClientInv'
  BY <1>15 DEF Return, NotifyAll
<1>16. ASSUME NEW c \in Clients, QueueReturn(c)
      PROVE  ClientInv'
  BY <1>16 DEF QueueReturn
<1>17. ASSUME NEW a \in Admins, NEW x \in Providers \cup {Every}, CallUnload(a, x)
      PROVE  ClientInv'
  BY <1>17 DEF CallUnload
<1>18. ASSUME NEW a \in Admins, UnloadBusy(a)
      PROVE  ClientInv'
  BY <1>18 DEF UnloadBusy
<1>19. ASSUME NEW a \in Admins, UnloadBegins(a)
      PROVE  ClientInv'
  BY <1>19 DEF UnloadBegins, Scope
<1>20. ASSUME ReaperWakes
      PROVE  ClientInv'
  BY <1>20 DEF ReaperWakes
<1>21. ASSUME ReaperSweeps
      PROVE  ClientInv'
  BY <1>21 DEF ReaperSweeps, IdleCandidates
<1>22. ASSUME NEW t \in Tasks, TermTimeout(t)
      PROVE  ClientInv'
  BY <1>22 DEF TermTimeout
<1>23. ASSUME NEW t \in Tasks, VictimExits(t)
      PROVE  ClientInv'
  BY <1>23 DEF VictimExits
<1>24. ASSUME NEW t \in Tasks, StopLoopEnds(t)
      PROVE  ClientInv'
  BY <1>24 DEF StopLoopEnds, AfterSweep
<1>25. ASSUME NEW t \in Tasks, NEW p \in Providers, StopNext(t, p)
      PROVE  ClientInv'
  BY <1>25 DEF StopNext, Pop
<1>26. ASSUME NEW t \in Tasks, CancelQueued(t)
      PROVE  ClientInv'
  BY <1>26 DEF CancelQueued
<1>27. ASSUME NEW t \in Tasks, CancelStop(t)
      PROVE  ClientInv'
  BY <1>27 DEF CancelStop
<1>28. ASSUME NEW t \in Tasks, CancelHealth(t)
      PROVE  ClientInv'
  BY <1>28 DEF CancelHealth
<1>29. ASSUME NEW t \in Tasks, CancelReturn(t)
      PROVE  ClientInv'
  BY <1>29 DEF CancelReturn
<1>30. ASSUME Tick
      PROVE  ClientInv'
  BY <1>30 DEF Tick
<1>31. ASSUME NEW p \in Providers, Boot(p)
      PROVE  ClientInv'
  BY <1>31 DEF Boot
<1>32. ASSUME NEW p \in Providers, Crash(p)
      PROVE  ClientInv'
  BY <1>32 DEF Crash, Running
<1>33. ASSUME NEW p \in Providers, StrayExits(p)
      PROVE  ClientInv'
  BY <1>33 DEF StrayExits
<1>34. QED
  BY <1>1, <1>2, <1>3, <1>4, <1>5, <1>6, <1>7, <1>8, <1>9, <1>10, <1>11, <1>12, <1>13, <1>14, <1>15, <1>16, <1>17,
     <1>18, <1>19, <1>20, <1>21, <1>22, <1>23, <1>24, <1>25, <1>26, <1>27, <1>28, <1>29, <1>30, <1>31, <1>32, <1>33
     DEF Next, Starting, Stopping, Acquiring, Unloading, Reaping, StopStep, Cancel,
         Environment

\* LifespanInv is preserved.
LEMMA LifespanStep == ASSUME IInv, Next PROVE LifespanInv'
<1> USE SupervisorAssumption, TaskKinds DEF IInv, TypeOK, LockInv, ClientInv,
        LifespanInv, HolderPCs, PCs, StopPCs, Resident, idleVars, leaseVars,
        stopVars
<1>1. ASSUME NEW p \in Providers, PrepareBundle(p)
      PROVE  LifespanInv'
  BY <1>1 DEF PrepareBundle
<1>2. ASSUME PrepareFails
      PROVE  LifespanInv'
  BY <1>2 DEF PrepareFails
<1>3. ASSUME Start
      PROVE  LifespanInv'
  BY <1>3 DEF Start
<1>4. ASSUME StopBegins
      PROVE  LifespanInv'
  BY <1>4 DEF StopBegins, NotifyAll
<1>5. ASSUME StopDrains
      PROVE  LifespanInv'
  BY <1>5 DEF StopDrains, DrainTargets
<1>6. ASSUME NEW c \in Clients, NEW p \in Providers, CallAcquire(c, p)
      PROVE  LifespanInv'
  BY <1>6 DEF CallAcquire
<1>7. ASSUME NEW c \in Clients, NEW p \in Providers, Evict(c, p)
      PROVE  LifespanInv'
  BY <1>7 DEF Evict, Decides, Pop, LeastRecent, IdleCandidates
<1>8. ASSUME NEW c \in Clients, Refuse(c)
      PROVE  LifespanInv'
  BY <1>8 DEF Refuse
<1>9. ASSUME NEW c \in Clients, WaitForSlot(c)
      PROVE  LifespanInv'
  BY <1>9 DEF WaitForSlot, Decides
<1>10. ASSUME NEW c \in Clients, Reuse(c)
      PROVE  LifespanInv'
  BY <1>10 DEF Reuse, Decides, Running
<1>11. ASSUME NEW c \in Clients, Spawn(c)
      PROVE  LifespanInv'
  BY <1>11 DEF Spawn, Decides
<1>12. ASSUME NEW c \in Clients, SpawnFails(c)
      PROVE  LifespanInv'
  BY <1>12 DEF SpawnFails, Decides
<1>13. ASSUME NEW c \in Clients, Healthy(c)
      PROVE  LifespanInv'
  BY <1>13 DEF Healthy, Answers, Running
<1>14. ASSUME NEW c \in Clients, Unhealthy(c)
      PROVE  LifespanInv'
  BY <1>14 DEF Unhealthy
<1>15. ASSUME NEW c \in Clients, Return(c)
      PROVE  LifespanInv'
  BY <1>15 DEF Return, NotifyAll
<1>16. ASSUME NEW c \in Clients, QueueReturn(c)
      PROVE  LifespanInv'
  BY <1>16 DEF QueueReturn
<1>17. ASSUME NEW a \in Admins, NEW x \in Providers \cup {Every}, CallUnload(a, x)
      PROVE  LifespanInv'
  BY <1>17 DEF CallUnload
<1>18. ASSUME NEW a \in Admins, UnloadBusy(a)
      PROVE  LifespanInv'
  BY <1>18 DEF UnloadBusy
<1>19. ASSUME NEW a \in Admins, UnloadBegins(a)
      PROVE  LifespanInv'
  BY <1>19 DEF UnloadBegins, Scope
<1>20. ASSUME ReaperWakes
      PROVE  LifespanInv'
  BY <1>20 DEF ReaperWakes
<1>21. ASSUME ReaperSweeps
      PROVE  LifespanInv'
  BY <1>21 DEF ReaperSweeps, IdleCandidates
<1>22. ASSUME NEW t \in Tasks, TermTimeout(t)
      PROVE  LifespanInv'
  BY <1>22 DEF TermTimeout
<1>23. ASSUME NEW t \in Tasks, VictimExits(t)
      PROVE  LifespanInv'
  BY <1>23 DEF VictimExits
<1>24. ASSUME NEW t \in Tasks, StopLoopEnds(t)
      PROVE  LifespanInv'
  BY <1>24 DEF StopLoopEnds, AfterSweep
<1>25. ASSUME NEW t \in Tasks, NEW p \in Providers, StopNext(t, p)
      PROVE  LifespanInv'
  BY <1>25 DEF StopNext, Pop
<1>26. ASSUME NEW t \in Tasks, CancelQueued(t)
      PROVE  LifespanInv'
  BY <1>26 DEF CancelQueued
<1>27. ASSUME NEW t \in Tasks, CancelStop(t)
      PROVE  LifespanInv'
  BY <1>27 DEF CancelStop
<1>28. ASSUME NEW t \in Tasks, CancelHealth(t)
      PROVE  LifespanInv'
  BY <1>28 DEF CancelHealth
<1>29. ASSUME NEW t \in Tasks, CancelReturn(t)
      PROVE  LifespanInv'
  BY <1>29 DEF CancelReturn
<1>30. ASSUME Tick
      PROVE  LifespanInv'
  BY <1>30 DEF Tick
<1>31. ASSUME NEW p \in Providers, Boot(p)
      PROVE  LifespanInv'
  BY <1>31 DEF Boot
<1>32. ASSUME NEW p \in Providers, Crash(p)
      PROVE  LifespanInv'
  BY <1>32 DEF Crash, Running
<1>33. ASSUME NEW p \in Providers, StrayExits(p)
      PROVE  LifespanInv'
  BY <1>33 DEF StrayExits
<1>34. QED
  BY <1>1, <1>2, <1>3, <1>4, <1>5, <1>6, <1>7, <1>8, <1>9, <1>10, <1>11, <1>12, <1>13, <1>14, <1>15, <1>16, <1>17,
     <1>18, <1>19, <1>20, <1>21, <1>22, <1>23, <1>24, <1>25, <1>26, <1>27, <1>28, <1>29, <1>30, <1>31, <1>32, <1>33
     DEF Next, Starting, Stopping, Acquiring, Unloading, Reaping, StopStep, Cancel,
         Environment

\* _processes has finitely many keys.
LEMMA ResidentFinite == IsFiniteSet(Resident) /\ Cardinality(Resident) \in Nat
  BY SupervisorAssumption, FS_Subset, FS_CardinalityType DEF Resident

\* A step that leaves _processes alone leaves its keys alone.
LEMMA TableKept == proc' = proc => Resident' = Resident
  BY DEF Resident

\* SlotInv is preserved: a process is added only to a table with a free slot.
LEMMA SlotStep == ASSUME IInv, Next PROVE SlotInv'
<1> USE SupervisorAssumption, TaskKinds DEF IInv, TypeOK, SlotInv, HolderPCs,
        PCs, StopPCs, idleVars, leaseVars, stopVars
<1>1. ASSUME NEW p \in Providers, PrepareBundle(p)
      PROVE  SlotInv'
  BY <1>1, TableKept DEF PrepareBundle
<1>2. ASSUME PrepareFails
      PROVE  SlotInv'
  BY <1>2, TableKept DEF PrepareFails
<1>3. ASSUME Start
      PROVE  SlotInv'
  BY <1>3, TableKept DEF Start
<1>4. ASSUME StopBegins
      PROVE  SlotInv'
  BY <1>4, TableKept DEF StopBegins, NotifyAll
<1>5. ASSUME StopDrains
      PROVE  SlotInv'
  BY <1>5, TableKept DEF StopDrains, DrainTargets
<1>6. ASSUME NEW c \in Clients, NEW p \in Providers, CallAcquire(c, p)
      PROVE  SlotInv'
  BY <1>6, TableKept DEF CallAcquire
<1>7. ASSUME NEW c \in Clients, NEW p \in Providers, Evict(c, p)
      PROVE  SlotInv'
  <2>1. /\ p \in Resident /\ Resident' = Resident \ {p}
    BY <1>7 DEF Evict, Pop, LeastRecent, IdleCandidates, Resident
  <2>2. Cardinality(Resident') = Cardinality(Resident) - 1
    BY <2>1, ResidentFinite, FS_RemoveElement
  <2>3. QED
    BY <1>7, <2>2, ResidentFinite DEF Evict, Pop
<1>8. ASSUME NEW c \in Clients, Refuse(c)
      PROVE  SlotInv'
  BY <1>8, TableKept DEF Refuse
<1>9. ASSUME NEW c \in Clients, WaitForSlot(c)
      PROVE  SlotInv'
  BY <1>9, TableKept DEF WaitForSlot, Decides
<1>10. ASSUME NEW c \in Clients, Reuse(c)
      PROVE  SlotInv'
  BY <1>10, TableKept DEF Reuse, Decides, Running
<1>11. ASSUME NEW c \in Clients, Spawn(c)
      PROVE  SlotInv'
  <2>1. target[c] \in Providers /\ pc[c] # "new"
    BY <1>11, TargetType DEF Spawn, Decides
  <2>2. Resident' = Resident \cup {target[c]}
    BY <1>11, <2>1 DEF Spawn, Resident
  <2>3. Cardinality(Resident') = IF target[c] \in Resident THEN Cardinality(Resident)
                                 ELSE Cardinality(Resident) + 1
    BY <2>2, ResidentFinite, FS_AddElement
  <2>4. target[c] \in Resident \/ Cardinality(Resident) < MaxResident
    BY <1>11, ResidentFinite DEF Spawn, NeedsSlot
  <2>5. QED
    BY <1>11, <2>3, <2>4, ResidentFinite DEF Spawn, Decides, LockInv
<1>12. ASSUME NEW c \in Clients, SpawnFails(c)
      PROVE  SlotInv'
  <2>1. target[c] \in Providers /\ pc[c] # "new"
    BY <1>12, TargetType DEF SpawnFails, Decides
  <2>2. Resident' = Resident \ {target[c]}
    BY <1>12, <2>1 DEF SpawnFails, Resident
  <2>3. /\ Cardinality(Resident') \in Nat
        /\ Cardinality(Resident') <= Cardinality(Resident)
    BY <2>2, ResidentFinite, FS_Subset, FS_CardinalityType
  <2>4. QED
    BY <1>12, <2>3, ResidentFinite DEF SpawnFails, Decides, LockInv
<1>13. ASSUME NEW c \in Clients, Healthy(c)
      PROVE  SlotInv'
  BY <1>13, TableKept DEF Healthy, Answers, Running
<1>14. ASSUME NEW c \in Clients, Unhealthy(c)
      PROVE  SlotInv'
  BY <1>14, TableKept DEF Unhealthy
<1>15. ASSUME NEW c \in Clients, Return(c)
      PROVE  SlotInv'
  BY <1>15, TableKept DEF Return, NotifyAll
<1>16. ASSUME NEW c \in Clients, QueueReturn(c)
      PROVE  SlotInv'
  BY <1>16, TableKept DEF QueueReturn
<1>17. ASSUME NEW a \in Admins, NEW x \in Providers \cup {Every}, CallUnload(a, x)
      PROVE  SlotInv'
  BY <1>17, TableKept DEF CallUnload
<1>18. ASSUME NEW a \in Admins, UnloadBusy(a)
      PROVE  SlotInv'
  BY <1>18, TableKept DEF UnloadBusy
<1>19. ASSUME NEW a \in Admins, UnloadBegins(a)
      PROVE  SlotInv'
  BY <1>19, TableKept DEF UnloadBegins, Scope
<1>20. ASSUME ReaperWakes
      PROVE  SlotInv'
  BY <1>20, TableKept DEF ReaperWakes
<1>21. ASSUME ReaperSweeps
      PROVE  SlotInv'
  BY <1>21, TableKept DEF ReaperSweeps, IdleCandidates
<1>22. ASSUME NEW t \in Tasks, TermTimeout(t)
      PROVE  SlotInv'
  BY <1>22, TableKept DEF TermTimeout
<1>23. ASSUME NEW t \in Tasks, VictimExits(t)
      PROVE  SlotInv'
  BY <1>23, TableKept DEF VictimExits
<1>24. ASSUME NEW t \in Tasks, StopLoopEnds(t)
      PROVE  SlotInv'
  BY <1>24, TableKept DEF StopLoopEnds, AfterSweep
<1>25. ASSUME NEW t \in Tasks, NEW p \in Providers, StopNext(t, p)
      PROVE  SlotInv'
  <2>1. /\ p \in Resident /\ Resident' = Resident \ {p}
    BY <1>25 DEF StopNext, Pop, LockInv, Resident
  <2>2. Cardinality(Resident') = Cardinality(Resident) - 1
    BY <2>1, ResidentFinite, FS_RemoveElement
  <2>3. QED
    BY <1>25, <2>2, ResidentFinite DEF StopNext, Pop
<1>26. ASSUME NEW t \in Tasks, CancelQueued(t)
      PROVE  SlotInv'
  BY <1>26, TableKept DEF CancelQueued
<1>27. ASSUME NEW t \in Tasks, CancelStop(t)
      PROVE  SlotInv'
  BY <1>27, TableKept DEF CancelStop
<1>28. ASSUME NEW t \in Tasks, CancelHealth(t)
      PROVE  SlotInv'
  BY <1>28, TableKept DEF CancelHealth
<1>29. ASSUME NEW t \in Tasks, CancelReturn(t)
      PROVE  SlotInv'
  BY <1>29, TableKept DEF CancelReturn
<1>30. ASSUME Tick
      PROVE  SlotInv'
  BY <1>30, TableKept DEF Tick
<1>31. ASSUME NEW p \in Providers, Boot(p)
      PROVE  SlotInv'
  <2>1. Resident' = Resident
    BY <1>31 DEF Boot, Resident
  <2>2. QED
    BY <1>31, <2>1 DEF Boot
<1>32. ASSUME NEW p \in Providers, Crash(p)
      PROVE  SlotInv'
  <2>1. Resident' = Resident
    BY <1>32 DEF Crash, Running, Resident
  <2>2. QED
    BY <1>32, <2>1 DEF Crash
<1>33. ASSUME NEW p \in Providers, StrayExits(p)
      PROVE  SlotInv'
  BY <1>33, TableKept DEF StrayExits
<1>34. QED
  BY <1>1, <1>2, <1>3, <1>4, <1>5, <1>6, <1>7, <1>8, <1>9, <1>10, <1>11, <1>12, <1>13, <1>14, <1>15, <1>16, <1>17,
     <1>18, <1>19, <1>20, <1>21, <1>22, <1>23, <1>24, <1>25, <1>26, <1>27, <1>28, <1>29, <1>30, <1>31, <1>32, <1>33
     DEF Next, Starting, Stopping, Acquiring, Unloading, Reaping, StopStep, Cancel,
         Environment

\* WaiterInv is preserved: a lease is given back together with a notification.
LEMMA WaiterStep == ASSUME IInv, Next PROVE WaiterInv'
<1> USE SupervisorAssumption, TaskKinds DEF IInv, TypeOK, LockInv, WaiterInv,
        HolderPCs, PCs, StopPCs, idleVars, leaseVars, stopVars
<1>1. ASSUME NEW p \in Providers, PrepareBundle(p)
      PROVE  WaiterInv'
  BY <1>1 DEF PrepareBundle
<1>2. ASSUME PrepareFails
      PROVE  WaiterInv'
  BY <1>2 DEF PrepareFails
<1>3. ASSUME Start
      PROVE  WaiterInv'
  BY <1>3 DEF Start
<1>4. ASSUME StopBegins
      PROVE  WaiterInv'
  BY <1>4 DEF StopBegins, NotifyAll
<1>5. ASSUME StopDrains
      PROVE  WaiterInv'
  BY <1>5 DEF StopDrains, DrainTargets
<1>6. ASSUME NEW c \in Clients, NEW p \in Providers, CallAcquire(c, p)
      PROVE  WaiterInv'
  BY <1>6 DEF CallAcquire
<1>7. ASSUME NEW c \in Clients, NEW p \in Providers, Evict(c, p)
      PROVE  WaiterInv'
  BY <1>7 DEF Evict, Decides, Pop, LeastRecent, IdleCandidates
<1>8. ASSUME NEW c \in Clients, Refuse(c)
      PROVE  WaiterInv'
  BY <1>8 DEF Refuse
<1>9. ASSUME NEW c \in Clients, WaitForSlot(c)
      PROVE  WaiterInv'
  <2>1. \E p \in Providers : active[p] > 0
    <3>1. Resident # {}
      BY <1>9, ResidentFinite, FS_EmptySet DEF WaitForSlot, NeedsSlot
    <3>2. PICK p \in Resident : active[p] # 0
      BY <1>9, <3>1 DEF WaitForSlot, IdleCandidates
    <3>3. QED
      BY <3>2 DEF Resident
  <2>2. QED
    BY <1>9, <2>1 DEF WaitForSlot
<1>10. ASSUME NEW c \in Clients, Reuse(c)
      PROVE  WaiterInv'
  BY <1>10 DEF Reuse, Decides, Running
<1>11. ASSUME NEW c \in Clients, Spawn(c)
      PROVE  WaiterInv'
  BY <1>11 DEF Spawn, Decides
<1>12. ASSUME NEW c \in Clients, SpawnFails(c)
      PROVE  WaiterInv'
  BY <1>12 DEF SpawnFails, Decides
<1>13. ASSUME NEW c \in Clients, Healthy(c)
      PROVE  WaiterInv'
  BY <1>13 DEF Healthy, Answers, Running
<1>14. ASSUME NEW c \in Clients, Unhealthy(c)
      PROVE  WaiterInv'
  BY <1>14 DEF Unhealthy
<1>15. ASSUME NEW c \in Clients, Return(c)
      PROVE  WaiterInv'
  BY <1>15 DEF Return, NotifyAll
<1>16. ASSUME NEW c \in Clients, QueueReturn(c)
      PROVE  WaiterInv'
  BY <1>16 DEF QueueReturn
<1>17. ASSUME NEW a \in Admins, NEW x \in Providers \cup {Every}, CallUnload(a, x)
      PROVE  WaiterInv'
  BY <1>17 DEF CallUnload
<1>18. ASSUME NEW a \in Admins, UnloadBusy(a)
      PROVE  WaiterInv'
  BY <1>18 DEF UnloadBusy
<1>19. ASSUME NEW a \in Admins, UnloadBegins(a)
      PROVE  WaiterInv'
  BY <1>19 DEF UnloadBegins, Scope
<1>20. ASSUME ReaperWakes
      PROVE  WaiterInv'
  BY <1>20 DEF ReaperWakes
<1>21. ASSUME ReaperSweeps
      PROVE  WaiterInv'
  BY <1>21 DEF ReaperSweeps, IdleCandidates
<1>22. ASSUME NEW t \in Tasks, TermTimeout(t)
      PROVE  WaiterInv'
  BY <1>22 DEF TermTimeout
<1>23. ASSUME NEW t \in Tasks, VictimExits(t)
      PROVE  WaiterInv'
  BY <1>23 DEF VictimExits
<1>24. ASSUME NEW t \in Tasks, StopLoopEnds(t)
      PROVE  WaiterInv'
  BY <1>24 DEF StopLoopEnds, AfterSweep
<1>25. ASSUME NEW t \in Tasks, NEW p \in Providers, StopNext(t, p)
      PROVE  WaiterInv'
  BY <1>25 DEF StopNext, Pop
<1>26. ASSUME NEW t \in Tasks, CancelQueued(t)
      PROVE  WaiterInv'
  BY <1>26 DEF CancelQueued
<1>27. ASSUME NEW t \in Tasks, CancelStop(t)
      PROVE  WaiterInv'
  BY <1>27 DEF CancelStop
<1>28. ASSUME NEW t \in Tasks, CancelHealth(t)
      PROVE  WaiterInv'
  BY <1>28 DEF CancelHealth
<1>29. ASSUME NEW t \in Tasks, CancelReturn(t)
      PROVE  WaiterInv'
  BY <1>29 DEF CancelReturn
<1>30. ASSUME Tick
      PROVE  WaiterInv'
  BY <1>30 DEF Tick
<1>31. ASSUME NEW p \in Providers, Boot(p)
      PROVE  WaiterInv'
  BY <1>31 DEF Boot
<1>32. ASSUME NEW p \in Providers, Crash(p)
      PROVE  WaiterInv'
  BY <1>32 DEF Crash, Running
<1>33. ASSUME NEW p \in Providers, StrayExits(p)
      PROVE  WaiterInv'
  BY <1>33 DEF StrayExits
<1>34. QED
  BY <1>1, <1>2, <1>3, <1>4, <1>5, <1>6, <1>7, <1>8, <1>9, <1>10, <1>11, <1>12, <1>13, <1>14, <1>15, <1>16, <1>17,
     <1>18, <1>19, <1>20, <1>21, <1>22, <1>23, <1>24, <1>25, <1>26, <1>27, <1>28, <1>29, <1>30, <1>31, <1>32, <1>33
     DEF Next, Starting, Stopping, Acquiring, Unloading, Reaping, StopStep, Cancel,
         Environment

\* TodoInv is preserved: what a stop loop tested stays true while it holds the lock.
LEMMA TodoStep == ASSUME IInv, Next PROVE TodoInv'
<1> USE SupervisorAssumption, TaskKinds DEF IInv, TypeOK, LockInv, TodoInv,
        HolderPCs, PCs, StopPCs, Resident, idleVars, leaseVars, stopVars
<1>1. ASSUME NEW p \in Providers, PrepareBundle(p)
      PROVE  TodoInv'
  BY <1>1 DEF PrepareBundle
<1>2. ASSUME PrepareFails
      PROVE  TodoInv'
  BY <1>2 DEF PrepareFails
<1>3. ASSUME Start
      PROVE  TodoInv'
  BY <1>3 DEF Start
<1>4. ASSUME StopBegins
      PROVE  TodoInv'
  BY <1>4 DEF StopBegins, NotifyAll
<1>5. ASSUME StopDrains
      PROVE  TodoInv'
  BY <1>5 DEF StopDrains, DrainTargets
<1>6. ASSUME NEW c \in Clients, NEW p \in Providers, CallAcquire(c, p)
      PROVE  TodoInv'
  BY <1>6 DEF CallAcquire
<1>7. ASSUME NEW c \in Clients, NEW p \in Providers, Evict(c, p)
      PROVE  TodoInv'
  BY <1>7 DEF Evict, Decides, Pop, LeastRecent, IdleCandidates
<1>8. ASSUME NEW c \in Clients, Refuse(c)
      PROVE  TodoInv'
  BY <1>8 DEF Refuse
<1>9. ASSUME NEW c \in Clients, WaitForSlot(c)
      PROVE  TodoInv'
  BY <1>9 DEF WaitForSlot, Decides
<1>10. ASSUME NEW c \in Clients, Reuse(c)
      PROVE  TodoInv'
  BY <1>10 DEF Reuse, Decides, Running
<1>11. ASSUME NEW c \in Clients, Spawn(c)
      PROVE  TodoInv'
  BY <1>11 DEF Spawn, Decides
<1>12. ASSUME NEW c \in Clients, SpawnFails(c)
      PROVE  TodoInv'
  BY <1>12 DEF SpawnFails, Decides
<1>13. ASSUME NEW c \in Clients, Healthy(c)
      PROVE  TodoInv'
  BY <1>13 DEF Healthy, Answers, Running
<1>14. ASSUME NEW c \in Clients, Unhealthy(c)
      PROVE  TodoInv'
  BY <1>14 DEF Unhealthy
<1>15. ASSUME NEW c \in Clients, Return(c)
      PROVE  TodoInv'
  BY <1>15 DEF Return, NotifyAll
<1>16. ASSUME NEW c \in Clients, QueueReturn(c)
      PROVE  TodoInv'
  BY <1>16 DEF QueueReturn
<1>17. ASSUME NEW a \in Admins, NEW x \in Providers \cup {Every}, CallUnload(a, x)
      PROVE  TodoInv'
  BY <1>17 DEF CallUnload
<1>18. ASSUME NEW a \in Admins, UnloadBusy(a)
      PROVE  TodoInv'
  BY <1>18 DEF UnloadBusy
<1>19. ASSUME NEW a \in Admins, UnloadBegins(a)
      PROVE  TodoInv'
  <2>1. \A t \in Tasks : pc[t] \notin HolderPCs
    BY <1>19 DEF UnloadBegins
  <2>2. \A p \in Scope(target[a]) \cap Providers : active[p] = 0
    BY <1>19 DEF UnloadBegins, Busy
  <2>3. target[a] = Every => \A p \in Providers : active[p] = 0
    BY <2>2 DEF Scope
  <2>4. todo' = Scope(target[a]) \cap Resident /\ (target[a] = Every => todo' = Resident)
    BY <1>19 DEF UnloadBegins, Scope
  <2>5. QED
    BY <1>19, <2>1, <2>2, <2>3, <2>4 DEF UnloadBegins
<1>20. ASSUME ReaperWakes
      PROVE  TodoInv'
  BY <1>20 DEF ReaperWakes
<1>21. ASSUME ReaperSweeps
      PROVE  TodoInv'
  <2>1. \A t \in Tasks : pc[t] \notin HolderPCs
    BY <1>21 DEF ReaperSweeps
  <2>2. \A p \in todo' : /\ active[p] = 0
                          /\ lastUsed[p] # 0 /\ lastUsed[p] + IdleUnload <= clock
    BY <1>21 DEF ReaperSweeps, IdleCandidates, Expired
  <2>3. QED
    BY <1>21, <2>1, <2>2 DEF ReaperSweeps
<1>22. ASSUME NEW t \in Tasks, TermTimeout(t)
      PROVE  TodoInv'
  BY <1>22 DEF TermTimeout
<1>23. ASSUME NEW t \in Tasks, VictimExits(t)
      PROVE  TodoInv'
  BY <1>23 DEF VictimExits
<1>24. ASSUME NEW t \in Tasks, StopLoopEnds(t)
      PROVE  TodoInv'
  BY <1>24 DEF StopLoopEnds, AfterSweep
<1>25. ASSUME NEW t \in Tasks, NEW p \in Providers, StopNext(t, p)
      PROVE  TodoInv'
  BY <1>25 DEF StopNext, Pop
<1>26. ASSUME NEW t \in Tasks, CancelQueued(t)
      PROVE  TodoInv'
  BY <1>26 DEF CancelQueued
<1>27. ASSUME NEW t \in Tasks, CancelStop(t)
      PROVE  TodoInv'
  BY <1>27 DEF CancelStop
<1>28. ASSUME NEW t \in Tasks, CancelHealth(t)
      PROVE  TodoInv'
  BY <1>28 DEF CancelHealth
<1>29. ASSUME NEW t \in Tasks, CancelReturn(t)
      PROVE  TodoInv'
  BY <1>29 DEF CancelReturn
<1>30. ASSUME Tick
      PROVE  TodoInv'
  BY <1>30 DEF Tick
<1>31. ASSUME NEW p \in Providers, Boot(p)
      PROVE  TodoInv'
  BY <1>31 DEF Boot
<1>32. ASSUME NEW p \in Providers, Crash(p)
      PROVE  TodoInv'
  BY <1>32 DEF Crash, Running
<1>33. ASSUME NEW p \in Providers, StrayExits(p)
      PROVE  TodoInv'
  BY <1>33 DEF StrayExits
<1>34. QED
  BY <1>1, <1>2, <1>3, <1>4, <1>5, <1>6, <1>7, <1>8, <1>9, <1>10, <1>11, <1>12, <1>13, <1>14, <1>15, <1>16, <1>17,
     <1>18, <1>19, <1>20, <1>21, <1>22, <1>23, <1>24, <1>25, <1>26, <1>27, <1>28, <1>29, <1>30, <1>31, <1>32, <1>33
     DEF Next, Starting, Stopping, Acquiring, Unloading, Reaping, StopStep, Cancel,
         Environment

\* A step that leaves the processes, the table and the victim alone leaves what
\* the supervisor sees of them alone.
LEMMA SightKept ==
    ASSUME UNCHANGED <<alive, proc, victim>>, NEW p \in Providers
    PROVE  Strays(p)' = Strays(p)
  BY DEF Strays, Reachable

\* How the processes of p can change: one starts, dies or is handed from the table
\* to its stop, all in sight; a stray exits; or a cancelled stop leaves a stray.
Sight(p) ==
    \/ Strays(p)' = Strays(p)
    \/ Strays(p) > 0 /\ Strays(p)' = Strays(p) - 1
    \/ Strays(p)' = Strays(p) + 1 /\ \E t \in Cancellable : CancelStop(t) /\ victim = p

\* Dropping an entry loses no process: one that runs becomes the victim.
LEMMA PopKeepsSight ==
    ASSUME IInv, victim = NoOne, UNCHANGED alive, NEW p \in Providers,
           NEW t \in Tasks, NEW v \in Providers, Pop(t, v), proc[v] # "absent"
    PROVE  Strays(p)' = Strays(p) /\ (victim' # NoOne => proc'[victim'] = "absent")
<1>1. proc[v] = "dead" \/ proc[v] \in Running
  BY DEF IInv, TypeOK, Running
<1>2. /\ proc' = [proc EXCEPT ![v] = "absent"]
      /\ victim' = IF proc[v] = "dead" THEN NoOne ELSE v
  BY DEF Pop
<1>3. Reachable(p)' = Reachable(p)
  BY <1>1, <1>2, TaskKinds DEF Reachable, Running, IInv, TypeOK
<1>4. QED
  BY <1>2, <1>3 DEF Strays, IInv, TypeOK

\* Every step is one of these, and it stops nothing that is still in the table.
LEMMA SightMoves ==
    ASSUME IInv, Next
    PROVE  /\ \A p \in Providers : Sight(p)
           /\ victim' # NoOne => proc'[victim'] = "absent"
<1> DEFINE Seen == /\ \A p \in Providers : Sight(p)
                   /\ victim' # NoOne => proc'[victim'] = "absent"
<1> USE TaskKinds
<1>0. ASSUME UNCHANGED <<alive, proc, victim>> PROVE Seen
  BY <1>0, SightKept DEF Sight, IInv, AliveInv
<1>1. ASSUME Starting \/ Stopping \/ Reaping \/ Tick PROVE Seen
  BY <1>0, <1>1 DEF Starting, PrepareBundle, PrepareFails, Start, Stopping, StopBegins,
     StopDrains, Reaping, ReaperWakes, ReaperSweeps, Tick, stopVars
<1>2. ASSUME NEW a \in Admins, Unloading(a) PROVE Seen
  BY <1>0, <1>2 DEF Unloading, CallUnload, UnloadBusy, UnloadBegins, stopVars
<1>3. ASSUME NEW c \in Clients, Acquiring(c) PROVE Seen
  <2>1. ASSUME NEW v \in Providers, Evict(c, v) PROVE Seen
    <3>1. victim = NoOne
      BY <2>1, NoVictim DEF Evict, Decides
    <3>2. Pop(c, v) /\ proc[v] # "absent" /\ UNCHANGED alive
      BY <2>1 DEF Evict, LeastRecent, IdleCandidates, Resident
    <3>3. QED
      BY <3>1, <3>2, PopKeepsSight DEF Sight
  <2>2. ASSUME Spawn(c) PROVE Seen
    <3>1. victim = NoOne /\ victim' = NoOne
      BY <2>2, NoVictim DEF Spawn, Decides, stopVars
    <3>2. ASSUME NEW p \in Providers PROVE Strays(p)' = Strays(p)
      BY <2>2 DEF Spawn, Strays, Reachable, Running, stopVars, IInv, TypeOK
    <3>3. QED
      BY <3>1, <3>2 DEF Sight
  <2>3. ASSUME SpawnFails(c) PROVE Seen
    <3>1. victim = NoOne /\ victim' = NoOne
      BY <2>3, NoVictim DEF SpawnFails, Decides, stopVars
    <3>2. ASSUME NEW p \in Providers PROVE Strays(p)' = Strays(p)
      BY <2>3 DEF SpawnFails, Strays, Reachable, Running, stopVars, IInv, TypeOK
    <3>3. QED
      BY <3>1, <3>2 DEF Sight
  <2>4. ASSUME \/ \E v \in Providers : CallAcquire(c, v)
               \/ Refuse(c) \/ WaitForSlot(c) \/ Reuse(c) \/ Healthy(c)
               \/ Unhealthy(c) \/ Return(c) \/ QueueReturn(c)
        PROVE  UNCHANGED <<alive, proc, victim>>
    BY <2>4 DEF CallAcquire, Refuse, WaitForSlot, Reuse, Healthy, Unhealthy, Return,
       QueueReturn, stopVars
  <2>5. QED
    BY <1>0, <1>3, <2>1, <2>2, <2>3, <2>4 DEF Acquiring
<1>4. ASSUME NEW t \in Tasks, StopStep(t) PROVE Seen
  <2>1. ASSUME NEW v \in Providers, StopNext(t, v) PROVE Seen
    <3>1. victim = NoOne
      BY <2>1, NoVictim DEF StopNext
    <3>2. Pop(t, v) /\ proc[v] # "absent" /\ UNCHANGED alive
      BY <2>1 DEF StopNext, IInv, LockInv, Resident
    <3>3. QED
      BY <3>1, <3>2, PopKeepsSight DEF Sight
  <2>2. ASSUME VictimExits(t) PROVE Seen
    <3>1. victim' = NoOne
      BY <2>2 DEF VictimExits
    <3>2. ASSUME NEW p \in Providers PROVE Strays(p)' = Strays(p)
      BY <2>2 DEF VictimExits, Strays, Reachable, IInv, TypeOK
    <3>3. QED
      BY <3>1, <3>2 DEF Sight
  <2>3. ASSUME TermTimeout(t) \/ StopLoopEnds(t) PROVE UNCHANGED <<alive, proc, victim>>
    BY <2>3 DEF TermTimeout, StopLoopEnds, stopVars
  <2>4. QED
    BY <1>0, <1>4, <2>1, <2>2, <2>3 DEF StopStep
<1>5. ASSUME NEW t \in Tasks, Cancel(t) PROVE Seen
  <2>1. ASSUME CancelStop(t) PROVE Seen
    <3>1. victim' = NoOne /\ UNCHANGED <<alive, proc>> /\ t \in Cancellable
      BY <2>1 DEF CancelStop
    <3>2. ASSUME NEW p \in Providers
          PROVE  Strays(p)' = IF p = victim THEN Strays(p) + 1 ELSE Strays(p)
      BY <3>1 DEF Strays, Reachable, IInv, TypeOK
    <3>3. QED
      BY <2>1, <3>1, <3>2 DEF Sight
  <2>2. ASSUME CancelQueued(t) \/ CancelHealth(t) \/ CancelReturn(t)
        PROVE  UNCHANGED <<alive, proc, victim>>
    BY <2>2 DEF CancelQueued, CancelHealth, CancelReturn, stopVars
  <2>3. QED
    BY <1>0, <1>5, <2>1, <2>2 DEF Cancel
<1>6. ASSUME NEW v \in Providers, Boot(v) \/ Crash(v) \/ StrayExits(v) PROVE Seen
  <2>1. victim' = victim /\ (victim # NoOne => proc[victim] = "absent")
    BY <1>6 DEF Boot, Crash, StrayExits, stopVars, IInv, AliveInv
  <2>2. victim' # NoOne => proc'[victim'] = "absent"
    BY <1>6, <2>1 DEF Boot, Crash, StrayExits, Running, IInv, TypeOK
  <2>3. ASSUME NEW p \in Providers, Boot(v) \/ Crash(v) PROVE Strays(p)' = Strays(p)
    BY <2>1, <2>3 DEF Boot, Crash, Strays, Reachable, Running, IInv, TypeOK
  <2>4. ASSUME NEW p \in Providers, StrayExits(v)
        PROVE  Strays(p)' = IF p = v THEN Strays(p) - 1 ELSE Strays(p)
    BY <2>1, <2>4 DEF StrayExits, Strays, Reachable, IInv, TypeOK
  <2>5. StrayExits(v) => Strays(v) > 0
    BY DEF StrayExits
  <2>6. QED
    BY <1>6, <2>2, <2>3, <2>4, <2>5 DEF Sight
<1>7. QED
  BY <1>1, <1>2, <1>3, <1>4, <1>5, <1>6 DEF Next, Environment

\* AliveInv is preserved.
LEMMA AliveStep == ASSUME IInv, Next PROVE AliveInv'
<1> SUFFICES ASSUME NEW p \in Providers PROVE (alive[p] >= Reachable(p))'
  BY SightMoves DEF AliveInv
<1>1. /\ alive[p] \in Nat /\ alive'[p] \in Nat
      /\ Reachable(p) \in Nat /\ Reachable(p)' \in Nat
      /\ alive[p] >= Reachable(p)
  BY TypeStep DEF IInv, TypeOK, AliveInv, Reachable
<1>2. Sight(p)
  BY SightMoves
<1>3. QED
  BY <1>1, <1>2 DEF Sight, Strays

\* A step that moves no client into or out of the body of acquire() keeps the
\* tasks that hold each lease.
LEMMA HoldersKept ==
    ASSUME \A c \in Clients : /\ pc'[c] \in {"leased", "releasing"}
                                 <=> pc[c] \in {"leased", "releasing"}
                              /\ pc[c] \in {"leased", "releasing"} => target'[c] = target[c],
           NEW p \in Providers
    PROVE  Holders(p)' = Holders(p)
  BY DEF Holders

\* How a step can change who uses the providers: c gets a lease, and is counted,
\* or c gives its lease back.
Enters(c) ==
    /\ target[c] \in Providers /\ c \notin Holders(target[c])
    /\ \A p \in Providers :
          Holders(p)' = IF p = target[c] THEN Holders(p) \cup {c} ELSE Holders(p)
    /\ active' = [active EXCEPT ![target[c]] = @ + 1]
Leaves(c) ==
    /\ target[c] \in Providers /\ c \in Holders(target[c])
    /\ \A p \in Providers :
          Holders(p)' = IF p = target[c] THEN Holders(p) \ {c} ELSE Holders(p)
LeaseMove ==
    \/ active' = active /\ \A p \in Providers : Holders(p)' = Holders(p)
    \/ \E c \in Clients : Enters(c)
    \/ \E c \in Clients : Leaves(c) /\ active' = [active EXCEPT ![target[c]] = @ - 1]
    \/ \E c \in Clients : Leaves(c) /\ active' = active /\ CancelReturn(c)

\* Every step is one of these, and a lease that is not given back is a cancelled return.
LEMMA LeaseMoves == ASSUME IInv, Next PROVE LeaseMove
<1> USE SupervisorAssumption, TaskKinds DEF IInv, TypeOK, PCs,
        StopPCs, idleVars, leaseVars, stopVars
<1>1. ASSUME NEW p \in Providers, PrepareBundle(p)
      PROVE  LeaseMove
  BY <1>1, HoldersKept DEF LeaseMove, PrepareBundle
<1>2. ASSUME PrepareFails
      PROVE  LeaseMove
  BY <1>2, HoldersKept DEF LeaseMove, PrepareFails
<1>3. ASSUME Start
      PROVE  LeaseMove
  BY <1>3, HoldersKept DEF LeaseMove, Start
<1>4. ASSUME StopBegins
      PROVE  LeaseMove
  <2>1. \A c \in Clients : pc'[c] \in {"leased", "releasing"}
                            <=> pc[c] \in {"leased", "releasing"}
    BY <1>4 DEF StopBegins, NotifyAll
  <2>2. QED
    BY <1>4, <2>1, HoldersKept DEF LeaseMove, StopBegins
<1>5. ASSUME StopDrains
      PROVE  LeaseMove
  BY <1>5, HoldersKept DEF LeaseMove, StopDrains, DrainTargets
<1>6. ASSUME NEW c \in Clients, NEW p \in Providers, CallAcquire(c, p)
      PROVE  LeaseMove
  BY <1>6, HoldersKept DEF LeaseMove, CallAcquire
<1>7. ASSUME NEW c \in Clients, NEW p \in Providers, Evict(c, p)
      PROVE  LeaseMove
  BY <1>7, HoldersKept DEF LeaseMove, Evict, Decides, Pop, LeastRecent, IdleCandidates
<1>8. ASSUME NEW c \in Clients, Refuse(c)
      PROVE  LeaseMove
  BY <1>8, HoldersKept DEF LeaseMove, Refuse
<1>9. ASSUME NEW c \in Clients, WaitForSlot(c)
      PROVE  LeaseMove
  BY <1>9, HoldersKept DEF LeaseMove, WaitForSlot, Decides
<1>10. ASSUME NEW c \in Clients, Reuse(c)
      PROVE  Enters(c)
  <2>1. target[c] \in Providers /\ pc[c] \notin {"leased", "releasing"}
    BY <1>10, TargetType DEF Reuse, Decides
  <2>2. QED
    BY <1>10, <2>1 DEF Reuse, Enters, Holders
<1>11. ASSUME NEW c \in Clients, Spawn(c)
      PROVE  LeaseMove
  BY <1>11, HoldersKept DEF LeaseMove, Spawn, Decides
<1>12. ASSUME NEW c \in Clients, SpawnFails(c)
      PROVE  LeaseMove
  BY <1>12, HoldersKept DEF LeaseMove, SpawnFails, Decides
<1>13. ASSUME NEW c \in Clients, Healthy(c)
      PROVE  Enters(c)
  <2>1. target[c] \in Providers /\ pc[c] \notin {"leased", "releasing"}
    BY <1>13, TargetType DEF Healthy
  <2>2. QED
    BY <1>13, <2>1 DEF Healthy, Enters, Holders
<1>14. ASSUME NEW c \in Clients, Unhealthy(c)
      PROVE  LeaseMove
  BY <1>14, HoldersKept DEF LeaseMove, Unhealthy
<1>15. ASSUME NEW c \in Clients, Return(c)
      PROVE  Leaves(c) /\ active' = [active EXCEPT ![target[c]] = @ - 1]
  <2>1. target[c] \in Providers /\ pc[c] \in {"leased", "releasing"}
    BY <1>15, HolderCounted DEF Return
  <2>2. \A d \in Clients : pc'[d] \in {"leased", "releasing"}
                            <=> d # c /\ pc[d] \in {"leased", "releasing"}
    BY <1>15 DEF Return, NotifyAll
  <2>3. target' = target /\ active' = [active EXCEPT ![target[c]] = @ - 1]
    BY <1>15 DEF Return
  <2>4. Leaves(c)
    BY <2>1, <2>2, <2>3 DEF Leaves, Holders
  <2>5. QED
    BY <2>3, <2>4
<1>16. ASSUME NEW c \in Clients, QueueReturn(c)
      PROVE  LeaseMove
  BY <1>16, HoldersKept DEF LeaseMove, QueueReturn
<1>17. ASSUME NEW a \in Admins, NEW x \in Providers \cup {Every}, CallUnload(a, x)
      PROVE  LeaseMove
  BY <1>17, HoldersKept DEF LeaseMove, CallUnload
<1>18. ASSUME NEW a \in Admins, UnloadBusy(a)
      PROVE  LeaseMove
  BY <1>18, HoldersKept DEF LeaseMove, UnloadBusy
<1>19. ASSUME NEW a \in Admins, UnloadBegins(a)
      PROVE  LeaseMove
  BY <1>19, HoldersKept DEF LeaseMove, UnloadBegins, Scope
<1>20. ASSUME ReaperWakes
      PROVE  LeaseMove
  BY <1>20, HoldersKept DEF LeaseMove, ReaperWakes
<1>21. ASSUME ReaperSweeps
      PROVE  LeaseMove
  BY <1>21, HoldersKept DEF LeaseMove, ReaperSweeps, IdleCandidates
<1>22. ASSUME NEW t \in Tasks, TermTimeout(t)
      PROVE  LeaseMove
  BY <1>22, HoldersKept DEF LeaseMove, TermTimeout
<1>23. ASSUME NEW t \in Tasks, VictimExits(t)
      PROVE  LeaseMove
  BY <1>23, HoldersKept DEF LeaseMove, VictimExits
<1>24. ASSUME NEW t \in Tasks, StopLoopEnds(t)
      PROVE  LeaseMove
  BY <1>24, HoldersKept DEF LeaseMove, StopLoopEnds, AfterSweep
<1>25. ASSUME NEW t \in Tasks, NEW p \in Providers, StopNext(t, p)
      PROVE  LeaseMove
  BY <1>25, HoldersKept DEF LeaseMove, StopNext, Pop
<1>26. ASSUME NEW t \in Tasks, CancelQueued(t)
      PROVE  LeaseMove
  BY <1>26, HoldersKept DEF LeaseMove, CancelQueued
<1>27. ASSUME NEW t \in Tasks, CancelStop(t)
      PROVE  LeaseMove
  BY <1>27, HoldersKept DEF LeaseMove, CancelStop
<1>28. ASSUME NEW t \in Tasks, CancelHealth(t)
      PROVE  LeaseMove
  BY <1>28, HoldersKept DEF LeaseMove, CancelHealth
<1>29. ASSUME NEW t \in Tasks, CancelReturn(t)
      PROVE  t \in Clients /\ Leaves(t) /\ active' = active
  <2>1. t \in Clients /\ target[t] \in Providers
    BY <1>29, TargetType DEF CancelReturn
  <2>2. QED
    BY <1>29, <2>1 DEF CancelReturn, Leaves, Holders
<1>30. ASSUME Tick
      PROVE  LeaseMove
  BY <1>30, HoldersKept DEF LeaseMove, Tick
<1>31. ASSUME NEW p \in Providers, Boot(p)
      PROVE  LeaseMove
  BY <1>31, HoldersKept DEF LeaseMove, Boot
<1>32. ASSUME NEW p \in Providers, Crash(p)
      PROVE  LeaseMove
  BY <1>32, HoldersKept DEF LeaseMove, Crash, Running
<1>33. ASSUME NEW p \in Providers, StrayExits(p)
      PROVE  LeaseMove
  BY <1>33, HoldersKept DEF LeaseMove, StrayExits
<1>34. QED
  BY <1>1, <1>2, <1>3, <1>4, <1>5, <1>6, <1>7, <1>8, <1>9, <1>10, <1>11, <1>12, <1>13, <1>14, <1>15, <1>16, <1>17,
     <1>18, <1>19, <1>20, <1>21, <1>22, <1>23, <1>24, <1>25, <1>26, <1>27, <1>28, <1>29, <1>30, <1>31, <1>32, <1>33
     DEF LeaseMove, Next, Starting, Stopping, Acquiring, Unloading, Reaping, StopStep, Cancel,
         Environment


\* What a step does to the lease count of a provider and to its holders.
LEMMA CountMoves ==
    ASSUME IInv, Next, NEW p \in Providers
    PROVE  /\ active'[p] \in Nat /\ Cardinality(Holders(p)') \in Nat
           /\ \/ active'[p] - Cardinality(Holders(p)') = active[p] - Cardinality(Holders(p))
              \/ /\ \E c \in Clients : CancelReturn(c) /\ target[c] = p
                 /\ active'[p] - Cardinality(Holders(p)') = active[p] - Cardinality(Holders(p)) + 1
<1>1. active \in [Providers -> Nat] /\ active'[p] \in Nat
  BY TypeStep DEF IInv, TypeOK
<1>2. IsFiniteSet(Holders(p)) /\ Cardinality(Holders(p)) \in Nat
  BY HoldersFinite
<1>3. \A c : /\ c \notin Holders(p) => Cardinality(Holders(p) \cup {c}) = Cardinality(Holders(p)) + 1
             /\ c \in Holders(p) => Cardinality(Holders(p) \ {c}) = Cardinality(Holders(p)) - 1
  BY <1>2, FS_AddElement, FS_RemoveElement
<1>4. Cardinality(Holders(p)') \in Nat
  <2>1. Holders(p)' \subseteq Clients
    BY DEF Holders
  <2>2. QED
    BY <2>1, SupervisorAssumption, FS_Subset, FS_CardinalityType
<1>5. CASE active' = active /\ \A q \in Providers : Holders(q)' = Holders(q)
  BY <1>1, <1>2, <1>5
<1>6. ASSUME NEW c \in Clients, Enters(c)
      PROVE  active'[p] - Cardinality(Holders(p)') = active[p] - Cardinality(Holders(p))
  <2>1. CASE p = target[c]
    <3>1. active'[p] = active[p] + 1 /\ Cardinality(Holders(p)') = Cardinality(Holders(p)) + 1
      BY <1>1, <1>3, <1>6, <2>1 DEF Enters
    <3>2. QED
      BY <1>1, <1>2, <3>1
  <2>2. CASE p # target[c]
    BY <1>1, <1>6, <2>2 DEF Enters
  <2>3. QED
    BY <2>1, <2>2
<1>7. ASSUME NEW c \in Clients, Leaves(c), active' = [active EXCEPT ![target[c]] = @ - 1]
      PROVE  active'[p] - Cardinality(Holders(p)') = active[p] - Cardinality(Holders(p))
  <2>1. CASE p = target[c]
    <3>1. active'[p] = active[p] - 1 /\ Cardinality(Holders(p)') = Cardinality(Holders(p)) - 1
      BY <1>1, <1>3, <1>7, <2>1 DEF Leaves
    <3>2. QED
      BY <1>1, <1>2, <3>1
  <2>2. CASE p # target[c]
    BY <1>1, <1>7, <2>2 DEF Leaves
  <2>3. QED
    BY <2>1, <2>2
<1>8. ASSUME NEW c \in Clients, Leaves(c), active' = active, p = target[c]
      PROVE  active'[p] - Cardinality(Holders(p)') = active[p] - Cardinality(Holders(p)) + 1
  <2>1. Cardinality(Holders(p)') = Cardinality(Holders(p)) - 1
    BY <1>3, <1>8 DEF Leaves
  <2>2. QED
    BY <1>1, <1>2, <1>8, <2>1
<1>9. ASSUME NEW c \in Clients, Leaves(c), active' = active, p # target[c]
      PROVE  active'[p] - Cardinality(Holders(p)') = active[p] - Cardinality(Holders(p))
  BY <1>9 DEF Leaves
<1>10. QED
  BY <1>1, <1>4, <1>5, <1>6, <1>7, <1>8, <1>9, LeaseMoves DEF LeaseMove

\* LeaseCovered is preserved: nothing lowers a count below its holders.
LEMMA LeaseStep == ASSUME IInv, Next PROVE LeaseCovered'
<1> SUFFICES ASSUME NEW p \in Providers PROVE active'[p] >= Cardinality(Holders(p)')
  BY DEF LeaseCovered
<1>1. active[p] \in Nat /\ Cardinality(Holders(p)) \in Nat /\ active[p] >= Cardinality(Holders(p))
  BY HoldersFinite DEF IInv, TypeOK, LeaseCovered
<1>2. QED
  BY <1>1, CountMoves

-----------------------------------------------------------------------------
(* Invariance *)

\* A step that changes nothing preserves IInv.
LEMMA StutterStep == ASSUME IInv, UNCHANGED vars PROVE IInv'
<1> USE DEF vars
<1>1. TypeOK' /\ Resident' = Resident
  BY DEF IInv, TypeOK, Resident
<1>2. LockInv' /\ ClientInv' /\ SlotInv'
  BY <1>1 DEF IInv, LockInv, ClientInv, SlotInv
<1>3. TodoInv' /\ LifespanInv' /\ WaiterInv' /\ AliveInv'
  BY <1>1 DEF IInv, TodoInv, LifespanInv, WaiterInv, AliveInv, Reachable
<1>4. LeaseCovered'
  BY DEF IInv, LeaseCovered, Holders
<1>5. QED
  BY <1>1, <1>2, <1>3, <1>4 DEF IInv

\* Every step preserves IInv.
LEMMA StepKeepsIInv == ASSUME IInv, [Next]_vars PROVE IInv'
<1>1. ASSUME Next PROVE IInv'
  BY <1>1, TypeStep, LockStep, ClientStep, SlotStep, TodoStep, LifespanStep,
     WaiterStep, AliveStep, LeaseStep DEF IInv
<1>2. QED
  BY <1>1, StutterStep

\* The invariant of the supervisor holds in every reachable state.
THEOREM Inductive == Spec => []IInv
<1>1. Init => IInv
  BY InitIInv
<1>2. IInv /\ [Next]_vars => IInv'
  BY StepKeepsIInv
<1>3. QED
  BY <1>1, <1>2, PTL DEF Spec

\* _processes stays within max_resident_local_providers, and a client that is
\* stopping an evicted process has not filled its slot yet.
THEOREM SlotBoundHolds == Spec => []SlotBound
<1>1. IInv => SlotBound
  BY TaskKinds DEF IInv, TypeOK, LockInv, SlotInv, SlotBound, HolderPCs, StopPCs
<1>2. QED
  BY <1>1, Inductive, PTL

\* Every task in the body of acquire() is counted in _active_requests, whoever
\* is cancelled and wherever.
THEOREM LeaseCoveredHolds == Spec => []LeaseCovered
<1>1. IInv => LeaseCovered
  BY DEF IInv
<1>2. QED
  BY <1>1, Inductive, PTL

\* Without cancelled clients the counts are exact: nothing else loses a lease.
THEOREM LeaseExactHolds == Cancellable \cap Clients = {} => (Spec => []LeaseExact)
<1> SUFFICES ASSUME Cancellable \cap Clients = {} PROVE Spec => []LeaseExact
  OBVIOUS
<1>1. Init => LeaseExact
  <2> SUFFICES ASSUME Init, NEW p \in Providers PROVE active[p] = Cardinality(Holders(p))
    BY DEF LeaseExact
  <2>1. Holders(p) = {}
    BY TaskKinds DEF Init, Holders
  <2>2. QED
    BY <2>1, FS_EmptySet DEF Init
<1>2. ASSUME IInv, LeaseExact, Next PROVE LeaseExact'
  <2> SUFFICES ASSUME NEW p \in Providers PROVE active'[p] = Cardinality(Holders(p)')
    BY DEF LeaseExact
  <2>1. ~\E c \in Clients : CancelReturn(c)
    BY DEF CancelReturn
  <2>2. active[p] = Cardinality(Holders(p)) /\ Cardinality(Holders(p)) \in Nat
    BY <1>2, HoldersFinite DEF LeaseExact
  <2>3. QED
    BY <1>2, <2>1, <2>2, CountMoves
<1>3. ASSUME LeaseExact, UNCHANGED vars PROVE LeaseExact'
  BY <1>3 DEF LeaseExact, Holders, vars
<1>4. IInv /\ LeaseExact /\ [Next]_vars => LeaseExact'
  BY <1>2, <1>3
<1>5. QED
  BY <1>1, <1>4, Inductive, PTL DEF Spec

\* A lease is lost in one place only, the return of a client that is cancelled
\* while it queues for the lock.
THEOREM LeaksOnlyInReturnHolds == Spec => LeaksOnlyInReturn
<1>1. ASSUME IInv, [Next]_vars, NEW p \in Providers, Surplus(p)' # Surplus(p)
      PROVE  \E c \in Clients : CancelReturn(c) /\ target[c] = p /\ Surplus(p)' = Surplus(p) + 1
  <2>1. Next
    BY <1>1 DEF vars, Surplus, Holders
  <2>2. QED
    BY <1>1, <2>1, CountMoves DEF Surplus
<1>2. IInv /\ [Next]_vars =>
        [\A p \in Providers : Surplus(p)' # Surplus(p) =>
           \E c \in Clients : CancelReturn(c) /\ target[c] = p /\ Surplus(p)' = Surplus(p) + 1]_vars
  BY <1>1
<1>3. QED
  BY <1>2, Inductive, PTL DEF Spec, LeaksOnlyInReturn

-----------------------------------------------------------------------------
(* How many processes run *)

\* A process runs on unseen only after the stop of it was cancelled.
THEOREM OrphansOnlyInStopHolds == Spec => OrphansOnlyInStop
<1>1. ASSUME IInv, [Next]_vars, NEW p \in Providers, Strays(p)' > Strays(p)
      PROVE  \E t \in Cancellable : CancelStop(t) /\ victim = p
  <2>1. Strays(p) \in Int
    BY <1>1 DEF Strays, Reachable, IInv, TypeOK
  <2>2. Next
    BY <1>1, <2>1, SightKept DEF vars
  <2>3. QED
    BY <1>1, <2>1, <2>2, SightMoves DEF Sight
<1>2. IInv /\ [Next]_vars =>
        [\A p \in Providers : Strays(p)' > Strays(p) =>
           \E t \in Cancellable : CancelStop(t) /\ victim = p]_vars
  BY <1>1
<1>3. QED
  BY <1>2, Inductive, PTL DEF Spec, OrphansOnlyInStop

\* When nothing is cancelled, no more processes run than
\* max_resident_local_providers, the one being stopped included.
THEOREM LiveWithinLimitHolds == Cancellable = {} => (Spec => []LiveWithinLimit)
<1> SUFFICES ASSUME Cancellable = {} PROVE Spec => []LiveWithinLimit
  OBVIOUS
<1> DEFINE NoStray == \A p \in Providers : Strays(p) = 0
<1>1. Init => NoStray
  BY TaskKinds DEF Init, Strays, Reachable, Running
<1>2. ASSUME IInv, NoStray, [Next]_vars PROVE NoStray'
  <2> SUFFICES ASSUME NEW p \in Providers PROVE Strays(p)' = 0
    OBVIOUS
  <2>1. Strays(p) = 0
    BY <1>2
  <2>2. CASE Next
    BY <2>1, <2>2, <1>2, SightMoves DEF Sight
  <2>3. CASE UNCHANGED vars
    BY <2>1, <2>3, SightKept DEF vars
  <2>4. QED
    BY <1>2, <2>2, <2>3
<1>3. ASSUME IInv, NoStray PROVE LiveWithinLimit
  <2> DEFINE stopped == IF victim = NoOne THEN {} ELSE {victim}
             running == {<<p, 1>> : p \in Live \cup stopped}
  <2>1. IsFiniteSet(Resident) /\ Live \subseteq Resident /\ victim \notin Live
    <3>1. Live \subseteq Resident
      BY DEF Live, Resident, Running
    <3>2. victim \notin Live
      BY <1>3, TaskKinds DEF Live, Running, IInv, AliveInv
    <3>3. QED
      BY <3>1, <3>2, ResidentFinite
  <2>2. IsFiniteSet(Live) /\ Cardinality(Live) \in Nat /\ Cardinality(Live) <= Cardinality(Resident)
    BY <2>1, FS_Subset, FS_CardinalityType
  <2>3. ASSUME NEW p \in Providers
        PROVE  alive[p] = IF p \in Live \cup stopped THEN 1 ELSE 0
    <3>1. Strays(p) = 0 /\ alive[p] \in Nat
      BY <1>3 DEF IInv, TypeOK
    <3>2. Reachable(p) = IF p \in Live \cup stopped THEN 1 ELSE 0
      BY <1>3, <2>1, TaskKinds DEF Reachable, Live
    <3>3. QED
      BY <3>1, <3>2 DEF Strays, Reachable
  <2>4. LiveProcesses = running
    <3>1. Live \cup stopped \subseteq Providers
      BY <1>3 DEF Live, IInv, TypeOK
    <3>2. ASSUME NEW p \in Providers
          PROVE  {p} \X (1..alive[p]) = IF p \in Live \cup stopped THEN {<<p, 1>>} ELSE {}
      BY <2>3
    <3> HIDE DEF stopped
    <3>3. QED
      BY <3>1, <3>2 DEF LiveProcesses
  <2>5. /\ IsFiniteSet(Live \cup stopped) /\ Cardinality(Live \cup stopped) \in Nat
        /\ Cardinality(Live \cup stopped) =
             IF victim = NoOne THEN Cardinality(Live) ELSE Cardinality(Live) + 1
    <3>1. CASE victim = NoOne
      <4>1. Live \cup stopped = Live
        BY <3>1
      <4>2. QED
        BY <2>2, <3>1, <4>1
    <3>2. CASE victim # NoOne
      <4>1. Live \cup stopped = Live \cup {victim}
        BY <3>2
      <4>2. /\ IsFiniteSet(Live \cup {victim})
            /\ Cardinality(Live \cup {victim}) = Cardinality(Live) + 1
        BY <2>1, <2>2, FS_AddElement
      <4>3. QED
        BY <2>2, <3>2, <4>1, <4>2
    <3>3. QED
      BY <3>1, <3>2
  <2>6. Cardinality(running) = Cardinality(Live \cup stopped)
    <3> DEFINE S == Live \cup stopped
               f == [p \in S |-> <<p, 1>>]
    <3> HIDE DEF stopped
    <3>1. f \in Bijection(S, running)
      BY DEF Bijection, Injection, Surjection, IsInjective
    <3>2. QED
      BY <2>5, <3>1, FS_Bijection DEF ExistsBijection
  <2>7. /\ Cardinality(Resident) \in Nat /\ MaxResident \in Nat
        /\ Cardinality(Resident) <= MaxResident
        /\ victim # NoOne => Cardinality(Resident) < MaxResident
    BY <1>3, ResidentFinite, SupervisorAssumption DEF IInv, SlotInv
  <2>8. QED
    BY <2>2, <2>4, <2>5, <2>6, <2>7 DEF LiveWithinLimit
<1> HIDE DEF NoStray
<1>4. IInv /\ NoStray /\ [Next]_vars => NoStray'
  BY <1>2
<1>5. IInv /\ NoStray => LiveWithinLimit
  BY <1>3
<1>6. QED
  BY <1>1, <1>4, <1>5, Inductive, PTL DEF Spec

\* When no client is cancelled, a task waits for a slot only while the service is
\* started and some task holds a lease it will return.
THEOREM WaiterHasWakerHolds == Cancellable \cap Clients = {} => (Spec => []WaiterHasWaker)
<1> SUFFICES ASSUME Cancellable \cap Clients = {} PROVE Spec => []WaiterHasWaker
  OBVIOUS
<1>1. ASSUME IInv, LeaseExact, NEW c \in Clients, pc[c] = "waiting"
      PROVE  started /\ \E p \in Providers : Holders(p) # {}
  <2>1. PICK p \in Providers : active[p] > 0
    BY <1>1 DEF IInv, WaiterInv
  <2>2. Holders(p) # {}
    BY <1>1, <2>1, FS_EmptySet DEF LeaseExact
  <2>3. QED
    BY <1>1, <2>2 DEF IInv, ClientInv
<1>2. IInv /\ LeaseExact => WaiterHasWaker
  BY <1>1 DEF WaiterHasWaker
<1>3. Spec => []LeaseExact
  BY LeaseExactHolds
<1>4. QED
  BY <1>2, <1>3, Inductive, PTL

\* Whoever is cancelled, a task that waits for a slot while nobody holds a lease
\* waits for one that was leaked.
THEOREM StrandedOnlyByLeakHolds == Spec => []StrandedOnlyByLeak
<1>1. ASSUME IInv, NEW c \in Clients, pc[c] = "waiting",
             \A p \in Providers : Holders(p) = {}
      PROVE  \E p \in Providers : Surplus(p) > 0
  <2>1. PICK p \in Providers : active[p] > 0
    BY <1>1 DEF IInv, WaiterInv
  <2>2. Cardinality(Holders(p)) = 0 /\ active[p] \in Nat
    BY <1>1, FS_EmptySet DEF IInv, TypeOK
  <2>3. QED
    BY <2>1, <2>2 DEF Surplus
<1>2. IInv => StrandedOnlyByLeak
  BY <1>1 DEF StrandedOnlyByLeak
<1>3. QED
  BY <1>2, Inductive, PTL

\* After stop() no process is left in the table and none can be started.
THEOREM StopIsFinalHolds == Spec => []StopIsFinal
<1>1. IInv => StopIsFinal
  BY DEF IInv, LifespanInv, ClientInv, StopIsFinal, HolderPCs, StopPCs
<1>2. QED
  BY <1>1, Inductive, PTL

-----------------------------------------------------------------------------
(* What a step may never do *)

\* The only steps that take an entry out of the table.
LEMMA RemovedBy ==
    ASSUME IInv, Next, NEW p \in Providers, Removed(p)
    PROVE  \/ \E c \in Clients : Evict(c, p)
           \/ \E t \in Tasks : StopNext(t, p)
           \/ \E c \in Clients : SpawnFails(c) /\ proc[p] \notin Running
<1> USE DEF Removed, IInv, TypeOK
<1>1. ASSUME Starting \/ Stopping \/ Reaping \/ Environment PROVE FALSE
  BY <1>1 DEF Starting, PrepareBundle, PrepareFails, Start, Stopping, StopBegins,
     StopDrains, Reaping, ReaperWakes, ReaperSweeps, Environment, Tick, Boot, Crash,
     StrayExits
<1>2. ASSUME NEW a \in Admins, Unloading(a) PROVE FALSE
  BY <1>2 DEF Unloading, CallUnload, UnloadBusy, UnloadBegins
<1>3. ASSUME NEW t \in Tasks, StopStep(t) \/ Cancel(t) PROVE StopNext(t, p)
  BY <1>3 DEF StopStep, TermTimeout, VictimExits, StopLoopEnds, StopNext, Pop, Cancel,
     CancelQueued, CancelStop, CancelHealth, CancelReturn
<1>4. ASSUME NEW c \in Clients, Acquiring(c)
      PROVE  Evict(c, p) \/ (SpawnFails(c) /\ proc[p] \notin Running)
  <2>1. ASSUME NEW q \in Providers, CallAcquire(c, q) \/ Evict(c, q) PROVE Evict(c, p)
    BY <2>1 DEF CallAcquire, Evict, Pop
  <2>2. ASSUME SpawnFails(c) PROVE proc[p] \notin Running
    BY <2>2 DEF SpawnFails
  <2>3. ASSUME \/ Refuse(c) \/ WaitForSlot(c) \/ Reuse(c) \/ Healthy(c)
               \/ Unhealthy(c) \/ Return(c) \/ QueueReturn(c)
        PROVE  FALSE
    BY <2>3 DEF Refuse, WaitForSlot, Reuse, Healthy, Unhealthy, Return, QueueReturn
  <2>4. ASSUME Spawn(c) PROVE FALSE
    BY <2>4 DEF Spawn
  <2>5. QED
    BY <1>4, <2>1, <2>2, <2>3, <2>4 DEF Acquiring
<1>5. QED
  BY <1>1, <1>2, <1>3, <1>4 DEF Next

\* A provider whose count is zero has no task in the body of acquire().
LEMMA NoLeaseNoHolder ==
    ASSUME LeaseCovered, NEW p \in Providers, active[p] = 0
    PROVE  Holders(p) = {}
<1>1. 0 >= Cardinality(Holders(p))
  BY DEF LeaseCovered
<1>2. QED
  BY <1>1, HoldersFinite, FS_EmptySet

\* While the service is open, no step takes a running process from a task that
\* has leased it.
THEOREM NeverStopsLeasedHolds == Spec => NeverStopsLeased
<1>1. ASSUME IInv, [Next]_vars, NEW p \in Providers,
             Removed(p), proc[p] \in Running, started
      PROVE  Holders(p) = {}
  <2>1. Next
    BY <1>1 DEF Removed, vars
  <2>2. CASE \E c \in Clients : Evict(c, p)
    BY <1>1, <2>2, NoLeaseNoHolder DEF IInv, Evict, LeastRecent, IdleCandidates
  <2>3. CASE \E t \in Tasks : StopNext(t, p)
    <3>1. PICK t \in Tasks : StopNext(t, p)
      BY <2>3
    <3>2. lock # Lifespan
      BY <1>1, <3>1, TaskKinds DEF IInv, LockInv, LifespanInv, StopNext, HolderPCs
    <3>3. active[p] = 0
      BY <1>1, <3>1, <3>2 DEF IInv, TodoInv, StopNext
    <3>4. QED
      BY <1>1, <3>3, NoLeaseNoHolder DEF IInv
  <2>4. QED
    BY <1>1, <2>1, <2>2, <2>3, RemovedBy
<1>2. IInv /\ [Next]_vars =>
        [\A p \in Providers :
           Removed(p) /\ proc[p] \in Running /\ started => Holders(p) = {}]_vars
  BY <1>1
<1>3. QED
  BY <1>2, Inductive, PTL DEF Spec, NeverStopsLeased

\* The reaper takes a provider only when nobody holds or has used it for the
\* idle period, by the clock of the step that takes it.
THEOREM ReapsOnlyIdleHolds == Spec => ReapsOnlyIdle
<1>1. ASSUME IInv, [Next]_vars, NEW p \in Providers, Removed(p), pc[Reaper] = "loop"
      PROVE  /\ Holders(p) = {}
             /\ lastUsed[p] # 0 /\ lastUsed[p] + IdleUnload <= clock
  <2>1. Next
    BY <1>1 DEF Removed, vars
  <2>2. lock = Reaper
    BY <1>1, TaskKinds DEF IInv, LockInv, HolderPCs
  <2>3. ASSUME NEW c \in Clients, Evict(c, p) \/ SpawnFails(c) PROVE FALSE
    BY <1>1, <2>2, <2>3, TaskKinds
       DEF Evict, SpawnFails, Decides, IInv, LockInv, HolderPCs
  <2>4. p \in todo
    BY <1>1, <2>1, <2>3, RemovedBy DEF StopNext
  <2>5. active[p] = 0 /\ lastUsed[p] # 0 /\ lastUsed[p] + IdleUnload <= clock
    BY <1>1, <2>2, <2>4, TaskKinds DEF IInv, TodoInv
  <2>6. QED
    BY <1>1, <2>5, NoLeaseNoHolder DEF IInv
<1>2. IInv /\ [Next]_vars =>
        [\A p \in Providers :
           Removed(p) /\ pc[Reaper] = "loop" =>
              /\ Holders(p) = {}
              /\ lastUsed[p] # 0 /\ lastUsed[p] + IdleUnload <= clock]_vars
  BY <1>1
<1>3. QED
  BY <1>2, Inductive, PTL DEF Spec, ReapsOnlyIdle

\* The only steps that enter the body of acquire().
LEMMA GrantedBy ==
    ASSUME IInv, [Next]_vars, NEW c \in Clients, pc[c] # "leased", pc'[c] = "leased"
    PROVE  Reuse(c) \/ Healthy(c)
<1> USE TaskKinds DEF IInv, TypeOK
<1>1. Next
  BY DEF vars
<1>2. ASSUME Starting \/ Stopping \/ Reaping \/ Environment PROVE FALSE
  <2>1. ASSUME StopBegins PROVE FALSE
    <3>1. pc' = NotifyAll([pc EXCEPT ![Lifespan] = "drain", ![Reaper] = "off"])
      BY <2>1 DEF StopBegins
    <3>2. QED
      BY <3>1 DEF NotifyAll
  <2>2. CASE Starting \/ StopDrains \/ Reaping \/ Environment
    BY <2>2 DEF Starting, PrepareBundle, PrepareFails, Start, StopDrains, Reaping,
       ReaperWakes, ReaperSweeps, Environment, Tick, Boot, Crash, StrayExits
  <2>3. QED
    BY <1>2, <2>1, <2>2 DEF Stopping
<1>3. ASSUME NEW a \in Admins, Unloading(a) PROVE FALSE
  BY <1>3 DEF Unloading, CallUnload, UnloadBusy, UnloadBegins
<1>4. ASSUME NEW t \in Tasks, StopStep(t) PROVE FALSE
  <2>1. ASSUME StopLoopEnds(t) PROVE FALSE
    BY <2>1 DEF StopLoopEnds, AfterSweep
  <2>2. ASSUME NEW p \in Providers, StopNext(t, p) PROVE FALSE
    BY <2>2 DEF StopNext, Pop
  <2>3. ASSUME TermTimeout(t) \/ VictimExits(t) PROVE FALSE
    BY <2>3 DEF TermTimeout, VictimExits
  <2>4. QED
    BY <1>4, <2>1, <2>2, <2>3 DEF StopStep
<1>5. ASSUME NEW t \in Tasks, Cancel(t) PROVE FALSE
  BY <1>5 DEF Cancel, CancelQueued, CancelStop, CancelHealth, CancelReturn
<1>6. ASSUME NEW d \in Clients, Acquiring(d) PROVE Reuse(c) \/ Healthy(c)
  <2>1. ASSUME NEW q \in Providers, CallAcquire(d, q) \/ Evict(d, q) PROVE FALSE
    BY <2>1 DEF CallAcquire, Evict, Pop
  <2>2. ASSUME \/ Refuse(d) \/ WaitForSlot(d) \/ Spawn(d) \/ SpawnFails(d)
               \/ Unhealthy(d) \/ QueueReturn(d)
        PROVE  FALSE
    BY <2>2 DEF Refuse, WaitForSlot, Spawn, SpawnFails, Unhealthy, QueueReturn
  <2>3. ASSUME Return(d) PROVE FALSE
    <3>1. pc' = NotifyAll([pc EXCEPT ![d] = "done"])
      BY <2>3 DEF Return
    <3>2. QED
      BY <3>1 DEF NotifyAll
  <2>4. ASSUME Reuse(d) \/ Healthy(d) PROVE d = c
    BY <2>4 DEF Reuse, Healthy
  <2>5. QED
    BY <1>6, <2>1, <2>2, <2>3, <2>4 DEF Acquiring
<1>7. QED
  BY <1>1, <1>2, <1>3, <1>4, <1>5, <1>6 DEF Next

\* An unload leaves its loop for good only at the end of it.
LEMMA LoopLeftBy ==
    ASSUME IInv, [Next]_vars, NEW a \in Admins, pc[a] = "loop", pc'[a] = "done"
    PROVE  StopLoopEnds(a)
<1> USE TaskKinds DEF IInv, TypeOK
<1>1. Next
  BY DEF vars
<1>2. ASSUME Starting \/ Stopping \/ Reaping \/ Environment PROVE FALSE
  <2>1. ASSUME StopBegins PROVE FALSE
    <3>1. pc' = NotifyAll([pc EXCEPT ![Lifespan] = "drain", ![Reaper] = "off"])
      BY <2>1 DEF StopBegins
    <3>2. QED
      BY <3>1 DEF NotifyAll
  <2>2. CASE Starting \/ StopDrains \/ Reaping \/ Environment
    BY <2>2 DEF Starting, PrepareBundle, PrepareFails, Start, StopDrains, Reaping,
       ReaperWakes, ReaperSweeps, Environment, Tick, Boot, Crash, StrayExits
  <2>3. QED
    BY <1>2, <2>1, <2>2 DEF Stopping
<1>3. ASSUME NEW b \in Admins, Unloading(b) PROVE FALSE
  BY <1>3 DEF Unloading, CallUnload, UnloadBusy, UnloadBegins
<1>4. ASSUME NEW t \in Tasks, StopStep(t) PROVE StopLoopEnds(a)
  <2>1. ASSUME StopLoopEnds(t) PROVE t = a
    BY <2>1 DEF StopLoopEnds, AfterSweep
  <2>2. ASSUME NEW p \in Providers, StopNext(t, p) PROVE FALSE
    BY <2>2 DEF StopNext, Pop
  <2>3. ASSUME TermTimeout(t) \/ VictimExits(t) PROVE FALSE
    BY <2>3 DEF TermTimeout, VictimExits
  <2>4. QED
    BY <1>4, <2>1, <2>2, <2>3 DEF StopStep
<1>5. ASSUME NEW t \in Tasks, Cancel(t) PROVE FALSE
  BY <1>5 DEF Cancel, CancelQueued, CancelStop, CancelHealth, CancelReturn
<1>6. ASSUME NEW d \in Clients, Acquiring(d) PROVE FALSE
  <2>1. ASSUME NEW q \in Providers, CallAcquire(d, q) \/ Evict(d, q) PROVE FALSE
    BY <2>1 DEF CallAcquire, Evict, Pop
  <2>2. ASSUME \/ Refuse(d) \/ WaitForSlot(d) \/ Reuse(d) \/ Spawn(d) \/ SpawnFails(d)
               \/ Healthy(d) \/ Unhealthy(d) \/ QueueReturn(d)
        PROVE  FALSE
    BY <2>2 DEF Refuse, WaitForSlot, Reuse, Spawn, SpawnFails, Healthy, Unhealthy,
       QueueReturn
  <2>3. ASSUME Return(d) PROVE FALSE
    <3>1. pc' = NotifyAll([pc EXCEPT ![d] = "done"])
      BY <2>3 DEF Return
    <3>2. QED
      BY <3>1 DEF NotifyAll
  <2>4. QED
    BY <1>6, <2>1, <2>2, <2>3 DEF Acquiring
<1>7. QED
  BY <1>1, <1>2, <1>3, <1>4, <1>5, <1>6 DEF Next

\* A lease is granted only by a started service, on a process that runs.
THEOREM GrantsLiveLeaseHolds == Spec => GrantsLiveLease
<1>1. ASSUME IInv, [Next]_vars, NEW c \in Clients, pc[c] # "leased", pc'[c] = "leased"
      PROVE  started /\ proc[target[c]] \in Running
  <2>1. Reuse(c) \/ Healthy(c)
    BY <1>1, GrantedBy
  <2>2. CASE Reuse(c)
    BY <1>1, <2>2 DEF Reuse, Decides, IInv, ClientInv, HolderPCs
  <2>3. CASE Healthy(c)
    BY <1>1, <2>3 DEF Healthy, Answers, Running, IInv, ClientInv, HolderPCs
  <2>4. QED
    BY <2>1, <2>2, <2>3
<1>2. IInv /\ [Next]_vars =>
        [\A c \in Clients :
           pc[c] # "leased" /\ pc'[c] = "leased" =>
              started /\ proc[target[c]] \in Running]_vars
  BY <1>1
<1>3. QED
  BY <1>2, Inductive, PTL DEF Spec, GrantsLiveLease

\* unload_all() finds no lease when it begins and none until it has stopped
\* every process.
THEOREM UnloadAllIsAtomicHolds == Spec => UnloadAllIsAtomic
<1>1. ASSUME IInv, [Next]_vars, NEW a \in Admins, pc[a] \in StopPCs, target[a] = Every
      PROVE  /\ \A p \in Providers : Holders(p) = {}
             /\ pc[a] = "loop" /\ pc'[a] = "done" => Resident = {}
  <2>1. \A p \in Providers : active[p] = 0
    BY <1>1 DEF IInv, TodoInv
  <2>2. \A p \in Providers : Holders(p) = {}
    BY <1>1, <2>1, NoLeaseNoHolder DEF IInv
  <2>3. ASSUME pc[a] = "loop", pc'[a] = "done" PROVE todo = {}
    <3>1. StopLoopEnds(a)
      BY <1>1, <2>3, LoopLeftBy
    <3>2. QED
      BY <3>1 DEF StopLoopEnds
  <2>4. Resident = todo
    BY <1>1 DEF IInv, TodoInv
  <2>5. QED
    BY <2>2, <2>3, <2>4
<1>2. IInv /\ [Next]_vars =>
        [\A a \in Admins :
           pc[a] \in StopPCs /\ target[a] = Every =>
              /\ \A p \in Providers : Holders(p) = {}
              /\ pc[a] = "loop" /\ pc'[a] = "done" => Resident = {}]_vars
  BY <1>1
<1>3. QED
  BY <1>2, Inductive, PTL DEF Spec, UnloadAllIsAtomic

=============================================================================
