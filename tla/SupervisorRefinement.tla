------------------------ MODULE SupervisorRefinement ------------------------
(***************************************************************************)
(* The supervisor implements Residency: a proof, step by step, that what   *)
(* its users see of it (started, the table, which processes run, and the   *)
(* lease counts) changes only as Residency allows.                         *)
(***************************************************************************)
EXTENDS SupervisorProofs

\* The new supervisor is closed and has nothing loaded.
LEMMA InitRefines == Init => R!Init
  BY DEF Init, R!Init, Resident, Live, Running

\* A step that leaves these four alone is a stutter of Residency.
LEMMA StutterRefines ==
    ASSUME UNCHANGED <<started, proc, active>>
    PROVE  UNCHANGED R!vars
  BY DEF R!vars, Resident, Live

\* Dropping an entry of the table is an Unload.
LEMMA PopRefines ==
    ASSUME IInv, NEW t \in Tasks, NEW p \in Providers, Pop(t, p),
           proc[p] # "absent", proc[p] \in Running => active[p] = 0 \/ ~started,
           UNCHANGED <<started, active>>
    PROVE  R!Unload(p)
<1>1. /\ p \in Resident /\ Resident' = Resident \ {p} /\ Live' = Live \ {p}
      /\ p \in Live => active[p] = 0 \/ ~started
  BY DEF Pop, Resident, Live, Running, IInv, TypeOK
<1>2. QED
  BY <1>1 DEF R!Unload

\* Counting one more request on a running process is a Grant.
LEMMA GrantRefines ==
    ASSUME IInv, NEW c \in Clients, Reuse(c) \/ Healthy(c)
    PROVE  R!Grant(target[c])
<1>1. started /\ target[c] \in Live
  <2>1. pc[c] # "new" /\ target[c] \in Providers
    BY TargetType DEF IInv, Reuse, Healthy, Decides
  <2>2. CASE Reuse(c)
    BY <2>1, <2>2 DEF Reuse, Decides, Live, IInv, ClientInv, HolderPCs
  <2>3. CASE Healthy(c)
    BY <2>1, <2>3 DEF Healthy, Answers, Live, Running, IInv, ClientInv, HolderPCs
  <2>4. QED
    BY <2>2, <2>3
<1>2. /\ active' = [active EXCEPT ![target[c]] = @ + 1]
      /\ UNCHANGED <<started, Resident, Live>>
  BY DEF Reuse, Healthy, Resident, Live
<1>3. QED
  BY <1>1, <1>2 DEF R!Grant

\* A step of acquire() is an Unload, a Load, a Die, a Grant, a GiveBack or a stutter.
LEMMA AcquiringRefines ==
    ASSUME IInv, NEW c \in Clients, Acquiring(c)
    PROVE  [R!Next]_(R!vars)
<1> USE TaskKinds
<1>1. ASSUME NEW p \in Providers, CallAcquire(c, p) PROVE UNCHANGED R!vars
  BY <1>1, StutterRefines DEF CallAcquire, leaseVars
<1>2. ASSUME NEW p \in Providers, Evict(c, p) PROVE R!Next
  <2>1. R!Unload(p)
    BY <1>2, PopRefines DEF Evict, LeastRecent, IdleCandidates, Resident, leaseVars
  <2>2. QED
    BY <2>1 DEF R!Next
<1>3. ASSUME Refuse(c) \/ WaitForSlot(c) \/ Unhealthy(c) \/ QueueReturn(c)
      PROVE  UNCHANGED R!vars
  BY <1>3, StutterRefines DEF Refuse, WaitForSlot, Unhealthy, QueueReturn, leaseVars
<1>4. ASSUME Reuse(c) \/ Healthy(c) PROVE R!Next
  <2>1. target[c] \in Providers
    BY <1>4, TargetType DEF IInv, Reuse, Healthy, Decides
  <2>2. QED
    BY <1>4, <2>1, GrantRefines DEF R!Next
<1>5. ASSUME Spawn(c) PROVE R!Next
  <2>1. started /\ target[c] \in Providers
    BY <1>5, TargetType DEF Spawn, Decides, IInv, ClientInv, HolderPCs
  <2>2. /\ Resident' = Resident \cup {target[c]} /\ Live' = Live \cup {target[c]}
        /\ target[c] \notin Live
    BY <1>5, <2>1 DEF Spawn, Resident, Live, Running, IInv, TypeOK
  <2>3. target[c] \in Resident \/ Cardinality(Resident) < MaxResident
    BY <1>5, ResidentFinite, SupervisorAssumption DEF Spawn, NeedsSlot
  <2>4. UNCHANGED <<started, active>>
    BY <1>5 DEF Spawn, leaseVars
  <2>5. R!Load(target[c])
    BY <2>1, <2>2, <2>3, <2>4 DEF R!Load, R!Cardinality, Cardinality
  <2>6. QED
    BY <2>1, <2>5 DEF R!Next
<1>6. ASSUME SpawnFails(c) PROVE [R!Next]_(R!vars)
  <2>1. target[c] \in Providers
    BY <1>6, TargetType DEF SpawnFails, Decides, IInv
  <2>2. /\ Resident' = Resident \ {target[c]} /\ Live' = Live
        /\ target[c] \notin Live
    BY <1>6, <2>1 DEF SpawnFails, Resident, Live, Running, IInv, TypeOK
  <2>3. UNCHANGED <<started, active>>
    BY <1>6 DEF SpawnFails, leaseVars
  <2>4. CASE target[c] \in Resident
    <3>1. R!Unload(target[c])
      BY <2>2, <2>3, <2>4 DEF R!Unload
    <3>2. QED
      BY <2>1, <3>1 DEF R!Next
  <2>5. CASE target[c] \notin Resident
    BY <2>2, <2>3, <2>5 DEF R!vars
  <2>6. QED
    BY <2>4, <2>5
<1>7. ASSUME Return(c) PROVE R!Next
  <2>1. target[c] \in Providers /\ active[target[c]] > 0
    BY <1>7, HolderCounted DEF Return, IInv
  <2>2. R!GiveBack(target[c])
    BY <1>7, <2>1 DEF R!GiveBack, Return, Resident, Live
  <2>3. QED
    BY <2>1, <2>2 DEF R!Next
<1>8. QED
  BY <1>1, <1>2, <1>3, <1>4, <1>5, <1>6, <1>7 DEF Acquiring

\* A step of a stop in progress is an Unload or a stutter.
LEMMA StopStepRefines ==
    ASSUME IInv, NEW t \in Tasks, StopStep(t)
    PROVE  [R!Next]_(R!vars)
<1>1. ASSUME TermTimeout(t) \/ VictimExits(t) \/ StopLoopEnds(t)
      PROVE  UNCHANGED R!vars
  BY <1>1, StutterRefines DEF TermTimeout, VictimExits, StopLoopEnds, leaseVars
<1>2. ASSUME NEW p \in Providers, StopNext(t, p) PROVE R!Next
  <2>1. p \in Resident /\ p \in todo
    BY <1>2 DEF StopNext, IInv, LockInv
  <2>2. lock = t
    BY <1>2 DEF StopNext, IInv, LockInv, HolderPCs
  <2>3. active[p] = 0 \/ ~started
    BY <1>2, <2>1, <2>2 DEF StopNext, IInv, TodoInv, LifespanInv
  <2>4. R!Unload(p)
    BY <1>2, <2>1, <2>3, PopRefines DEF StopNext, Resident, leaseVars
  <2>5. QED
    BY <2>4 DEF R!Next
<1>3. QED
  BY <1>1, <1>2 DEF StopStep

\* What processes do by themselves is a Die or a stutter.
LEMMA EnvironmentRefines ==
    ASSUME IInv, Environment
    PROVE  [R!Next]_(R!vars)
<1>1. ASSUME Tick PROVE UNCHANGED R!vars
  BY <1>1, StutterRefines DEF Tick, leaseVars
<1>2. ASSUME NEW p \in Providers, Boot(p) PROVE UNCHANGED R!vars
  <2>1. Resident' = Resident /\ Live' = Live /\ UNCHANGED <<started, active>>
    BY <1>2 DEF Boot, Resident, Live, Running, IInv, TypeOK, leaseVars
  <2>2. QED
    BY <2>1 DEF R!vars
<1>3. ASSUME NEW p \in Providers, Crash(p) PROVE R!Next
  <2>1. /\ Resident' = Resident /\ Live' = Live \ {p} /\ p \in Live
        /\ UNCHANGED <<started, active>>
    BY <1>3 DEF Crash, Resident, Live, Running, IInv, TypeOK, leaseVars
  <2>2. R!Die(p)
    BY <2>1 DEF R!Die
  <2>3. QED
    BY <2>2 DEF R!Next
<1>4. ASSUME NEW p \in Providers, StrayExits(p) PROVE UNCHANGED R!vars
  BY <1>4, StutterRefines DEF StrayExits, leaseVars
<1>5. QED
  BY <1>1, <1>2, <1>3, <1>4 DEF Environment

\* start() is an Open and stop() a Close, once each.
LEMMA LifespanRefines ==
    ASSUME IInv, Starting \/ Stopping \/ Reaping
    PROVE  [R!Next]_(R!vars)
<1>1. ASSUME NEW p \in Providers, PrepareBundle(p) PROVE UNCHANGED R!vars
  BY <1>1, StutterRefines DEF PrepareBundle, leaseVars
<1>2. ASSUME PrepareFails \/ StopDrains \/ Reaping PROVE UNCHANGED R!vars
  BY <1>2, StutterRefines
     DEF PrepareFails, StopDrains, Reaping, ReaperWakes, ReaperSweeps, leaseVars
<1>3. ASSUME Start PROVE R!Next
  <2>1. ~started
    BY <1>3 DEF Start, IInv, LifespanInv
  <2>2. R!Open
    BY <1>3, <2>1 DEF Start, R!Open, Resident, Live, leaseVars
  <2>3. QED
    BY <2>2 DEF R!Next
<1>4. ASSUME StopBegins PROVE R!Next
  <2>1. started
    BY <1>4 DEF StopBegins, IInv, LifespanInv
  <2>2. R!Close
    BY <1>4, <2>1 DEF StopBegins, R!Close, Resident, Live, leaseVars
  <2>3. QED
    BY <2>2 DEF R!Next
<1>5. QED
  BY <1>1, <1>2, <1>3, <1>4 DEF Starting, Stopping

\* The supervisor implements its abstract specification.
THEOREM Refinement == Spec => ImplementsResidency
<1>1. Init => R!Init
  BY InitRefines
<1>2. IInv /\ [Next]_vars => [R!Next]_(R!vars)
  <2>1. ASSUME IInv, Next PROVE [R!Next]_(R!vars)
    <3>1. ASSUME NEW a \in Admins, Unloading(a) PROVE UNCHANGED R!vars
      BY <3>1, StutterRefines
         DEF Unloading, CallUnload, UnloadBusy, UnloadBegins, leaseVars
    <3>2. ASSUME NEW t \in Tasks, Cancel(t) PROVE UNCHANGED R!vars
      BY <3>2, StutterRefines
         DEF Cancel, CancelQueued, CancelStop, CancelHealth, CancelReturn, leaseVars
    <3>3. QED
      BY <2>1, <3>1, <3>2, LifespanRefines, EnvironmentRefines, AcquiringRefines,
         StopStepRefines DEF Next
  <2>2. ASSUME UNCHANGED vars PROVE UNCHANGED R!vars
    BY <2>2, StutterRefines DEF vars
  <2>3. QED
    BY <2>1, <2>2
<1>3. QED
  BY <1>1, <1>2, Inductive, PTL DEF Spec, ImplementsResidency, R!Spec

=============================================================================
