--------------------------- MODULE SchedulerProofs ---------------------------
(***************************************************************************)
(* Proofs about the decision service, for any finite sets of calls and of  *)
(* models, any names the calls use and any limits.  SInv is inductive; the *)
(* safety properties follow.                                               *)
(***************************************************************************)
EXTENDS SchedulerProperties, FiniteSetTheorems, TLAPS

Places == {"off", "lock", "lane", "ended", "failed"} \cup Inside
Holding == Inside \cup {"lane"}     \* with the lock of the model

\* A worker is a call and one of the keys its requests may need.
LEMMA WorkerParts ==
    /\ \A w \in Workers : Call(w) \in Calls /\ Key(w) \in Keys /\ w \in Calls \X Keys /\ w # Nobody
    /\ \A c \in Calls : \A m \in Asks[c] :
          <<c, ModelKey(m)>> \in Workers /\ Call(<<c, ModelKey(m)>>) = c /\ Key(<<c, ModelKey(m)>>) = ModelKey(m)
<1>1. ASSUME NEW m \in Names PROVE ModelKey(m) \in Keys
  <2>1. CASE m \in Hosted
    BY <2>1 DEF ModelKey, Keys
  <2>2. CASE m \notin Hosted
    <3>1. \E p \in Locals : m \in Aliases[p]
      BY <2>2 DEF Names
    <3>2. (CHOOSE p \in Locals : m \in Aliases[p]) \in Locals
      BY <3>1
    <3>3. QED
      BY <2>2, <3>2 DEF ModelKey, Keys
  <2>3. QED
    BY <2>1, <2>2
<1>2. \A c \in Calls : Asks[c] \subseteq Names
  BY SchedulerAssumption
<1>3. ASSUME NEW w \in Workers
      PROVE  Call(w) \in Calls /\ Key(w) \in Keys /\ w \in Calls \X Keys /\ w # Nobody
  <2>1. PICK c \in Calls : w \in {c} \X {ModelKey(m) : m \in Asks[c]}
    BY DEF Workers
  <2>2. PICK m \in Asks[c] : w = <<c, ModelKey(m)>>
    BY <2>1
  <2>3. ModelKey(m) \in Keys
    BY <1>1, <1>2
  <2>4. QED
    BY <2>2, <2>3, SchedulerAssumption DEF Call, Key
<1>4. QED
  BY <1>3 DEF Workers, Call, Key

\* There are finitely many workers, and so are those at a place.
LEMMA WorkersFinite ==
    /\ IsFiniteSet(Workers)
    /\ \A S \in SUBSET Workers : IsFiniteSet(S) /\ Cardinality(S) \in Nat
<1>1. IsFiniteSet(Calls \X Keys)
  BY SchedulerAssumption, FS_Product
<1>2. IsFiniteSet(Workers)
  BY <1>1, WorkerParts, FS_Subset
<1>3. QED
  BY <1>2, FS_Subset, FS_CardinalityType

\* Without two workers, a set of them has at most one.
LEMMA TwoWorkers ==
    ASSUME NEW S \in SUBSET Workers, NEW v \in S, NEW w \in S, v # w
    PROVE  Cardinality(S) >= 2
<1>1. IsFiniteSet(S \ {v}) /\ Cardinality(S \ {v}) = Cardinality(S) - 1
  BY WorkersFinite, FS_RemoveElement
<1>2. w \in S \ {v} /\ Cardinality(S \ {v}) # 0 /\ Cardinality(S \ {v}) \in Nat
  BY <1>1, FS_EmptySet, FS_CardinalityType
<1>3. QED
  BY <1>1, <1>2, WorkersFinite

-----------------------------------------------------------------------------
(* The invariant *)

\* Whoever is past the queue of a model's lock holds it.
LockInv ==
    /\ \A w \in Workers : at[w] \in Holding => modelLock[Key(w)] = w
    /\ \A k \in Keys : modelLock[k] # Nobody =>
          Key(modelLock[k]) = k /\ at[modelLock[k]] \in Holding

\* The workers in the lane are counted, CLM is alone in it, and on CUDA every
\* model is.
LaneLocals == {w \in Workers : InLane(w) /\ Key(w) # Clm}
LaneInv ==
    /\ activeLocal = Cardinality(LaneLocals)
    /\ clmActive <=> \E w \in Workers : InLane(w) /\ Key(w) = Clm
    /\ clmActive => activeLocal = 0
    /\ Cuda => activeLocal <= 1
    /\ \A w \in Workers : at[w] = "lane" => NeedsLane(w)

\* The places of the semaphore are counted.
SlotInv ==
    /\ slots = BatchLimit - Cardinality(SlotTakers)
    /\ \A w \in Workers : at[w] = "slot" => Queued(w) = "slot"

\* The requests of a call are those with a result and those still left, and a
\* call that is over has no worker that goes on.
Over(c, places) == \A w \in Workers : Call(w) = c => at[w] \in places
GroupInv ==
    /\ \A c \in Calls : status[c] = "new" => Over(c, {"off"}) /\ results[c] = {}
    /\ \A w \in Workers : at[w] \in {"off", "ended"} => left[w] = {}
    /\ \A c \in Calls : \A i :
          i \in DOMAIN items[c] <=>
             i \in results[c] \/ \E w \in Workers : Call(w) = c /\ i \in left[w]
    /\ \A c \in Calls : status[c] = "failed" => Over(c, {"off", "ended", "failed"})
    /\ \A c \in Calls : status[c] = "answered" => Over(c, {"off", "ended"})

\* A worker in the body of acquire() is counted, and only such a worker gives
\* a lease back.
LeaseInv ==
    /\ \A w \in Workers : IsLocal(w) /\ at[w] \in Leased => leases[Key(w)] > 0
    /\ \A w \in Workers : at[w] = "return" => IsLocal(w)

SInv == TypeOK /\ LockInv /\ LaneInv /\ SlotInv /\ GroupInv /\ LeaseInv

\* A model lock has one holder.
LEMMA OneHolder ==
    ASSUME LockInv, NEW v \in Workers, NEW w \in Workers, Key(v) = Key(w),
           at[v] \in Holding, at[w] \in Holding
    PROVE  v = w
  BY DEF LockInv

\* No call has begun and nothing is held.
THEOREM InitSInv == Init => SInv
<1> SUFFICES ASSUME Init PROVE SInv
  OBVIOUS
<1> USE SchedulerAssumption
<1>1. at = [w \in Workers |-> "off"] /\ \A w \in Workers : at[w] = "off"
  BY DEF Init
<1>2. TypeOK
  <2>1. items \in [Calls -> UNION {[1..n -> Names] : n \in 0..MaxItems}]
    <3>1. <<>> \in [1..0 -> Names] /\ 0 \in 0..MaxItems
      OBVIOUS
    <3>2. <<>> \in UNION {[1..n -> Names] : n \in 0..MaxItems}
      BY <3>1
    <3>3. QED
      BY <3>2 DEF Init
  <2>2. left \in [Workers -> SUBSET (1..MaxItems)] /\ results \in [Calls -> SUBSET (1..MaxItems)]
    BY DEF Init
  <2>3. /\ status \in [Calls -> {"new", "running", "cancelling", "answered", "failed"}]
        /\ modelLock \in [Keys -> Workers \cup {Nobody}]
    BY DEF Init
  <2>4. at \in [Workers -> {"off", "lock", "lane", "ended", "failed"} \cup Inside]
    BY <1>1
  <2>5. BatchLimit \in 0..BatchLimit
    OBVIOUS
  <2>6. activeLocal \in Nat /\ slots \in 0..BatchLimit /\ clmActive \in BOOLEAN
    BY <2>5 DEF Init
  <2>7. bad \subseteq Workers /\ cancelled \subseteq Workers
    BY DEF Init
  <2>8. open \in BOOLEAN /\ loaded \subseteq Locals /\ live \subseteq loaded /\ leases \in [Locals -> Nat]
    BY DEF Init, Res!Init
  <2>9. QED
    BY <2>1, <2>2, <2>3, <2>6, <2>8, <2>7, <2>4 DEF TypeOK
<1>3. LockInv
  BY <1>1 DEF Init, LockInv, Holding, Inside
<1>4. LaneLocals = {} /\ SlotTakers = {} /\ ~\E w \in Workers : InLane(w)
  BY <1>1 DEF LaneLocals, SlotTakers, Forwarding, InLane, Inside
<1>5. LaneInv
  BY <1>1, <1>4, FS_EmptySet DEF Init, LaneInv
<1>6. SlotInv
  BY <1>1, <1>4, FS_EmptySet DEF Init, SlotInv
<1>7. GroupInv
  <2>1. \A c \in Calls : Over(c, {"off"}) /\ status[c] = "new" /\ results[c] = {} /\ items[c] = <<>>
    BY <1>1 DEF Init, Over
  <2>2. DOMAIN <<>> = {}
    OBVIOUS
  <2>3. \A w \in Workers : left[w] = {}
    BY DEF Init
  <2>4. QED
    BY <2>1, <2>2, <2>3 DEF GroupInv
<1>8. LeaseInv
  BY <1>1 DEF LeaseInv, Leased
<1>9. QED
  BY <1>2, <1>3, <1>5, <1>6, <1>7, <1>8 DEF SInv

-----------------------------------------------------------------------------
(* The steps of a worker *)

\* A worker goes to another place and fails in the queue of the lock, takes it,
\* enters the lane, gives up in front of it, stays inside, or leaves.
Moves(w, place) ==
    /\ at' = [at EXCEPT ![w] = place]
    /\ \/ at[w] = "lock" /\ place = "failed" /\ UNCHANGED <<modelLock, laneVars>>
       \/ /\ at[w] = "lock" /\ modelLock[Key(w)] = Nobody
          /\ modelLock' = [modelLock EXCEPT ![Key(w)] = w] /\ UNCHANGED laneVars
          /\ IF NeedsLane(w) THEN place = "lane" ELSE place \in Inside
       \/ /\ at[w] = "lane" /\ place = "lease" /\ LaneOpen(w) /\ UNCHANGED modelLock
          /\ IF Key(w) = Clm
             THEN clmActive' = TRUE /\ UNCHANGED activeLocal
             ELSE activeLocal' = activeLocal + 1 /\ UNCHANGED clmActive
       \/ /\ at[w] = "lane" /\ place = "failed" /\ UNCHANGED laneVars
          /\ modelLock' = [modelLock EXCEPT ![Key(w)] = Nobody]
       \/ at[w] \in Inside /\ place \in Inside /\ UNCHANGED <<modelLock, laneVars>>
       \/ at[w] \in Inside /\ place \in {"lock", "ended", "failed"} /\ LeaveModel(w)

LEMMA WorkerMoves ==
    ASSUME NEW w \in Workers, Work(w) \/ Cancelling(w)
    PROVE  \E place \in Places \ {"off"} : Moves(w, place)
<1> USE DEF Goes, At, Inside, Places
<1>1. Queued(w) \in {"slot", "forward"}
  BY DEF Queued
<1>2. \A indexes : Begin(indexes) \in {"lock", "ended", "failed"}
  BY DEF Begin
<1>3. ASSUME NEW ok, Finish(w, ok), at[w] \in Inside PROVE \E place \in Places \ {"off"} : Moves(w, place)
  <2>1. PICK place \in {"lock", "ended", "failed"} : at' = [at EXCEPT ![w] = place]
    BY <1>2, <1>3 DEF Finish
  <2>2. LeaveModel(w)
    BY <1>3 DEF Finish
  <2>3. QED
    BY <1>3, <2>1, <2>2 DEF Moves
<1>4. CASE TakeLock(w)
  <2>1. PICK place \in {"lane", "lease", "slot", "forward"} :
            /\ at' = [at EXCEPT ![w] = place]
            /\ IF NeedsLane(w) THEN place = "lane" ELSE place \in Inside
    BY <1>1, <1>4 DEF TakeLock
  <2>2. QED
    BY <1>4, <2>1 DEF TakeLock, LockFree, Moves
<1>5. CASE EnterLane(w)
  BY <1>5 DEF EnterLane, Moves
<1>6. CASE TakeLease(w)
  BY <1>1, <1>6 DEF TakeLease, Moves
<1>7. CASE LeaseFails(w)
  BY <1>7 DEF LeaseFails, Moves
<1>8. CASE TakeSlot(w)
  BY <1>8 DEF TakeSlot, Moves
<1>9. ASSUME NEW ok \in BOOLEAN, HostedForwardEnds(w, ok) PROVE \E place \in Places \ {"off"} : Moves(w, place)
  BY <1>3, <1>9 DEF HostedForwardEnds
<1>10. ASSUME NEW ok \in BOOLEAN, LocalForwardEnds(w, ok) PROVE \E place \in Places \ {"off"} : Moves(w, place)
  BY <1>10 DEF LocalForwardEnds, Moves
<1>11. CASE GiveBackLease(w)
  BY <1>3, <1>11 DEF GiveBackLease
<1>12. CASE CancelledAtLock(w)
  BY <1>12 DEF CancelledAtLock, Moves
<1>13. CASE CancelledAtLane(w)
  BY <1>13 DEF CancelledAtLane, Moves
<1>14. CASE CancelledInside(w)
  BY <1>14 DEF CancelledInside, Moves
<1>15. CASE CancelledInBody(w)
  BY <1>15 DEF CancelledInBody, Moves
<1>16. QED
  BY <1>4, <1>5, <1>6, <1>7, <1>8, <1>9, <1>10, <1>11, <1>12, <1>13, <1>14, <1>15
     DEF Work, Cancelling, Forwards

\* Who holds a lock goes on, or leaves it free.
LEMMA LockMoves ==
    ASSUME TypeOK, LockInv, NEW w \in Workers, NEW place, Moves(w, place)
    PROVE  LockInv' /\ modelLock' \in [Keys -> Workers \cup {Nobody}]
<1>1. /\ at \in [Workers -> Places] /\ modelLock \in [Keys -> Workers \cup {Nobody}]
      /\ Key(w) \in Keys /\ w # Nobody /\ Nobody \notin Workers
  BY WorkerParts DEF TypeOK, Places
<1>2. \A v \in Workers : at'[v] = IF v = w THEN place ELSE at[v]
  BY <1>1 DEF Moves
<1>3. \A v \in Workers : Key(v) \in Keys
  BY WorkerParts
<1>4. CASE UNCHANGED modelLock /\ (at[w] \in Holding <=> place \in Holding)
  BY <1>1, <1>2, <1>4 DEF LockInv
<1>5. CASE /\ modelLock[Key(w)] = Nobody /\ modelLock' = [modelLock EXCEPT ![Key(w)] = w]
           /\ place \in Holding
  <2>1. \A k \in Keys : modelLock'[k] = IF k = Key(w) THEN w ELSE modelLock[k]
    BY <1>1, <1>5
  <2>2. QED
    BY <1>1, <1>2, <1>3, <1>5, <2>1 DEF LockInv
<1>6. CASE /\ at[w] \in Holding /\ modelLock' = [modelLock EXCEPT ![Key(w)] = Nobody]
           /\ place \notin Holding
  <2>1. \A k \in Keys : modelLock'[k] = IF k = Key(w) THEN Nobody ELSE modelLock[k]
    BY <1>1, <1>6
  <2>2. QED
    BY <1>1, <1>2, <1>3, <1>6, <2>1 DEF LockInv
<1>7. QED
  BY <1>4, <1>5, <1>6 DEF Moves, LeaveModel, Holding, Inside

\* The counters of the lane follow those who enter and leave it.
LEMMA LaneMoves ==
    ASSUME TypeOK, LockInv, LaneInv, NEW w \in Workers, NEW place, Moves(w, place)
    PROVE  LaneInv' /\ activeLocal' \in Nat /\ clmActive' \in BOOLEAN
<1>1. at \in [Workers -> Places] /\ activeLocal \in Nat /\ clmActive \in BOOLEAN
  BY DEF TypeOK, Places
<1>2. \A v \in Workers : at'[v] = IF v = w THEN place ELSE at[v]
  BY <1>1 DEF Moves
<1>3. \A v \in Workers : at'[v] = "lane" => NeedsLane(v)
  BY <1>2 DEF LaneInv, Moves, Inside
<1>4. IsFiniteSet(LaneLocals) /\ Cardinality(LaneLocals) \in Nat
  BY WorkersFinite DEF LaneLocals
\* Nobody in the lane changes.
<1>5. CASE UNCHANGED laneVars /\ (InLane(w) <=> place \in Inside /\ NeedsLane(w))
  <2>1. \A v \in Workers : InLane(v)' <=> InLane(v)
    BY <1>2, <1>5 DEF InLane
  <2>2. LaneLocals' = LaneLocals
    BY <2>1 DEF LaneLocals
  <2>3. QED
    BY <1>1, <1>3, <1>5, <2>1, <2>2 DEF LaneInv, laneVars
\* w enters the lane.
<1>6. CASE /\ at[w] = "lane" /\ place = "lease" /\ LaneOpen(w)
           /\ IF Key(w) = Clm
              THEN clmActive' = TRUE /\ UNCHANGED activeLocal
              ELSE activeLocal' = activeLocal + 1 /\ UNCHANGED clmActive
  <2>1. ~InLane(w) /\ NeedsLane(w) /\ InLane(w)' /\ \A v \in Workers \ {w} : InLane(v)' <=> InLane(v)
    BY <1>2, <1>6 DEF InLane, Inside, LaneInv
  <2>2. CASE Key(w) = Clm
    <3>1. LaneLocals' = LaneLocals
      BY <2>1, <2>2 DEF LaneLocals
    <3>2. activeLocal' = 0 /\ clmActive' = TRUE
      BY <1>6, <2>2 DEF LaneOpen
    <3>3. QED
      BY <1>1, <1>3, <1>6, <2>1, <2>2, <3>1, <3>2 DEF LaneInv
  <2>3. CASE Key(w) # Clm
    <3>1. LaneLocals' = LaneLocals \cup {w} /\ w \notin LaneLocals
      BY <2>1, <2>3 DEF LaneLocals
    <3>2. Cardinality(LaneLocals') = activeLocal + 1
      BY <1>4, <3>1, FS_AddElement DEF LaneInv
    <3>3. ~clmActive /\ (Cuda => activeLocal = 0)
      BY <1>6, <2>3 DEF LaneOpen
    <3>4. ~\E v \in Workers : InLane(v)' /\ Key(v) = Clm
      BY <2>1, <2>3, <3>3 DEF LaneInv
    <3>5. activeLocal' = activeLocal + 1 /\ clmActive' = clmActive
      BY <1>6, <2>3
    <3>6. QED
      BY <1>1, <1>3, <3>2, <3>3, <3>4, <3>5 DEF LaneInv
  <2>4. QED
    BY <2>2, <2>3
\* w leaves the lane.
<1>7. CASE at[w] \in Inside /\ place \notin Inside /\ NeedsLane(w) /\ LeaveLane(w)
  <2>1. InLane(w) /\ ~InLane(w)' /\ \A v \in Workers \ {w} : InLane(v)' <=> InLane(v)
    BY <1>2, <1>7 DEF InLane
  <2>2. CASE Key(w) = Clm
    <3>1. LaneLocals' = LaneLocals
      BY <2>1, <2>2 DEF LaneLocals
    <3>2. clmActive' = FALSE /\ activeLocal' = activeLocal
      BY <1>7, <2>2 DEF LeaveLane
    <3>3. \A v \in Workers : InLane(v) /\ Key(v) = Clm => v = w
      BY <2>1, <2>2, OneHolder DEF InLane, Holding
    <3>4. QED
      BY <1>1, <1>3, <2>1, <3>1, <3>2, <3>3 DEF LaneInv
  <2>3. CASE Key(w) # Clm
    <3>1. LaneLocals' = LaneLocals \ {w} /\ w \in LaneLocals
      BY <2>1, <2>3 DEF LaneLocals
    <3>2. Cardinality(LaneLocals') = activeLocal - 1
      BY <1>4, <3>1, FS_RemoveElement DEF LaneInv
    <3>3. Cardinality(LaneLocals) # 0
      BY <1>4, <3>1, FS_EmptySet
    <3>4. activeLocal' = activeLocal - 1 /\ clmActive' = clmActive
      BY <1>7, <2>3 DEF LeaveLane
    <3>5. ~clmActive
      BY <3>3 DEF LaneInv
    <3>6. ~\E v \in Workers : InLane(v)' /\ Key(v) = Clm
      BY <2>1, <3>5 DEF LaneInv
    <3>7. activeLocal >= 1
      BY <1>1, <3>3 DEF LaneInv
    <3>8. QED
      BY <1>1, <1>3, <3>2, <3>4, <3>5, <3>6, <3>7 DEF LaneInv
  <2>4. QED
    BY <2>2, <2>3
<1>8. CASE at[w] \in Inside /\ place \in {"lock", "ended", "failed"} /\ LeaveModel(w)
  <2>1. LeaveLane(w) /\ place \notin Inside
    BY <1>8 DEF LeaveModel, Inside
  <2>2. CASE NeedsLane(w)
    BY <1>7, <1>8, <2>1, <2>2
  <2>3. CASE ~NeedsLane(w)
    BY <1>5, <2>1, <2>3 DEF LeaveLane, InLane
  <2>4. QED
    BY <2>2, <2>3
<1>9. CASE at[w] \in {"lock", "lane"} /\ UNCHANGED laneVars /\ (NeedsLane(w) => place \notin Inside)
  BY <1>5, <1>9 DEF InLane, Inside
<1>10. CASE at[w] \in Inside /\ place \in Inside /\ UNCHANGED laneVars
  BY <1>5, <1>10 DEF InLane
<1>11. QED
  BY <1>6, <1>8, <1>9, <1>10 DEF Moves, Inside, laneVars

\* The semaphore follows those who enter and leave the forward of a batch.
LEMMA SlotMoves ==
    ASSUME TypeOK, SlotInv, NEW w \in Workers, Work(w) \/ Cancelling(w)
    PROVE  SlotInv' /\ slots' \in 0..BatchLimit
<1> USE DEF At, Goes
<1>1. /\ at \in [Workers -> Places] /\ slots \in 0..BatchLimit /\ BatchLimit \in Nat
      /\ IsFiniteSet(SlotTakers) /\ Cardinality(SlotTakers) \in Nat
  BY SchedulerAssumption, WorkersFinite DEF TypeOK, Places, SlotTakers, Forwarding
<1>2. Queued(w) \in {"slot", "forward"}
  BY DEF Queued
\* The places of the others stay, and so does that of w in the semaphore.
<1>3. ASSUME NEW place, at' = [at EXCEPT ![w] = place], slots' = slots,
             at[w] = "forward" /\ Queued(w) = "slot" <=> place = "forward" /\ Queued(w) = "slot",
             place = "slot" => Queued(w) = "slot"
      PROVE  SlotInv' /\ slots' \in 0..BatchLimit
  <2>1. \A v \in Workers : at'[v] = IF v = w THEN place ELSE at[v]
    BY <1>1, <1>3
  <2>2. SlotTakers' = SlotTakers
    BY <1>3, <2>1 DEF SlotTakers, Forwarding
  <2>3. QED
    BY <1>1, <1>3, <2>1, <2>2 DEF SlotInv
<1>4. ASSUME NEW place, at' = [at EXCEPT ![w] = place], at[w] = "forward",
             place \notin {"forward", "slot"}, GiveSlot(w)
      PROVE  SlotInv' /\ slots' \in 0..BatchLimit
  <2>1. \A v \in Workers : at'[v] = IF v = w THEN place ELSE at[v]
    BY <1>1, <1>4
  <2>2. CASE Queued(w) # "slot"
    BY <1>3, <1>4, <2>2 DEF GiveSlot
  <2>3. CASE Queued(w) = "slot"
    <3>1. SlotTakers' = SlotTakers \ {w} /\ w \in SlotTakers
      BY <1>4, <2>1, <2>3 DEF SlotTakers, Forwarding
    <3>2. Cardinality(SlotTakers') = Cardinality(SlotTakers) - 1 /\ Cardinality(SlotTakers) # 0
      BY <1>1, <3>1, FS_RemoveElement, FS_EmptySet
    <3>3. slots' = slots + 1
      BY <1>4, <2>3 DEF GiveSlot
    <3>4. QED
      BY <1>1, <1>4, <2>1, <3>2, <3>3 DEF SlotInv
  <2>4. QED
    BY <2>2, <2>3
<1>5. \A indexes : Begin(indexes) \in {"lock", "ended", "failed"}
  BY DEF Begin
<1>6. ASSUME NEW ok, Finish(w, ok) PROVE \E place \in {"lock", "ended", "failed"} : at' = [at EXCEPT ![w] = place]
  BY <1>5, <1>6 DEF Finish
<1>7. CASE TakeLock(w)
  <2>1. at[w] = "lock" /\ slots' = slots
    BY <1>7 DEF TakeLock
  <2>2. PICK place \in {"lane", "lease", Queued(w)} : at' = [at EXCEPT ![w] = place]
    BY <1>7 DEF TakeLock
  <2>3. QED
    BY <1>2, <1>3, <2>1, <2>2
<1>8. CASE TakeLease(w)
  <2>1. at[w] = "lease" /\ at' = [at EXCEPT ![w] = Queued(w)] /\ slots' = slots
    BY <1>8 DEF TakeLease
  <2>2. QED
    BY <1>2, <1>3, <2>1
<1>9. CASE EnterLane(w) \/ LeaseFails(w) \/ CancelledAtLock(w) \/ CancelledAtLane(w)
  <2>1. at[w] # "forward" /\ slots' = slots
    BY <1>9 DEF EnterLane, LeaseFails, CancelledAtLock, CancelledAtLane
  <2>2. at' = [at EXCEPT ![w] = "lease"] \/ at' = [at EXCEPT ![w] = "failed"]
    BY <1>9 DEF EnterLane, LeaseFails, CancelledAtLock, CancelledAtLane
  <2>3. QED
    BY <1>3, <2>1, <2>2
<1>10. CASE TakeSlot(w)
  <2>1. at[w] = "slot" /\ at' = [at EXCEPT ![w] = "forward"] /\ slots > 0 /\ slots' = slots - 1
    BY <1>10 DEF TakeSlot, SlotFree
  <2>2. \A v \in Workers : at'[v] = IF v = w THEN "forward" ELSE at[v]
    BY <1>1, <2>1
  <2>3. SlotTakers' = SlotTakers \cup {w} /\ w \notin SlotTakers
    BY <2>1, <2>2 DEF SlotTakers, Forwarding, SlotInv
  <2>4. Cardinality(SlotTakers') = Cardinality(SlotTakers) + 1
    BY <1>1, <2>3, FS_AddElement
  <2>5. QED
    BY <1>1, <2>1, <2>2, <2>4 DEF SlotInv
<1>11. ASSUME NEW ok, HostedForwardEnds(w, ok) PROVE SlotInv' /\ slots' \in 0..BatchLimit
  BY <1>4, <1>6, <1>11 DEF HostedForwardEnds
<1>12. ASSUME NEW ok, LocalForwardEnds(w, ok) PROVE SlotInv' /\ slots' \in 0..BatchLimit
  <2>1. PICK place : /\ at[w] = "forward" /\ at' = [at EXCEPT ![w] = place] /\ place = "return"
                     /\ GiveSlot(w)
    BY <1>12 DEF LocalForwardEnds
  <2>2. place \notin {"forward", "slot"}
    BY <2>1
  <2>3. QED
    BY <1>4, <2>1, <2>2
<1>13. CASE GiveBackLease(w)
  BY <1>3, <1>6, <1>13 DEF GiveBackLease
<1>14. CASE CancelledInside(w)
  <2>1. PICK place : at' = [at EXCEPT ![w] = place] /\ place = "failed"
    BY <1>14 DEF CancelledInside
  <2>2. IF at[w] = "forward" THEN GiveSlot(w) ELSE slots' = slots
    BY <1>14 DEF CancelledInside
  <2>3. place \notin {"forward", "slot"}
    BY <2>1
  <2>4. CASE at[w] = "forward"
    BY <1>4, <2>1, <2>2, <2>3, <2>4
  <2>5. CASE at[w] # "forward"
    BY <1>3, <2>1, <2>2, <2>3, <2>5
  <2>6. QED
    BY <2>4, <2>5
<1>15. CASE CancelledInBody(w)
  <2>1. PICK place : at' = [at EXCEPT ![w] = place] /\ place = "return"
    BY <1>15 DEF CancelledInBody
  <2>2. IF at[w] = "forward" THEN GiveSlot(w) ELSE slots' = slots
    BY <1>15 DEF CancelledInBody
  <2>3. place \notin {"forward", "slot"}
    BY <2>1
  <2>4. CASE at[w] = "forward"
    BY <1>4, <2>1, <2>2, <2>3, <2>4
  <2>5. CASE at[w] # "forward"
    BY <1>3, <2>1, <2>2, <2>3, <2>5
  <2>6. QED
    BY <2>4, <2>5
<1>16. QED
  BY <1>7, <1>8, <1>9, <1>10, <1>11, <1>12, <1>13, <1>14, <1>15 DEF Work, Cancelling, Forwards

\* A worker moves a request of its group to the results, or leaves them alone.
LEMMA GroupMoves ==
    ASSUME TypeOK, GroupInv, NEW w \in Workers, Work(w) \/ Cancelling(w)
    PROVE  /\ GroupInv'
           /\ left' \in [Workers -> SUBSET (1..MaxItems)]
           /\ results' \in [Calls -> SUBSET (1..MaxItems)]
<1> USE DEF At, Goes
<1>1. /\ at \in [Workers -> Places] /\ left \in [Workers -> SUBSET (1..MaxItems)]
      /\ results \in [Calls -> SUBSET (1..MaxItems)] /\ Call(w) \in Calls
  BY WorkerParts DEF TypeOK, Places
<1>2. items' = items /\ status' = status
  BY DEF Work, Cancelling, Forwards, TakeLock, EnterLane, TakeLease, LeaseFails, TakeSlot,
         HostedForwardEnds, LocalForwardEnds, GiveBackLease, CancelledAtLock, CancelledAtLane,
         CancelledInside, CancelledInBody, callVars
<1>3. ASSUME NEW place, at' = [at EXCEPT ![w] = place],
             at[w] \notin {"off", "ended", "failed"}
      PROVE  /\ \A v \in Workers : at'[v] = IF v = w THEN place ELSE at[v]
             /\ status[Call(w)] # "new"
             /\ \A c \in Calls : status[c] = "new" => Over(c, {"off"})'
             /\ \A c \in Calls : status[c] = "failed" => Over(c, {"off", "ended", "failed"})'
             /\ \A c \in Calls : status[c] = "answered" => Over(c, {"off", "ended"})'
  <2>1. \A v \in Workers : at'[v] = IF v = w THEN place ELSE at[v]
    BY <1>1, <1>3
  <2>2. status[Call(w)] \notin {"new", "failed", "answered"}
    BY <1>1, <1>3 DEF GroupInv, Over
  <2>3. QED
    BY <2>1, <2>2 DEF GroupInv, Over
<1>4. ASSUME NEW place, at' = [at EXCEPT ![w] = place], UNCHANGED <<left, results>>,
             at[w] \notin {"off", "ended", "failed"}, place \notin {"off", "ended"}
      PROVE  GroupInv'
  BY <1>1, <1>2, <1>3, <1>4 DEF GroupInv
<1>5. ASSUME NEW ok, Finish(w, ok), at[w] \in Inside
      PROVE  /\ GroupInv'
             /\ left' \in [Workers -> SUBSET (1..MaxItems)]
             /\ results' \in [Calls -> SUBSET (1..MaxItems)]
  <2>1. at[w] \notin {"off", "ended", "failed"}
    BY <1>5 DEF Inside
  <2>2. CASE ~ok
    BY <1>1, <1>4, <1>5, <2>1, <2>2 DEF Finish
  <2>3. CASE ok
    <3>1. PICK i \in First(left[w]) :
              /\ left' = [left EXCEPT ![w] = @ \ {i}]
              /\ results' = [results EXCEPT ![Call(w)] = @ \cup {i}]
              /\ at' = [at EXCEPT ![w] = Begin(left[w] \ {i})]
      BY <1>5, <2>3 DEF Finish
    <3>2. i \in left[w] /\ i \in 1..MaxItems
      BY <1>1, <3>1 DEF First
    <3>3. Begin(left[w] \ {i}) # "off" /\ (Begin(left[w] \ {i}) = "ended" => left[w] \ {i} = {})
      BY DEF Begin
    <3>4. /\ \A v \in Workers : left'[v] = IF v = w THEN left[v] \ {i} ELSE left[v]
          /\ \A c \in Calls : results'[c] = IF c = Call(w) THEN results[c] \cup {i} ELSE results[c]
      BY <1>1, <3>1
    <3>5. \A v \in Workers : at'[v] \in {"off", "ended"} => left'[v] = {}
      BY <1>3, <2>1, <3>1, <3>3, <3>4 DEF GroupInv
    <3>6. \A c \in Calls : \A j :
            (j \in results'[c] \/ \E v \in Workers : Call(v) = c /\ j \in left'[v])
              <=> (j \in results[c] \/ \E v \in Workers : Call(v) = c /\ j \in left[v])
      BY <3>2, <3>4
    <3>7. left' \in [Workers -> SUBSET (1..MaxItems)] /\ results' \in [Calls -> SUBSET (1..MaxItems)]
      BY <1>1, <3>1, <3>2
    <3>8. \A c \in Calls : status[c] = "new" => results'[c] = {}
      <4>1. status[Call(w)] # "new"
        BY <1>1, <2>1 DEF GroupInv, Over
      <4>2. QED
        BY <3>4, <4>1 DEF GroupInv
    <3>9. \A c \in Calls : \A j : j \in DOMAIN items'[c] <=>
            j \in results'[c] \/ \E v \in Workers : Call(v) = c /\ j \in left'[v]
      BY <1>2, <3>6 DEF GroupInv
    <3>10. GroupInv'
      <4> DEFINE place == Begin(left[w] \ {i})
      <4>1. at' = [at EXCEPT ![w] = place]
        BY <3>1
      <4> HIDE DEF place
      <4>2. /\ \A c \in Calls : status[c] = "new" => Over(c, {"off"})'
            /\ \A c \in Calls : status[c] = "failed" => Over(c, {"off", "ended", "failed"})'
            /\ \A c \in Calls : status[c] = "answered" => Over(c, {"off", "ended"})'
        BY <1>3, <2>1, <4>1
      <4>3. QED
        BY <1>2, <3>5, <3>8, <3>9, <4>2 DEF GroupInv
    <3>11. QED
      BY <3>7, <3>10
  <2>4. QED
    BY <2>2, <2>3
<1>6. Queued(w) \notin {"off", "ended"}
  BY DEF Queued
<1>7. CASE TakeLock(w)
  <2>1. at[w] = "lock" /\ UNCHANGED <<left, results>>
    BY <1>7 DEF TakeLock
  <2>2. PICK place \in {"lane", "lease", Queued(w)} : at' = [at EXCEPT ![w] = place]
    BY <1>7 DEF TakeLock
  <2>3. place \notin {"off", "ended"}
    BY <1>6, <2>2
  <2>4. QED
    BY <1>1, <1>4, <2>1, <2>2, <2>3
<1>8. CASE EnterLane(w) \/ LeaseFails(w) \/ TakeSlot(w) \/ TakeLease(w)
  BY <1>1, <1>4, <1>6, <1>8 DEF EnterLane, LeaseFails, TakeSlot, TakeLease
<1>9. CASE CancelledAtLock(w) \/ CancelledAtLane(w) \/ CancelledInside(w) \/ CancelledInBody(w)
  BY <1>1, <1>4, <1>9 DEF CancelledAtLock, CancelledAtLane, CancelledInside, CancelledInBody
<1>10. ASSUME NEW ok, LocalForwardEnds(w, ok)
       PROVE  GroupInv' /\ UNCHANGED <<left, results>>
  <2>1. PICK place : /\ at[w] = "forward" /\ at' = [at EXCEPT ![w] = place] /\ place = "return"
                     /\ UNCHANGED <<left, results>>
    BY <1>10 DEF LocalForwardEnds
  <2>2. at[w] \notin {"off", "ended", "failed"} /\ place \notin {"off", "ended"}
    BY <2>1
  <2>3. QED
    BY <1>4, <2>1, <2>2
<1>11. ASSUME NEW ok, HostedForwardEnds(w, ok)
       PROVE  /\ GroupInv'
              /\ left' \in [Workers -> SUBSET (1..MaxItems)]
              /\ results' \in [Calls -> SUBSET (1..MaxItems)]
  BY <1>5, <1>11 DEF HostedForwardEnds, Inside
<1>12. CASE GiveBackLease(w)
  BY <1>5, <1>12 DEF GiveBackLease, Inside
<1>13. QED
  BY <1>1, <1>7, <1>8, <1>9, <1>10, <1>11, <1>12 DEF Work, Cancelling, Forwards

\* Who comes into the body of acquire() is counted, and only one of a key is.
LEMMA LeaseMoves ==
    ASSUME TypeOK, LockInv, LeaseInv, NEW w \in Workers, Work(w) \/ Cancelling(w)
    PROVE  LeaseInv' /\ leases' \in [Locals -> Nat]
<1> USE DEF At, Goes
<1>1. at \in [Workers -> Places] /\ leases \in [Locals -> Nat]
  BY DEF TypeOK, Places
<1>2. ASSUME NEW place, at' = [at EXCEPT ![w] = place], leases' = leases,
             IsLocal(w) /\ place \in Leased => at[w] \in Leased,
             place = "return" => IsLocal(w)
      PROVE  LeaseInv' /\ leases' \in [Locals -> Nat]
  <2>1. \A v \in Workers : at'[v] = IF v = w THEN place ELSE at[v]
    BY <1>1, <1>2
  <2>2. QED
    BY <1>1, <1>2, <2>1 DEF LeaseInv
<1>3. \A indexes : Begin(indexes) \notin Leased
  BY DEF Begin, Leased
<1>4. ASSUME NEW ok, Finish(w, ok)
      PROVE  \E place : at' = [at EXCEPT ![w] = place] /\ place \notin Leased
  BY <1>3, <1>4 DEF Finish, Leased
<1>5. CASE TakeLock(w)
  <2>1. leases' = leases
    BY <1>5 DEF TakeLock, leaseVars
  <2>2. PICK place : /\ at' = [at EXCEPT ![w] = place]
                     /\ IsLocal(w) => place \in {"lane", "lease"}
                     /\ place # "return"
    BY <1>5 DEF TakeLock, Queued
  <2>3. QED
    BY <1>2, <2>1, <2>2 DEF Leased
<1>6. CASE EnterLane(w) \/ LeaseFails(w) \/ TakeSlot(w)
  BY <1>2, <1>6 DEF EnterLane, LeaseFails, TakeSlot, leaseVars, Leased
<1>7. CASE Cancelling(w)
  <2>1. CASE CancelledAtLock(w) \/ CancelledAtLane(w) \/ CancelledInside(w)
    BY <1>2, <2>1 DEF CancelledAtLock, CancelledAtLane, CancelledInside, leaseVars, Leased
  <2>2. CASE CancelledInBody(w)
    <3>1. /\ at' = [at EXCEPT ![w] = "return"] /\ leases' = leases
          /\ IsLocal(w) /\ at[w] \in Leased
      BY <2>2 DEF CancelledInBody, leaseVars, Leased
    <3>2. QED
      BY <1>2, <3>1
  <2>3. QED
    BY <1>7, <2>1, <2>2 DEF Cancelling
<1>8. ASSUME NEW ok, LocalForwardEnds(w, ok) PROVE LeaseInv' /\ leases' \in [Locals -> Nat]
  BY <1>2, <1>8 DEF LocalForwardEnds, leaseVars, Leased
<1>9. ASSUME NEW ok, HostedForwardEnds(w, ok) PROVE LeaseInv' /\ leases' \in [Locals -> Nat]
  <2>1. PICK place : at' = [at EXCEPT ![w] = place] /\ place \notin Leased
    BY <1>4, <1>9 DEF HostedForwardEnds
  <2>2. QED
    BY <1>2, <1>9, <2>1 DEF HostedForwardEnds, leaseVars, Leased
<1>10. CASE TakeLease(w)
  <2>1. at' = [at EXCEPT ![w] = Queued(w)] /\ leases' = [leases EXCEPT ![Key(w)] = @ + 1]
    BY <1>10 DEF TakeLease, Res!Grant
  <2>2. \A v \in Workers : at'[v] = IF v = w THEN Queued(w) ELSE at[v]
    BY <1>1, <2>1
  <2>3. \A p \in Locals : leases'[p] \in Nat /\ leases'[p] >= leases[p] /\ (p = Key(w) => leases'[p] > 0)
    BY <1>1, <2>1
  <2>4. leases' \in [Locals -> Nat]
    BY <1>1, <2>1, <2>3
  <2>5. \A v \in Workers : IsLocal(v) /\ at'[v] \in Leased => leases'[Key(v)] > 0
    BY <1>1, <2>2, <2>3 DEF LeaseInv, IsLocal
  <2>6. \A v \in Workers : at'[v] = "return" => IsLocal(v)
    BY <2>2 DEF LeaseInv, Queued
  <2>7. QED
    BY <2>4, <2>5, <2>6 DEF LeaseInv
<1>11. CASE GiveBackLease(w)
  <2>1. at[w] = "return" /\ leases[Key(w)] > 0 /\ leases' = [leases EXCEPT ![Key(w)] = @ - 1]
    BY <1>11 DEF GiveBackLease, Res!GiveBack
  <2>2. PICK place : at' = [at EXCEPT ![w] = place] /\ place \notin Leased
    BY <1>4, <1>11 DEF GiveBackLease
  <2>3. \A v \in Workers : at'[v] = IF v = w THEN place ELSE at[v]
    BY <1>1, <2>2
  <2>4. \A p \in Locals : leases'[p] = (IF p = Key(w) THEN leases[p] - 1 ELSE leases[p]) /\ leases'[p] \in Nat
    BY <1>1, <2>1
  <2>5. leases' \in [Locals -> Nat]
    BY <1>1, <2>1, <2>4
  <2>6. ASSUME NEW v \in Workers, IsLocal(v), at'[v] \in Leased PROVE leases'[Key(v)] > 0
    <3>1. v # w /\ at[v] \in Leased
      BY <2>2, <2>3, <2>6
    <3>2. Key(v) # Key(w)
      BY <2>1, <3>1, OneHolder DEF Leased, Holding, Inside
    <3>3. QED
      BY <2>4, <2>6, <3>1, <3>2 DEF LeaseInv, IsLocal
  <2>7. \A v \in Workers : at'[v] = "return" => IsLocal(v)
    BY <2>2, <2>3 DEF LeaseInv, Leased
  <2>8. QED
    BY <2>5, <2>6, <2>7 DEF LeaseInv
<1>12. QED
  BY <1>5, <1>6, <1>7, <1>8, <1>9, <1>10, <1>11 DEF Work, Forwards

\* A worker leaves the calls alone, and the supervisor but for its lease.
LEMMA WorkerFrame ==
    ASSUME TypeOK, NEW w \in Workers, Work(w) \/ Cancelling(w)
    PROVE  /\ UNCHANGED <<items, status, open, loaded, live>>
           /\ bad' \subseteq Workers /\ cancelled' \subseteq Workers
<1>1. bad \subseteq Workers /\ cancelled \subseteq Workers
  BY DEF TypeOK
<1>2. UNCHANGED <<items, status, open, loaded, live>>
  BY DEF Work, Cancelling, Forwards, TakeLock, EnterLane, TakeLease, LeaseFails, TakeSlot,
         HostedForwardEnds, LocalForwardEnds, GiveBackLease, CancelledAtLock, CancelledAtLane,
         CancelledInside, CancelledInBody, callVars, leaseVars, Res!Grant, Res!GiveBack
<1>3. cancelled' = cancelled \/ cancelled' = cancelled \ {w}
  BY DEF Work, Cancelling, Forwards, TakeLock, EnterLane, TakeLease, LeaseFails, TakeSlot,
         HostedForwardEnds, LocalForwardEnds, GiveBackLease, CancelledAtLock, CancelledAtLane,
         CancelledInside, CancelledInBody, Delivered
<1>4. bad' = bad \/ bad' = bad \cup {w}
  BY DEF Work, Cancelling, Forwards, TakeLock, EnterLane, TakeLease, LeaseFails, TakeSlot,
         HostedForwardEnds, LocalForwardEnds, GiveBackLease, CancelledAtLock, CancelledAtLane,
         CancelledInside, CancelledInBody
<1>5. QED
  BY <1>1, <1>2, <1>3, <1>4

LEMMA WorkerStep ==
    ASSUME SInv, NEW w \in Workers, Work(w) \/ Cancelling(w)
    PROVE  SInv'
<1>1. PICK place \in Places \ {"off"} : Moves(w, place)
  BY WorkerMoves
<1>2. LockInv' /\ modelLock' \in [Keys -> Workers \cup {Nobody}]
  BY <1>1, LockMoves DEF SInv
<1>3. LaneInv' /\ activeLocal' \in Nat /\ clmActive' \in BOOLEAN
  BY <1>1, LaneMoves DEF SInv
<1>4. SlotInv' /\ slots' \in 0..BatchLimit
  BY SlotMoves DEF SInv
<1>5. /\ GroupInv'
      /\ left' \in [Workers -> SUBSET (1..MaxItems)] /\ results' \in [Calls -> SUBSET (1..MaxItems)]
  BY GroupMoves DEF SInv
<1>6. LeaseInv' /\ leases' \in [Locals -> Nat]
  BY LeaseMoves DEF SInv
<1>7. at' \in [Workers -> Places]
  BY <1>1 DEF SInv, TypeOK, Moves, Places
<1>8. TypeOK'
  BY <1>2, <1>3, <1>4, <1>5, <1>6, <1>7, WorkerFrame DEF SInv, TypeOK, Places
<1>9. QED
  BY <1>2, <1>3, <1>4, <1>5, <1>6, <1>8 DEF SInv

-----------------------------------------------------------------------------
(* The steps of a call and of the supervisor *)

\* Every request of a call falls into the group of one of its workers.
LEMMA SubmitStep ==
    ASSUME SInv, NEW c \in Calls, NEW models \in Requests(c), Submit(c, models)
    PROVE  SInv'
<1> DEFINE group(k) == {i \in DOMAIN models : ModelKey(models[i]) = k}
<1>1. /\ TypeOK /\ LockInv /\ LaneInv /\ SlotInv /\ GroupInv /\ LeaseInv
      /\ at \in [Workers -> Places] /\ items \in [Calls -> UNION {[1..n -> Names] : n \in 0..MaxItems}]
  BY DEF SInv, TypeOK, Places
<1>2. /\ status[c] = "new" /\ items' = [items EXCEPT ![c] = models]
      /\ left' = [w \in Workers |-> IF Call(w) = c THEN group(Key(w)) ELSE left[w]]
      /\ at' = [w \in Workers |->
                  IF Call(w) # c THEN at[w]
                  ELSE IF group(Key(w)) = {} THEN "off" ELSE Begin(group(Key(w)))]
      /\ status' = [status EXCEPT ![c] = "running"]
      /\ UNCHANGED <<results, modelLock, laneVars, slots, bad, cancelled, leaseVars>>
  BY DEF Submit
<1>3. PICK n \in 1..MaxItems : models \in [1..n -> Asks[c]]
  <2>1. PICK n \in 1..(IF c \in Batches THEN MaxItems ELSE 1) : models \in [1..n -> Asks[c]]
    BY DEF Requests
  <2>2. n \in 1..MaxItems
    BY SchedulerAssumption
  <2>3. QED
    BY <2>1, <2>2
<1>4. models \in [1..n -> Names] /\ DOMAIN models = 1..n /\ 1..n \subseteq 1..MaxItems
  BY <1>3, SchedulerAssumption
<1>5. \A w \in Workers : Call(w) # c => at'[w] = at[w] /\ left'[w] = left[w]
  BY <1>2
<1>6. ASSUME NEW w \in Workers, Call(w) = c
      PROVE  /\ at[w] = "off" /\ at'[w] \in {"off", "lock", "failed"}
             /\ left'[w] = group(Key(w)) /\ (at'[w] = "off" => left'[w] = {})
  <2>1. at[w] = "off"
    BY <1>1, <1>2, <1>6 DEF GroupInv, Over
  <2>2. group(Key(w)) # {} => Begin(group(Key(w))) \in {"lock", "failed"}
    BY DEF Begin
  <2>3. QED
    BY <1>2, <1>6, <2>1, <2>2
<1> HIDE DEF group
<1>7. /\ at' \in [Workers -> Places] /\ left' \in [Workers -> SUBSET (1..MaxItems)]
  <2>1. \A w \in Workers : at'[w] \in Places
    BY <1>1, <1>5, <1>6 DEF Places
  <2>2. \A k : group(k) \subseteq 1..MaxItems
    BY <1>4 DEF group
  <2>3. \A w \in Workers : left[w] \subseteq 1..MaxItems
    BY <1>1 DEF TypeOK
  <2>4. QED
    BY <1>2, <2>1, <2>2, <2>3
<1>8. TypeOK'
  <2>1. items' \in [Calls -> UNION {[1..m -> Names] : m \in 0..MaxItems}]
    <3>1. n \in 0..MaxItems
      BY <1>3, SchedulerAssumption
    <3>2. models \in UNION {[1..m -> Names] : m \in 0..MaxItems}
      BY <1>4, <3>1
    <3>3. QED
      BY <1>1, <1>2, <3>2
  <2>2. status' \in [Calls -> {"new", "running", "cancelling", "answered", "failed"}]
    BY <1>1, <1>2 DEF TypeOK
  <2>3. QED
    BY <1>1, <1>2, <1>7, <2>1, <2>2 DEF TypeOK, Places, laneVars, leaseVars
\* None of the call's workers was or is past the queue of a lock.
<1>9. \A w \in Workers : /\ at'[w] \in Holding \/ at[w] \in Holding => at'[w] = at[w]
                         /\ at'[w] \in Inside <=> at[w] \in Inside
  BY <1>5, <1>6 DEF Holding, Inside
<1>10. LockInv'
  <2>1. modelLock' = modelLock /\ \A k \in Keys : modelLock[k] # Nobody => modelLock[k] \in Workers
    BY <1>1, <1>2 DEF TypeOK
  <2>2. \A w \in Workers : /\ at'[w] \in Holding => at[w] \in Holding
                           /\ at[w] \in Holding => at'[w] \in Holding
    BY <1>9
  <2>3. \A w \in Workers : at'[w] \in Holding => modelLock'[Key(w)] = w
    BY <1>1, <2>1, <2>2 DEF LockInv
  <2>4. ASSUME NEW k \in Keys, modelLock'[k] # Nobody
        PROVE  Key(modelLock'[k]) = k /\ at'[modelLock'[k]] \in Holding
    BY <1>1, <2>1, <2>2, <2>4 DEF LockInv
  <2>5. QED
    BY <2>3, <2>4 DEF LockInv
<1>11. LaneInv'
  <2>1. \A w \in Workers : InLane(w)' <=> InLane(w)
    BY <1>9 DEF InLane
  <2>2. LaneLocals' = LaneLocals
    BY <2>1 DEF LaneLocals
  <2>3. QED
    BY <1>1, <1>2, <1>9, <2>1, <2>2 DEF LaneInv, laneVars, Holding
<1>12. SlotInv'
  <2>1. \A w \in Workers : /\ at'[w] = "forward" <=> at[w] = "forward"
                           /\ at'[w] = "slot" <=> at[w] = "slot"
    BY <1>9 DEF Holding, Inside
  <2>2. SlotTakers' = SlotTakers
    BY <2>1 DEF SlotTakers, Forwarding
  <2>3. QED
    BY <1>1, <1>2, <2>1, <2>2 DEF SlotInv
<1>13. LeaseInv'
  BY <1>1, <1>2, <1>9 DEF LeaseInv, leaseVars, Leased, Holding, Inside
<1>14. GroupInv'
  <2>1. \A x \in Calls : /\ items'[x] = IF x = c THEN models ELSE items[x]
                         /\ status'[x] = IF x = c THEN "running" ELSE status[x]
    BY <1>1, <1>2 DEF TypeOK
  <2>2. \A x \in Calls : \A places : x # c => (Over(x, places)' <=> Over(x, places))
    BY <1>5 DEF Over
  <2>3. \A w \in Workers : at'[w] \in {"off", "ended"} => left'[w] = {}
    BY <1>1, <1>5, <1>6 DEF GroupInv
  <2>4. ASSUME NEW x \in Calls, NEW i
        PROVE  i \in DOMAIN items'[x] <=>
                  i \in results'[x] \/ \E w \in Workers : Call(w) = x /\ i \in left'[w]
    <3>1. CASE x # c
      BY <1>1, <1>2, <1>5, <2>1, <3>1 DEF GroupInv
    <3>2. CASE x = c
      <4>1. results'[c] = {} /\ items'[c] = models
        BY <1>1, <1>2, <2>1 DEF GroupInv
      <4>2. ASSUME i \in DOMAIN models
            PROVE  \E w \in Workers : Call(w) = c /\ i \in left'[w]
        <5> DEFINE w == <<c, ModelKey(models[i])>>
        <5>1. w \in Workers /\ Call(w) = c /\ Key(w) = ModelKey(models[i])
          BY <1>3, <4>2, WorkerParts
        <5>2. i \in group(Key(w))
          BY <4>2, <5>1 DEF group
        <5>3. QED
          BY <1>6, <5>1, <5>2
      <4>3. \A w \in Workers : Call(w) = c => left'[w] \subseteq DOMAIN models
        BY <1>6 DEF group
      <4>4. QED
        BY <3>2, <4>1, <4>2, <4>3
    <3>3. QED
      BY <3>1, <3>2
  <2>5. QED
    BY <1>1, <1>2, <2>1, <2>2, <2>3, <2>4 DEF GroupInv
<1>15. QED
  BY <1>8, <1>10, <1>11, <1>12, <1>13, <1>14 DEF SInv

\* Nobody moves when a call ends or is cancelled, or in a step of the supervisor.
LEMMA OtherSteps ==
    ASSUME SInv,
           \/ \E c \in Calls : Answer(c) \/ CancelCall(c)
           \/ SupervisorStep \/ UNCHANGED vars
    PROVE  SInv'
<1>1. /\ TypeOK /\ LockInv /\ LaneInv /\ SlotInv /\ GroupInv /\ LeaseInv
  BY DEF SInv
<1>2. UNCHANGED <<items, left, results, at, modelLock, activeLocal, clmActive, slots, bad, leases>>
  <2>1. CASE SupervisorStep
    <3>1. UNCHANGED <<items, left, results, at, modelLock, laneVars, slots, bad>>
      BY <2>1 DEF SupervisorStep
    <3>2. leases' = leases
      BY <2>1 DEF SupervisorStep, Res!Open, Res!Close, Res!Load, Res!Unload, Res!Die
    <3>3. QED
      BY <3>1, <3>2 DEF laneVars
  <2>2. CASE \E c \in Calls : Answer(c) \/ CancelCall(c)
    BY <2>2 DEF Answer, CancelCall, laneVars, leaseVars
  <2>3. CASE UNCHANGED vars
    BY <2>3 DEF vars
  <2>4. QED
    BY <2>1, <2>2, <2>3
<1>3. LockInv' /\ LeaseInv'
  BY <1>1, <1>2 DEF LockInv, LeaseInv
<1>4. LaneInv'
  BY <1>1, <1>2 DEF LaneInv, LaneLocals, InLane
<1>5. SlotInv'
  BY <1>1, <1>2 DEF SlotInv, SlotTakers, Forwarding
<1>6. cancelled' \subseteq Workers
  BY <1>1 DEF Answer, CancelCall, SupervisorStep, vars, TypeOK
<1>7. open' \in BOOLEAN /\ loaded' \subseteq Locals /\ live' \subseteq loaded'
  <2>1. CASE UNCHANGED <<open, loaded, live>>
    BY <1>1, <2>1 DEF TypeOK
  <2>2. CASE SupervisorStep
    <3>1. \/ open' \in {TRUE, FALSE} /\ UNCHANGED <<loaded, live>>
          \/ \E p \in Locals : /\ open' = open
                               /\ \/ loaded' = loaded \cup {p} /\ live' = live \cup {p}
                                  \/ loaded' = loaded \ {p} /\ live' = live \ {p}
                                  \/ loaded' = loaded /\ live' = live \ {p}
      BY <2>2 DEF SupervisorStep, Res!Open, Res!Close, Res!Load, Res!Unload, Res!Die
    <3>2. QED
      BY <1>1, <3>1 DEF TypeOK
  <2>3. QED
    BY <2>1, <2>2 DEF Answer, CancelCall, vars, leaseVars
<1>8. status' \in [Calls -> {"new", "running", "cancelling", "answered", "failed"}] /\ GroupInv'
  <2>1. \A x \in Calls : \A places : Over(x, places)' <=> Over(x, places)
    BY <1>2 DEF Over
  <2>2. CASE status' = status
    BY <1>1, <1>2, <2>1, <2>2 DEF GroupInv, TypeOK
  <2>3. ASSUME NEW c \in Calls, Answer(c)
        PROVE  status' \in [Calls -> {"new", "running", "cancelling", "answered", "failed"}] /\ GroupInv'
    <3>1. PICK end \in {"failed", "answered"} :
              /\ status' = [status EXCEPT ![c] = end]
              /\ end = "answered" => ~\E w \in Workers : Call(w) = c /\ at[w] = "failed"
      BY <2>3 DEF Answer
    <3>2. Over(c, {"off", "ended", "failed"}) /\ (end = "answered" => Over(c, {"off", "ended"}))
      BY <2>3, <3>1 DEF Answer, GroupsOver, Over
    <3>3. \A x \in Calls : status'[x] = IF x = c THEN end ELSE status[x]
      BY <1>1, <3>1 DEF TypeOK
    <3>4. status' \in [Calls -> {"new", "running", "cancelling", "answered", "failed"}]
      BY <1>1, <3>1 DEF TypeOK
    <3>5. QED
      BY <1>1, <1>2, <2>1, <3>2, <3>3, <3>4 DEF GroupInv
  <2>4. ASSUME NEW c \in Calls, CancelCall(c)
        PROVE  status' \in [Calls -> {"new", "running", "cancelling", "answered", "failed"}] /\ GroupInv'
    <3>1. status' = [status EXCEPT ![c] = "cancelling"]
      BY <2>4 DEF CancelCall
    <3>2. \A x \in Calls : status'[x] = IF x = c THEN "cancelling" ELSE status[x]
      BY <1>1, <3>1 DEF TypeOK
    <3>3. status' \in [Calls -> {"new", "running", "cancelling", "answered", "failed"}]
      BY <1>1, <3>1 DEF TypeOK
    <3>4. QED
      BY <1>1, <1>2, <2>1, <3>2, <3>3 DEF GroupInv
  <2>5. QED
    BY <2>2, <2>3, <2>4 DEF SupervisorStep, vars
<1>9. TypeOK'
  BY <1>1, <1>2, <1>6, <1>7, <1>8 DEF TypeOK
<1>10. QED
  BY <1>3, <1>4, <1>5, <1>8, <1>9 DEF SInv

\* The invariant of the scheduler is inductive.
THEOREM SchedulerInductive == SInv /\ [Next]_vars => SInv'
  BY WorkerStep, SubmitStep, OtherSteps DEF Next

LEMMA SchedulerInvariant == Spec => []SInv
  BY InitSInv, SchedulerInductive, PTL DEF Spec

-----------------------------------------------------------------------------
(* The properties *)

\* "Repeated requests to one underlying model run sequentially": who forwards
\* has the lock of the model, and a lock has one holder.
THEOREM OneForwardPerModelHolds == Spec => []OneForwardPerModel
<1>1. SInv => OneForwardPerModel
  BY OneHolder DEF SInv, OneForwardPerModel, Forwarding, Holding, Inside
<1>2. QED
  BY <1>1, SchedulerInvariant, PTL

\* The serial lane: CLM forwards alone, and on CUDA so does every local model,
\* because the lane counts everyone in it and admits nobody to a taken one.
THEOREM LaneIsExclusiveHolds == Spec => []LaneIsExclusive
<1>1. ASSUME SInv PROVE LaneIsExclusive
  <2> SUFFICES ASSUME NEW v \in Forwarding, NEW w \in Forwarding, v # w,
                      NeedsLane(v), NeedsLane(w)
               PROVE  ~Cuda /\ Key(v) # Clm /\ Key(w) # Clm
    BY DEF LaneIsExclusive
  <2>1. /\ LaneInv /\ LockInv
        /\ v \in Workers /\ InLane(v) /\ at[v] \in Holding
        /\ w \in Workers /\ InLane(w) /\ at[w] \in Holding
    BY <1>1 DEF SInv, Forwarding, InLane, Inside, Holding
  <2>2. LaneLocals \in SUBSET Workers
    BY DEF LaneLocals
  \* While CLM is in the lane no other model is.
  <2>3. ASSUME NEW x \in Workers, InLane(x), Key(x) = Clm,
               NEW y \in Workers, InLane(y), x # y, at[x] \in Holding, at[y] \in Holding
        PROVE  FALSE
    <3>1. Key(y) # Clm
      BY <2>1, <2>3, OneHolder
    <3>2. clmActive /\ activeLocal = 0 /\ activeLocal = Cardinality(LaneLocals)
      BY <2>1, <2>3 DEF LaneInv
    <3>3. y \in LaneLocals
      BY <2>3, <3>1 DEF LaneLocals
    <3>4. IsFiniteSet(LaneLocals) /\ Cardinality(LaneLocals) # 0
      BY <2>2, <3>3, WorkersFinite, FS_EmptySet
    <3>5. QED
      BY <3>2, <3>4
  <2>4. Key(v) # Clm /\ Key(w) # Clm
    BY <2>1, <2>3
  <2>5. Cardinality(LaneLocals) >= 2
    <3>1. v \in LaneLocals /\ w \in LaneLocals
      BY <2>1, <2>4 DEF LaneLocals
    <3>2. QED
      BY <2>2, <3>1, TwoWorkers
  <2>6. Cuda => Cardinality(LaneLocals) <= 1
    BY <2>1 DEF LaneInv
  <2>7. Cardinality(LaneLocals) \in Nat
    BY <2>2, WorkersFinite
  <2>8. QED
    BY <2>4, <2>5, <2>6, <2>7
<1>2. QED
  BY <1>1, SchedulerInvariant, PTL

\* Whatever happened to its requests, the counters of the lane, the locks of the
\* models and the places of the semaphore are those of the workers there.
THEOREM NothingHeldByNobodyHolds == Spec => []NothingHeldByNobody
<1>1. SInv => Cardinality(SlotTakers) <= BatchLimit
  <2>1. Cardinality(SlotTakers) \in Nat
    BY WorkersFinite DEF SlotTakers, Forwarding
  <2>2. QED
    BY <2>1, SchedulerAssumption DEF SInv, SlotInv, TypeOK
<1>2. SInv => NothingHeldByNobody
  BY <1>1 DEF SInv, LockInv, LaneInv, SlotInv, NothingHeldByNobody, LaneLocals, Holding
<1>3. QED
  BY <1>2, SchedulerInvariant, PTL

\* The workers never all wait on each other.  Who waits for a model lock waits
\* for its holder, and the holder for less: the lane, whose workers are past
\* it, then a lease, which others hold who are past that, then a place of the
\* semaphore, taken by a worker that forwards.
THEOREM SomebodyGoesOnHolds == Spec => []SomebodyGoesOn
<1>1. ASSUME SInv, ~LeaseLost, \A w \in Workers : ~CanGo(w)
      PROVE  \A w \in Workers : at[w] \in {"off", "ended", "failed"}
  \* Nobody is past the lane, seen from the last wait to the first.
  <2>1. \A w \in Workers : at[w] # "forward"
    BY <1>1 DEF CanGo
  <2>2. \A w \in Workers : at[w] # "slot"
    <3>1. SlotTakers = {}
      BY <2>1 DEF SlotTakers, Forwarding
    <3>2. slots = BatchLimit
      BY <1>1, <3>1, FS_EmptySet, SchedulerAssumption DEF SInv, SlotInv
    <3>3. \A w \in Workers : at[w] = "slot" => BatchLimit > 0
      BY <1>1 DEF SInv, SlotInv, Queued
    <3>4. QED
      BY <1>1, <3>2, <3>3 DEF CanGo, SlotFree
  <2>3. \A w \in Workers : IsLocal(w) => at[w] # "return"
    BY <1>1 DEF SInv, LeaseInv, Leased, CanGo
  <2>4. \A w \in Workers : IsLocal(w) => at[w] \notin Leased
    BY <2>1, <2>2, <2>3 DEF Leased
  <2>5. \A p \in Locals : leases[p] = 0
    <3> SUFFICES ASSUME NEW p \in Locals PROVE leases[p] = 0
      OBVIOUS
    <3>1. {w \in Workers : Key(w) = p /\ at[w] \in Leased} = {}
      BY <2>4 DEF IsLocal
    <3>2. ~(leases[p] > 0)
      BY <1>1, <3>1, FS_EmptySet DEF LeaseLost
    <3>3. QED
      BY <1>1, <3>2 DEF SInv, TypeOK
  <2>6. \A w \in Workers : at[w] # "lease"
    <3> SUFFICES ASSUME NEW w \in Workers, at[w] = "lease" PROVE FALSE
      OBVIOUS
    <3>1. ~(Cardinality(loaded) < MaxResident) /\ \A p \in loaded : ~(p \in live => leases[p] = 0)
      BY <1>1 DEF CanGo
    <3>2. loaded = {}
      BY <1>1, <2>5, <3>1 DEF SInv, TypeOK
    <3>3. QED
      BY <3>1, <3>2, FS_EmptySet, SchedulerAssumption
  <2>7. \A w \in Workers : at[w] # "return"
    BY <1>1, <2>3 DEF SInv, LeaseInv
  <2>8. \A w \in Workers : at[w] \notin Inside
    BY <2>1, <2>2, <2>6, <2>7 DEF Inside
  \* So the lane is empty and its counters say so.
  <2>9. \A w \in Workers : at[w] # "lane"
    <3>1. LaneLocals = {} /\ ~clmActive
      BY <1>1, <2>8 DEF LaneLocals, InLane, SInv, LaneInv
    <3>2. activeLocal = 0
      BY <1>1, <3>1, FS_EmptySet DEF SInv, LaneInv
    <3>3. QED
      BY <1>1, <3>1, <3>2 DEF CanGo, LaneOpen
  \* Hence no lock has a holder.
  <2>10. \A w \in Workers : at[w] # "lock"
    <3> SUFFICES ASSUME NEW w \in Workers, at[w] = "lock" PROVE FALSE
      OBVIOUS
    <3>1. Key(w) \in Keys /\ modelLock[Key(w)] # Nobody
      BY <1>1, WorkerParts DEF CanGo, LockFree
    <3>2. modelLock[Key(w)] \in Workers /\ at[modelLock[Key(w)]] \in Inside \cup {"lane"}
      BY <1>1, <3>1 DEF SInv, TypeOK, LockInv, Holding
    <3>3. QED
      BY <2>8, <2>9, <3>2
  <2>11. QED
    BY <1>1, <2>8, <2>9, <2>10 DEF SInv, TypeOK
<1>2. SInv => SomebodyGoesOn
  BY <1>1 DEF SomebodyGoesOn, GroupsOver
<1>3. QED
  BY <1>2, SchedulerInvariant, PTL

\* Without cancellation the supervisor counts one lease for a provider while a
\* worker is in the body of acquire() for it, and none else.
LeaseExactInv ==
    /\ cancelled = {}
    /\ \A p \in Locals :
          leases[p] = IF \E w \in Workers : Key(w) = p /\ at[w] \in Leased THEN 1 ELSE 0

LEMMA LeaseExactMoves ==
    ASSUME SInv, LeaseExactInv, NEW w \in Workers, Work(w)
    PROVE  LeaseExactInv'
<1> USE DEF At, Goes
<1> DEFINE User(p) == \E v \in Workers : Key(v) = p /\ at[v] \in Leased
<1>1. at \in [Workers -> Places] /\ leases \in [Locals -> Nat] /\ cancelled = {}
  BY DEF SInv, TypeOK, Places, LeaseExactInv
<1>2. cancelled' = {}
  BY <1>1 DEF Work, Forwards, TakeLock, EnterLane, TakeLease, LeaseFails, TakeSlot,
              HostedForwardEnds, LocalForwardEnds, GiveBackLease
<1>3. ASSUME NEW place, at' = [at EXCEPT ![w] = place], leases' = leases,
             IsLocal(w) => (place \in Leased <=> at[w] \in Leased)
      PROVE  LeaseExactInv'
  <2>1. \A v \in Workers : at'[v] = IF v = w THEN place ELSE at[v]
    BY <1>1, <1>3
  <2>2. \A p \in Locals : User(p)' <=> User(p)
    BY <1>3, <2>1 DEF IsLocal
  <2>3. QED
    BY <1>2, <1>3, <2>2 DEF LeaseExactInv
\* While w holds the lock of its model, no other worker uses a lease on it.
<1>4. ASSUME at[w] \in Holding
      PROVE  \A v \in Workers : Key(v) = Key(w) /\ at[v] \in Leased => v = w
  BY <1>4, OneHolder DEF SInv, Leased, Holding, Inside
<1>5. \A indexes : Begin(indexes) \notin Leased
  BY DEF Begin, Leased
<1>6. ASSUME NEW ok, Finish(w, ok)
      PROVE  \E place : at' = [at EXCEPT ![w] = place] /\ place \notin Leased
  BY <1>5, <1>6 DEF Finish, Leased
<1>7. CASE TakeLock(w)
  <2>1. leases' = leases /\ at[w] = "lock"
    BY <1>7 DEF TakeLock, leaseVars
  <2>2. PICK place : /\ at' = [at EXCEPT ![w] = place]
                     /\ IsLocal(w) => place \in {"lane", "lease"}
    BY <1>7 DEF TakeLock
  <2>3. QED
    BY <1>3, <2>1, <2>2 DEF Leased
<1>8. CASE EnterLane(w) \/ LeaseFails(w) \/ TakeSlot(w)
  BY <1>3, <1>8 DEF EnterLane, LeaseFails, TakeSlot, leaseVars, Leased
<1>9. ASSUME NEW ok, LocalForwardEnds(w, ok) PROVE LeaseExactInv'
  BY <1>3, <1>9 DEF LocalForwardEnds, leaseVars, Leased
<1>10. ASSUME NEW ok, HostedForwardEnds(w, ok) PROVE LeaseExactInv'
  BY <1>3, <1>6, <1>10 DEF HostedForwardEnds, leaseVars
<1>11. CASE TakeLease(w)
  <2>1. /\ at[w] = "lease" /\ at' = [at EXCEPT ![w] = Queued(w)]
        /\ leases' = [leases EXCEPT ![Key(w)] = @ + 1] /\ Queued(w) \in Leased
    BY <1>11 DEF TakeLease, Res!Grant, Queued, Leased
  <2>2. \A v \in Workers : at'[v] = IF v = w THEN Queued(w) ELSE at[v]
    BY <1>1, <2>1
  <2>3. \A p \in Locals : User(p)' <=> p = Key(w) \/ User(p)
    BY <2>1, <2>2 DEF Leased
  <2>4. ~User(Key(w))
    BY <1>4, <2>1 DEF Holding, Inside, Leased
  <2>5. \A p \in Locals : leases'[p] = IF p = Key(w) THEN leases[p] + 1 ELSE leases[p]
    BY <1>1, <2>1
  <2>6. QED
    BY <1>2, <2>3, <2>4, <2>5 DEF LeaseExactInv
<1>12. CASE GiveBackLease(w)
  <2>1. at[w] = "return" /\ leases' = [leases EXCEPT ![Key(w)] = @ - 1]
    BY <1>12 DEF GiveBackLease, Res!GiveBack
  <2>2. PICK place : at' = [at EXCEPT ![w] = place] /\ place \notin Leased
    BY <1>6, <1>12 DEF GiveBackLease
  <2>3. \A v \in Workers : at'[v] = IF v = w THEN place ELSE at[v]
    BY <1>1, <2>2
  <2>4. User(Key(w)) /\ ~User(Key(w))'
    BY <1>4, <2>1, <2>2, <2>3 DEF Holding, Inside, Leased
  <2>5. \A p \in Locals : p # Key(w) => (User(p)' <=> User(p))
    BY <2>3
  <2>6. \A p \in Locals : leases'[p] = IF p = Key(w) THEN leases[p] - 1 ELSE leases[p]
    BY <1>1, <2>1
  <2>7. QED
    BY <1>2, <2>4, <2>5, <2>6 DEF LeaseExactInv
<1>13. QED
  BY <1>7, <1>8, <1>9, <1>10, <1>11, <1>12 DEF Work, Forwards

\* So nothing but a cancelled call can block the others: where no call is
\* cancelled no lease is lost, and somebody goes on until every call is over.
THEOREM UncancelledGoOn ==
    Cancellable = {} =>
        (Spec => [](\A c \in Calls : status[c] = "running" =>
                      GroupsOver(c) \/ \E w \in Workers : CanGo(w)))
<1> SUFFICES ASSUME Cancellable = {}
             PROVE  Spec => [](\A c \in Calls : status[c] = "running" =>
                                 GroupsOver(c) \/ \E w \in Workers : CanGo(w))
  OBVIOUS
<1>1. Init => LeaseExactInv
  BY DEF Init, Res!Init, LeaseExactInv, Leased
<1>2. ASSUME SInv, LeaseExactInv, [Next]_vars PROVE LeaseExactInv'
  <2>1. ASSUME NEW w \in Workers, Work(w) PROVE LeaseExactInv'
    BY <1>2, <2>1, LeaseExactMoves
  <2>2. ASSUME NEW w \in Workers, Cancelling(w) PROVE FALSE
    BY <1>2, <2>2 DEF Cancelling, CancelledAtLock, CancelledAtLane, CancelledInside,
                      CancelledInBody, Delivered, LeaseExactInv
  <2>3. ASSUME NEW c \in Calls, NEW f \in Requests(c), Submit(c, f) PROVE LeaseExactInv'
    <3>1. cancelled' = {} /\ leases' = leases
      BY <1>2, <2>3 DEF Submit, leaseVars, LeaseExactInv
    <3>2. \A w \in Workers : at'[w] = at[w] \/ (at[w] \notin Leased /\ at'[w] \notin Leased)
      BY <1>2, <2>3 DEF Submit, Begin, Leased, SInv, GroupInv, Over
    <3>3. QED
      BY <1>2, <3>1, <3>2 DEF LeaseExactInv
  <2>4. CASE \/ \E c \in Calls : Answer(c) \/ CancelCall(c)
             \/ SupervisorStep \/ UNCHANGED vars
    <3>1. at' = at /\ leases' = leases /\ cancelled' = cancelled
      BY <2>4 DEF Answer, CancelCall, SupervisorStep, vars, leaseVars,
                  Res!Open, Res!Close, Res!Load, Res!Unload, Res!Die
    <3>2. QED
      BY <1>2, <3>1 DEF LeaseExactInv
  <2>5. QED
    BY <1>2, <2>1, <2>2, <2>3, <2>4 DEF Next
<1>3. ASSUME LeaseExactInv PROVE ~LeaseLost
  <2> SUFFICES ASSUME NEW p \in Locals
               PROVE  ~(leases[p] > Cardinality({w \in Workers : Key(w) = p /\ at[w] \in Leased}))
    BY DEF LeaseLost
  <2> DEFINE Users == {w \in Workers : Key(w) = p /\ at[w] \in Leased}
  <2>1. IsFiniteSet(Users) /\ Cardinality(Users) \in Nat
    BY WorkersFinite
  <2>2. Users # {} => Cardinality(Users) # 0
    BY <2>1, FS_EmptySet
  <2>3. leases[p] = IF Users # {} THEN 1 ELSE 0
    BY <1>3 DEF LeaseExactInv
  <2>4. QED
    BY <2>1, <2>2, <2>3
<1>4. LeaseExactInv /\ SomebodyGoesOn =>
        \A c \in Calls : status[c] = "running" => GroupsOver(c) \/ \E w \in Workers : CanGo(w)
  BY <1>3 DEF SomebodyGoesOn
<1>5. SInv /\ LeaseExactInv /\ [Next]_vars => LeaseExactInv'
  BY <1>2
<1>6. QED
  BY <1>1, <1>4, <1>5, SchedulerInvariant, SomebodyGoesOnHolds, PTL DEF Spec

\* A call that is answered has every result, and one that is over has no
\* request that runs on.
THEOREM AnswersAreCompleteHolds == Spec => []AnswersAreComplete
<1>1. ASSUME SInv, NEW c \in Calls, status[c] = "answered" PROVE results[c] = DOMAIN items[c]
  <2>1. \A w \in Workers : Call(w) = c => left[w] = {}
    BY <1>1 DEF SInv, GroupInv, Over
  <2>2. \A i : i \in DOMAIN items[c] <=> i \in results[c]
    BY <1>1, <2>1 DEF SInv, GroupInv
  <2>3. QED
    BY <2>2
<1>2. ASSUME SInv, NEW c \in Calls, status[c] \in {"answered", "failed"},
             NEW w \in Workers, Call(w) = c
      PROVE  at[w] \in {"off", "ended", "failed"}
  BY <1>2 DEF SInv, GroupInv, Over
<1>3. SInv => AnswersAreComplete
  BY <1>1, <1>2 DEF AnswersAreComplete
<1>4. QED
  BY <1>3, SchedulerInvariant, PTL

\* A provider is not unloaded under a request it answers: the request has a
\* lease until after its forward, and a provider with leases is not unloaded.
THEOREM NeverUnloadedInUseHolds == Spec => NeverUnloadedInUse
<1> DEFINE Kept == \A w \in Forwarding :
                      open /\ IsLocal(w) /\ Key(w) \in live => Key(w) \in loaded'
<1>1. ASSUME SInv, [Next]_vars, NEW w \in Forwarding, open, IsLocal(w), Key(w) \in live
      PROVE  Key(w) \in loaded'
  <2>1. Key(w) \in loaded /\ leases[Key(w)] > 0 /\ leases \in [Locals -> Nat]
    BY <1>1 DEF SInv, TypeOK, LeaseInv, Leased, Forwarding
  <2>2. CASE loaded \subseteq loaded'
    BY <2>1, <2>2
  <2>3. ASSUME NEW p \in Locals, Res!Unload(p) PROVE Key(w) \in loaded'
    <3>1. p # Key(w)
      BY <1>1, <2>1, <2>3 DEF Res!Unload
    <3>2. QED
      BY <2>1, <2>3, <3>1 DEF Res!Unload
  <2>4. CASE \E v \in Workers : Work(v) \/ Cancelling(v)
    BY <1>1, <2>2, <2>4, WorkerFrame DEF SInv
  <2>5. CASE SupervisorStep
    BY <2>2, <2>3, <2>5 DEF SupervisorStep, Res!Open, Res!Close, Res!Load, Res!Die
  <2>6. CASE (\E c \in Calls : Answer(c) \/ CancelCall(c) \/ \E f \in Requests(c) : Submit(c, f)) \/ UNCHANGED vars
    BY <2>2, <2>6 DEF Answer, CancelCall, Submit, leaseVars, vars
  <2>7. QED
    BY <1>1, <2>4, <2>5, <2>6 DEF Next
<1>2. SInv /\ [Next]_vars => Kept
  BY <1>1
<1>3. SInv /\ [Next]_vars => [Kept]_vars
  BY <1>2
<1>4. QED
  BY <1>3, SchedulerInvariant, PTL DEF NeverUnloadedInUse, Spec
=============================================================================
