----------------------------- MODULE Scheduler -----------------------------
(***************************************************************************)
(* DecisionService: who may call which model when.                         *)
(*                                                                         *)
(* A call is one request of system_one() or the requests of                *)
(* system_one_batch(), routes resolved.  Its requests are grouped by model *)
(* key, and one task, a worker <<call, key>>, runs a group in order.  Per  *)
(* request a worker takes, and gives back in the opposite order, the lock  *)
(* of the model, the local lane, a lease of the supervisor and a batch     *)
(* slot.  `at' names the await it is parked at:                            *)
(*                                                                         *)
(*   off                        the call has no group for this key         *)
(*   lock, lane, lease, slot    waits to take that                         *)
(*   forward                    has all it needs, waits for the provider   *)
(*   return                     queued to give the lease back              *)
(*   ended, failed              the group is done, or stopped at an error  *)
(*                                                                         *)
(* The supervisor is the one of Residency, which Supervisor implements.    *)
(* _local_condition's own lock is never held across an await, so its       *)
(* sections are atomic here.                                               *)
(*                                                                         *)
(* Where two forms of an operator stand together, the first is the form a  *)
(* mistake would give it; only the second is used.                         *)
(***************************************************************************)
EXTENDS Naturals, FiniteSets

CONSTANTS
    Singles, Batches,   \* the calls of each kind
    Locals,             \* the enabled local providers
    Clm,                \* CLM_PROVIDER_NAME
    Aliases,            \* per local provider, the model names routed to it
    Hosted,             \* names of the hosted catalog
    Asks,               \* bound: per call, the names its requests may give
    MaxItems,           \* bound on the requests of a batch
    Cancellable,        \* the calls something may cancel
    Cuda,               \* device = "cuda"
    ClmParallel,        \* clm_parallel_with_local_models
    BatchLimit,         \* max_batch_concurrency; 0 is no semaphore
    MaxResident,        \* max_resident_local_providers
    Nobody

Names == (UNION {Aliases[p] : p \in Locals}) \cup Hosted
Keys == Locals \cup Hosted
Calls == Singles \cup Batches

ASSUME SchedulerAssumption ==
    /\ IsFiniteSet(Calls) /\ IsFiniteSet(Keys)
    /\ Singles \cap Batches = {}
    /\ DOMAIN Aliases = Locals /\ Locals \cap Hosted = {}
    /\ \A p \in Locals : Aliases[p] \cap Hosted = {}
    /\ \A p, q \in Locals : p # q => Aliases[p] \cap Aliases[q] = {}
    /\ MaxItems \in Nat \ {0} /\ MaxResident \in Nat \ {0} /\ BatchLimit \in Nat
    /\ DOMAIN Asks = Calls /\ \A c \in Calls : Asks[c] # {} /\ Asks[c] \subseteq Names
    /\ Cuda \in BOOLEAN /\ ClmParallel \in BOOLEAN
    /\ Nobody \notin Calls \X Keys

VARIABLES
    items,       \* per call, the model each of its requests is routed to
    status,      \* per call: new, running, cancelling, answered or failed
    left,        \* per worker, the indexes of its group still to run
    results,     \* per call, the indexes of the results it has
    at,          \* per worker, where it is
    modelLock,   \* _model_locks: the holder per key
    activeLocal, \* _active_local_models
    clmActive,   \* _clm_active
    slots,       \* the free places of _batch_semaphore
    bad,         \* workers whose request ends in an error once it gave all back
    cancelled,   \* workers with a cancellation not yet delivered
    open, loaded, live, leases   \* what the supervisor shows, see Residency

callVars == <<items, status>>
laneVars == <<activeLocal, clmActive>>
leaseVars == <<open, loaded, live, leases>>
vars == <<items, status, left, results, at, modelLock, activeLocal, clmActive,
          slots, bad, cancelled, open, loaded, live, leases>>

Res == INSTANCE Residency WITH Names <- Locals, Slots <- MaxResident

\* _model_key(): the names of one local provider share one lock and one group.
ModelKey(m) == IF m \in Hosted THEN m ELSE CHOOSE p \in Locals : m \in Aliases[p]
Workers == UNION {{c} \X {ModelKey(m) : m \in Asks[c]} : c \in Calls}

Call(w) == w[1]
Key(w) == w[2]
IsLocal(w) == Key(w) \in Locals
Queued(w) == IF Call(w) \in Batches /\ BatchLimit > 0 THEN "slot" ELSE "forward"
\* _local_lane() lets hosted models, and CLM in parallel mode, pass.
NeedsLane(w) == IsLocal(w) /\ (Key(w) = Clm => ~ClmParallel)

Init ==
    /\ items = [c \in Calls |-> <<>>]
    /\ status = [c \in Calls |-> "new"]
    /\ left = [w \in Workers |-> {}]
    /\ results = [c \in Calls |-> {}]
    /\ at = [w \in Workers |-> "off"]
    /\ modelLock = [k \in Keys |-> Nobody]
    /\ activeLocal = 0 /\ clmActive = FALSE
    /\ slots = BatchLimit
    /\ bad = {} /\ cancelled = {}
    /\ Res!Init

-----------------------------------------------------------------------------
(* system_one() and system_one_batch() *)

\* Nothing awaits between the check of `ready' and the queue for the lock.
Begin(indexes) ==
    IF indexes = {} THEN "ended" ELSE IF open THEN "lock" ELSE "failed"

Submit(c, models) ==
    /\ status[c] = "new"
    /\ LET group(k) == {i \in DOMAIN models : ModelKey(models[i]) = k} IN
       /\ items' = [items EXCEPT ![c] = models]
       /\ left' = [w \in Workers |-> IF Call(w) = c THEN group(Key(w)) ELSE left[w]]
       /\ at' = [w \in Workers |->
                   IF Call(w) # c THEN at[w]
                   ELSE IF group(Key(w)) = {} THEN "off" ELSE Begin(group(Key(w)))]
    /\ status' = [status EXCEPT ![c] = "running"]
    /\ UNCHANGED <<results, modelLock, laneVars, slots, bad, cancelled, leaseVars>>

\* gather(..., return_exceptions=True) returns when every group has ended.
GroupsOverEarly(c) ==
    \/ \E w \in Workers : Call(w) = c /\ at[w] = "failed"
    \/ \A w \in Workers : Call(w) = c => at[w] \in {"off", "ended"}
GroupsOver(c) == \A w \in Workers : Call(w) = c => at[w] \in {"off", "ended", "failed"}

Answer(c) ==
    /\ status[c] \in {"running", "cancelling"} /\ GroupsOver(c)
    /\ status' = [status EXCEPT ![c] =
                    IF \E w \in Workers : Call(w) = c /\ at[w] = "failed"
                    THEN "failed" ELSE "answered"]
    /\ UNCHANGED <<items, left, results, at, modelLock, laneVars, slots, bad,
                   cancelled, leaseVars>>

-----------------------------------------------------------------------------
(* _run_request() *)

At(w, place) == at[w] = place /\ w \notin cancelled
Goes(w, place) == at' = [at EXCEPT ![w] = place]

\* The request that runs: the first of the group.
First(indexes) == {i \in indexes : \A j \in indexes : i <= j}

LockFreeByName(w) ==
    LET name(v) == CHOOSE m \in Names : \E i \in First(left[v]) : m = items[Call(v)][i]
    IN modelLock[Key(w)] # Nobody => name(modelLock[Key(w)]) # name(w)
LockFree(w) == modelLock[Key(w)] = Nobody

TakeLock(w) ==
    /\ At(w, "lock") /\ LockFree(w)
    /\ modelLock' = [modelLock EXCEPT ![Key(w)] = w]
    /\ Goes(w, IF NeedsLane(w) THEN "lane" ELSE IF IsLocal(w) THEN "lease" ELSE Queued(w))
    /\ UNCHANGED <<callVars, left, results, laneVars, slots, bad, cancelled, leaseVars>>

\* The predicates of the two wait_for() calls.
LaneOpenOnAnyDevice(w) ==
    IF Key(w) = Clm THEN activeLocal = 0 ELSE ~clmActive
LaneOpen(w) ==
    IF Key(w) = Clm THEN activeLocal = 0
    ELSE ~clmActive /\ (Cuda => activeLocal = 0)

EnterLane(w) ==
    /\ At(w, "lane") /\ LaneOpen(w)
    /\ IF Key(w) = Clm
       THEN clmActive' = TRUE /\ UNCHANGED activeLocal
       ELSE activeLocal' = activeLocal + 1 /\ UNCHANGED clmActive
    /\ Goes(w, "lease")
    /\ UNCHANGED <<callVars, left, results, modelLock, slots, bad, cancelled, leaseVars>>

\* `async with' of the lane and of the model lock end: neither awaits.
LeaveLaneOpen(w) == UNCHANGED laneVars
LeaveLane(w) ==
    IF ~NeedsLane(w) THEN UNCHANGED laneVars
    ELSE IF Key(w) = Clm
    THEN clmActive' = FALSE /\ UNCHANGED activeLocal
    ELSE activeLocal' = activeLocal - 1 /\ UNCHANGED clmActive
LeaveModel(w) ==
    /\ modelLock' = [modelLock EXCEPT ![Key(w)] = Nobody]
    /\ LeaveLane(w)

TakeLeaseBriefly(w) ==
    /\ At(w, "lease") /\ open /\ Key(w) \in live
    /\ Goes(w, Queued(w))
    /\ UNCHANGED <<callVars, left, results, modelLock, laneVars, slots, bad,
                   cancelled, leaseVars>>

\* acquire(): the supervisor grants a lease, or raises.
TakeLease(w) ==
    /\ At(w, "lease") /\ Res!Grant(Key(w))
    /\ Goes(w, Queued(w))
    /\ UNCHANGED <<callVars, left, results, modelLock, laneVars, slots, bad, cancelled>>

LeaseFails(w) ==
    /\ At(w, "lease") /\ LeaveModel(w) /\ Goes(w, "failed")
    /\ UNCHANGED <<callVars, left, results, slots, bad, cancelled, leaseVars>>

SlotFreeLate == slots + 1 > 0
SlotFree == slots > 0

TakeSlot(w) ==
    /\ At(w, "slot") /\ SlotFree
    /\ slots' = slots - 1
    /\ Goes(w, "forward")
    /\ UNCHANGED <<callVars, left, results, modelLock, laneVars, bad, cancelled, leaseVars>>

GiveSlot(w) == slots' = IF Queued(w) = "slot" THEN slots + 1 ELSE slots

\* The request of w is over: its result is stored and the group goes on, or
\* the error ends the group.
Finish(w, ok) ==
    /\ LeaveModel(w)
    /\ IF ok
       THEN \E i \in First(left[w]) :
              /\ left' = [left EXCEPT ![w] = @ \ {i}]
              /\ results' = [results EXCEPT ![Call(w)] = @ \cup {i}]
              /\ Goes(w, Begin(left[w] \ {i}))
       ELSE Goes(w, "failed") /\ UNCHANGED <<left, results>>

\* forward() returns a 200 the projection accepts (ok), or times out, cannot
\* connect, or returns anything else.
HostedForwardEnds(w, ok) ==
    /\ At(w, "forward") /\ ~IsLocal(w)
    /\ GiveSlot(w) /\ Finish(w, ok)
    /\ UNCHANGED <<callVars, bad, cancelled, leaseVars>>

LocalForwardEnds(w, ok) ==
    /\ At(w, "forward") /\ IsLocal(w)
    /\ GiveSlot(w) /\ Goes(w, "return")
    /\ bad' = IF ok THEN bad ELSE bad \cup {w}
    /\ UNCHANGED <<callVars, left, results, modelLock, laneVars, cancelled, leaseVars>>

GiveBackLease(w) ==
    /\ At(w, "return") /\ Res!GiveBack(Key(w))
    /\ Finish(w, w \notin bad)
    /\ UNCHANGED <<callVars, slots, bad, cancelled>>

-----------------------------------------------------------------------------
(* A call is cancelled: each of its workers at an await raises there, and the *)
(* call still waits for all of them.                                          *)

CancelCall(c) ==
    /\ c \in Cancellable /\ status[c] = "running"
    /\ status' = [status EXCEPT ![c] = "cancelling"]
    /\ cancelled' = cancelled \cup
         {w \in Workers : Call(w) = c /\ at[w] \notin {"off", "ended", "failed"}}
    /\ UNCHANGED <<items, left, results, at, modelLock, laneVars, slots, bad, leaseVars>>

Delivered(w) == w \in cancelled /\ cancelled' = cancelled \ {w}

CancelledAtLock(w) ==
    /\ Delivered(w) /\ at[w] = "lock" /\ Goes(w, "failed")
    /\ UNCHANGED <<callVars, left, results, modelLock, laneVars, slots, bad, leaseVars>>

CancelledAtLane(w) ==
    /\ Delivered(w) /\ at[w] = "lane" /\ Goes(w, "failed")
    /\ modelLock' = [modelLock EXCEPT ![Key(w)] = Nobody]
    /\ UNCHANGED <<callVars, left, results, laneVars, slots, bad, leaseVars>>

\* In the queue of acquire(), in the queue that returns the lease, which is
\* then lost, or in a hosted call.
CancelledInside(w) ==
    /\ Delivered(w)
    /\ at[w] \in {"lease", "return"} \/ (at[w] \in {"slot", "forward"} /\ ~IsLocal(w))
    /\ Goes(w, "failed") /\ LeaveModel(w)
    /\ IF at[w] = "forward" THEN GiveSlot(w) ELSE UNCHANGED slots
    /\ UNCHANGED <<callVars, left, results, bad, leaseVars>>

\* In the body of acquire(), whose `finally' returns the lease.
CancelledInBody(w) ==
    /\ Delivered(w) /\ at[w] \in {"slot", "forward"} /\ IsLocal(w)
    /\ Goes(w, "return") /\ bad' = bad \cup {w}
    /\ IF at[w] = "forward" THEN GiveSlot(w) ELSE UNCHANGED slots
    /\ UNCHANGED <<callVars, left, results, modelLock, laneVars, leaseVars>>

-----------------------------------------------------------------------------
(* The supervisor, as its clients see it *)

Wanted(p) == \E w \in Workers : at[w] = "lease" /\ Key(w) = p
NeedsRoom == \E p \in Locals : Wanted(p) /\ p \notin loaded /\ Cardinality(loaded) >= MaxResident

\* The server takes calls only after start() and stop() comes once.
SupervisorStep ==
    /\ \/ Res!Open /\ \A c \in Calls : status[c] = "new"
       \/ Res!Close
       \/ \E p \in Locals : (Wanted(p) /\ Res!Load(p)) \/ Res!Unload(p) \/ Res!Die(p)
    /\ UNCHANGED <<items, status, left, results, at, modelLock, laneVars, slots, bad, cancelled>>

-----------------------------------------------------------------------------
Requests(c) == UNION {[1..n -> Asks[c]] : n \in 1..(IF c \in Batches THEN MaxItems ELSE 1)}

Forwards(w) == \E ok \in BOOLEAN : HostedForwardEnds(w, ok) \/ LocalForwardEnds(w, ok)
Cancelling(w) == CancelledAtLock(w) \/ CancelledAtLane(w) \/ CancelledInside(w) \/ CancelledInBody(w)
Work(w) ==
    \/ TakeLock(w) \/ EnterLane(w) \/ TakeLease(w) \/ LeaseFails(w) \/ TakeSlot(w)
    \/ Forwards(w) \/ GiveBackLease(w)

Next ==
    \/ \E c \in Calls : Answer(c) \/ CancelCall(c) \/ \E f \in Requests(c) : Submit(c, f)
    \/ \E w \in Workers : Work(w) \/ Cancelling(w)
    \/ SupervisorStep

Spec == Init /\ [][Next]_vars

(* The model locks and the semaphore serve their waiters in turn (SF).  A      *)
(* waiter for the lane runs its predicate again after every notify_all(), but *)
(* a newcomer may run first (WF).  forward() has a timeout, and a provider     *)
(* that is wanted gets loaded when there is room, an idle one makes room, and  *)
(* a live one grants its lease: acquire() ends, as Supervisor shows (SF).      *)
Fairness ==
    /\ \A w \in Workers :
          /\ SF_vars(TakeLock(w) \/ TakeSlot(w) \/ TakeLease(w))
          /\ WF_vars(EnterLane(w))
          /\ WF_vars(Forwards(w) \/ GiveBackLease(w) \/ Cancelling(w))
          /\ WF_vars(~open /\ LeaseFails(w))
    /\ \A c \in Calls : WF_vars(Answer(c))
    /\ \A p \in Locals : SF_vars(Wanted(p) /\ Res!Load(p)
                 /\ UNCHANGED <<callVars, left, results, at, modelLock, laneVars, slots, bad, cancelled>>)
    /\ WF_vars(NeedsRoom /\ (\E p \in Locals : Res!Unload(p))
                 /\ UNCHANGED <<callVars, left, results, at, modelLock, laneVars, slots, bad, cancelled>>)

FairSpec == Spec /\ Fairness
=============================================================================
