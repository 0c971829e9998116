------------------------ MODULE SchedulerProperties ------------------------
(* What the decision service promises its callers and its host. *)
EXTENDS Scheduler

Inside == {"lease", "slot", "forward", "return"}     \* past the lane
Leased == {"slot", "forward", "return"}
InLane(w) == at[w] \in Inside /\ NeedsLane(w)

\* The types of the variables.
TypeOK ==
    /\ items \in [Calls -> UNION {[1..n -> Names] : n \in 0..MaxItems}]
    /\ status \in [Calls -> {"new", "running", "cancelling", "answered", "failed"}]
    /\ left \in [Workers -> SUBSET (1..MaxItems)]
    /\ results \in [Calls -> SUBSET (1..MaxItems)]
    /\ at \in [Workers -> {"off", "lock", "lane", "ended", "failed"} \cup Inside]
    /\ modelLock \in [Keys -> Workers \cup {Nobody}]
    /\ activeLocal \in Nat /\ clmActive \in BOOLEAN
    /\ slots \in 0..BatchLimit
    /\ bad \subseteq Workers /\ cancelled \subseteq Workers
    /\ open \in BOOLEAN /\ loaded \subseteq Locals /\ live \subseteq loaded
    /\ leases \in [Locals -> Nat]

-----------------------------------------------------------------------------
(* Invariants *)

Forwarding == {w \in Workers : at[w] = "forward"}

\* "Repeated requests to one underlying model run sequentially": whatever name
\* of the model the callers used, one request of it is forwarded at a time.
OneForwardPerModel ==
    \A v, w \in Forwarding : Key(v) = Key(w) => v = w

\* CLM shares the serial lane unless it may run in parallel, and on CUDA every
\* local model does; the others may overlap on a CPU.
LaneIsExclusive ==
    \A v, w \in Forwarding : v # w /\ NeedsLane(v) /\ NeedsLane(w) =>
        ~Cuda /\ Key(v) # Clm /\ Key(w) # Clm

\* The workers that forward with a place of the batch semaphore.
SlotTakers == {w \in Forwarding : Queued(w) = "slot"}

\* The lane's counters are what the workers in it make of them, so a worker
\* that fails or is cancelled anywhere leaves nothing behind in the lane, in
\* the model locks or in the semaphore; and batches forward at most
\* max_batch_concurrency requests, whatever else went wrong.
NothingHeldByNobody ==
    /\ activeLocal = Cardinality({w \in Workers : InLane(w) /\ Key(w) # Clm})
    /\ clmActive <=> \E w \in Workers : InLane(w) /\ Key(w) = Clm
    /\ \A k \in Keys : modelLock[k] # Nobody =>
          Key(modelLock[k]) = k /\ at[modelLock[k]] \in Inside \cup {"lane"}
    /\ slots = BatchLimit - Cardinality(SlotTakers)
    /\ Cardinality(SlotTakers) <= BatchLimit

\* A call is answered in full or not at all: it has every result, or some group
\* failed; and none of its requests still runs.
AnswersAreComplete ==
    \A c \in Calls :
        /\ status[c] = "answered" => results[c] = DOMAIN items[c]
        /\ status[c] \in {"answered", "failed"} =>
              \A w \in Workers : Call(w) = c => at[w] \in {"off", "ended", "failed"}

\* What a worker can do without another one: give up at a wait it is cancelled
\* at, take what is free, be granted, loaded, given room or refused by the
\* supervisor, forward, or give its lease back.
CanGo(w) ==
    \/ at[w] \in Inside \cup {"lock", "lane"} /\ w \in cancelled
    \/ at[w] = "lock" /\ LockFree(w)
    \/ at[w] = "lane" /\ LaneOpen(w)
    \/ /\ at[w] = "lease"
       /\ \/ ~open \/ Key(w) \in loaded \/ Cardinality(loaded) < MaxResident
          \/ \E p \in loaded : p \in live => leases[p] = 0
    \/ at[w] = "slot" /\ SlotFree
    \/ at[w] = "forward"
    \/ at[w] = "return" /\ leases[Key(w)] > 0

\* A lease is counted that no worker holds: a cancelled return lost it.
LeaseLost ==
    \E p \in Locals : leases[p] > Cardinality({w \in Workers : Key(w) = p /\ at[w] \in Leased})

\* The workers never all wait on each other, although each may hold a model
\* lock, the lane and a lease while it waits for the next: as long as a call is
\* not over somebody can go on, unless a lease was lost, which may keep a slot
\* of the supervisor for ever.
SomebodyGoesOn ==
    \A c \in Calls : status[c] \in {"running", "cancelling"} =>
        GroupsOver(c) \/ LeaseLost \/ \E w \in Workers : CanGo(w)

-----------------------------------------------------------------------------
(* Action properties *)

\* While the service is open, a provider that answers a forwarded request is
\* not unloaded under it, by an eviction, an unload or the idle timer: its
\* process can only die.
NeverUnloadedInUse ==
    [][\A w \in Forwarding :
         open /\ IsLocal(w) /\ Key(w) \in live => Key(w) \in loaded']_vars

-----------------------------------------------------------------------------
(* Liveness *)

\* Every call is answered: the four resources a request takes never wait on
\* each other in a circle.
CallsEnd == \A c \in Calls : status[c] = "running" ~> status[c] \in {"answered", "failed"}
=============================================================================
