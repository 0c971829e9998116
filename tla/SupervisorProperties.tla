------------------------ MODULE SupervisorProperties ------------------------
(***************************************************************************)
(* What the supervisor must and must not do, and the inductive invariant   *)
(* the proofs of SupervisorProofs rest on.                                 *)
(***************************************************************************)
EXTENDS Supervisor

PCs == {"new", "enter", "waiting", "woken", "loop", "term", "kill", "health",
        "leased", "releasing", "done"}
StopPCs == {"loop", "term", "kill"}

\* The types of the variables, with the program counters each task can have.
TypeOK ==
    /\ started \in BOOLEAN
    /\ proc \in [Providers -> {"absent", "booting", "ready", "dead"}]
    /\ alive \in [Providers -> Nat]
    /\ active \in [Providers -> Nat]
    /\ lastUsed \in [Providers -> Nat]
    /\ lock \in Tasks \cup {NoOne}
    /\ victim \in Providers \cup {NoOne}
    /\ todo \subseteq Providers
    /\ pc \in [Tasks -> PCs \cup {"preparing", "failed", "running", "drain",
                                  "stopped", "off", "sleep"}]
    /\ \A c \in Clients : pc[c] \in PCs
    /\ \A a \in Admins : pc[a] \in StopPCs \cup {"new", "enter", "done"}
    /\ pc[Reaper] \in StopPCs \cup {"off", "sleep", "enter"}
    /\ pc[Lifespan] \in StopPCs \cup {"preparing", "failed", "running",
                                      "drain", "stopped"}
    /\ target \in [Clients \cup Admins -> Providers \cup {Every, NoOne}]
    /\ \A c \in Clients : target[c] # Every
    /\ \A t \in Clients \cup Admins : pc[t] # "new" => target[t] # NoOne
    /\ asOf \in 0..MaxClock /\ clock \in 1..MaxClock
    /\ unprepared \subseteq Providers

Holders(p) == {c \in Clients : pc[c] \in {"leased", "releasing"} /\ target[c] = p}

-----------------------------------------------------------------------------
(* Invariants *)

\* _processes never exceeds max_resident_local_providers, and while a victim
\* is being stopped, by whomever, its slot is not yet taken: the loop of
\* acquire() decides again after every stop.
SlotBound ==
    /\ Cardinality(Resident) <= MaxResident
    /\ victim # NoOne => Cardinality(Resident) < MaxResident

\* _active_requests never undercounts: whatever is cancelled, every task in
\* the body of acquire() is counted, so its provider cannot look idle.
LeaseCovered == \A p \in Providers : active[p] >= Cardinality(Holders(p))

\* Without cancellation, nobody waits for a slot unless some task still holds a
\* lease, whose return is the only thing that notifies before shutdown; and
\* nobody waits once stop() has run its first section.
WaiterHasWaker ==
    \A c \in Clients : pc[c] = "waiting" =>
        started /\ \E p \in Providers : Holders(p) # {}

\* The leases counted that nobody holds any more.
Surplus(p) == active[p] - Cardinality(Holders(p))

\* A task that waits for a slot while nobody holds a lease, and whom nothing but
\* shutdown wakes, can only be the victim of a lease that was never returned.
StrandedOnlyByLeak ==
    (\E c \in Clients : pc[c] = "waiting") /\ (\A p \in Providers : Holders(p) = {})
      => \E p \in Providers : Surplus(p) > 0

\* When stop() has returned, no process is in the table or being stopped, and
\* no lease can start another.
StopIsFinal ==
    pc[Lifespan] = "stopped" =>
        Resident = {} /\ ~started /\ \A c \in Clients : pc[c] # "health"

\* Without cancellation, _active_requests is the number of tasks in the body
\* of acquire() or returning from it.
LeaseExact == \A p \in Providers : active[p] = Cardinality(Holders(p))

\* "Maximum simultaneous local model processes": what the host runs, in the
\* table or not, including the process being stopped.
Live == {p \in Providers : proc[p] \in Running}
LiveProcesses == UNION {{p} \X (1..alive[p]) : p \in Providers}
LiveWithinLimit == Cardinality(LiveProcesses) <= MaxResident

-----------------------------------------------------------------------------
(* The inductive invariant *)

HolderPCs == {"loop", "term", "kill", "health"}

\* One task at a time is between taking the lock and giving it back, and the
\* locals of the critical section belong to it.
LockInv ==
    /\ \A t \in Tasks : pc[t] \in HolderPCs <=> lock = t
    /\ victim # NoOne <=> \E t \in Tasks : pc[t] \in {"term", "kill"}
    /\ todo \subseteq Resident
    /\ todo # {} => lock \in Stoppers

\* A client holds the lock only while the service is started, and waits for
\* the health of a provider that stays in the table.
ClientInv ==
    \A c \in Clients :
        /\ pc[c] \in HolderPCs \cup {"waiting"} => started
        /\ pc[c] = "health" => proc[target[c]] # "absent"

\* A client that stops a process, or has just stopped one, has a free slot, and
\* the slot of whatever is being stopped is free.
SlotInv ==
    /\ Cardinality(Resident) <= MaxResident
    /\ victim # NoOne => Cardinality(Resident) < MaxResident
    /\ \A c \in Clients :
          pc[c] \in StopPCs => Cardinality(Resident) < MaxResident

\* What unloads and the reaper are about to stop has no lease, and for the
\* reaper it has expired; unload_all() found no lease at all.
TodoInv ==
    /\ \A p \in todo : lock # Lifespan => active[p] = 0
    /\ \A p \in todo : lock = Reaper =>
          lastUsed[p] # 0 /\ lastUsed[p] + IdleUnload <= clock
    /\ \A a \in Admins : pc[a] \in StopPCs /\ target[a] = Every =>
          (\A p \in Providers : active[p] = 0) /\ Resident = todo
    /\ asOf <= clock

\* Where the lifespan task is decides whether the service is started; from the
\* second section of stop() on, nothing is in the table but what it will stop.
LifespanInv ==
    /\ started <=> pc[Lifespan] = "running"
    /\ pc[Reaper] # "off" => started
    /\ pc[Lifespan] \in StopPCs => Resident = todo
    /\ pc[Lifespan] = "stopped" => Resident = {}

\* Every process in the table or being stopped is one the host runs, and the one
\* being stopped is no longer in the table.
AliveInv ==
    /\ \A p \in Providers : alive[p] >= Reachable(p)
    /\ victim # NoOne => proc[victim] = "absent"

WaiterInv ==
    \A c \in Clients : pc[c] = "waiting" => \E p \in Providers : active[p] > 0

\* The invariant of the proofs.
IInv == /\ TypeOK /\ LockInv /\ ClientInv /\ SlotInv /\ TodoInv
        /\ LifespanInv /\ WaiterInv /\ AliveInv /\ LeaseCovered

-----------------------------------------------------------------------------
(* Action properties *)

Removed(p) == proc[p] # "absent" /\ proc'[p] = "absent"

\* While the service is open, no step takes a running process from a task
\* that has leased it: not an eviction, an unload, the reaper or a restart.
NeverStopsLeased ==
    [][\A p \in Providers :
         Removed(p) /\ proc[p] \in Running /\ started => Holders(p) = {}]_vars

\* The reaper takes only providers with no lease that nobody used for the
\* idle period by the clock of the step, although it reads `now' before it
\* queues for the lock.
ReapsOnlyIdle ==
    [][\A p \in Providers :
         Removed(p) /\ pc[Reaper] = "loop" =>
            /\ Holders(p) = {}
            /\ lastUsed[p] # 0 /\ lastUsed[p] + IdleUnload <= clock]_vars

\* unload_all() is refused as a whole or stops everything: once it takes one
\* process no lease exists, and none appears before it has taken them all.
UnloadAllIsAtomic ==
    [][\A a \in Admins :
         pc[a] \in StopPCs /\ target[a] = Every =>
            /\ \A p \in Providers : Holders(p) = {}
            /\ pc[a] = "loop" /\ pc'[a] = "done" => Resident = {}]_vars

\* A lease is granted only to a task whose provider has a running process, by
\* a service that is started.
GrantsLiveLease ==
    [][\A c \in Clients :
         pc[c] # "leased" /\ pc'[c] = "leased" =>
            started /\ proc[target[c]] \in Running]_vars

\* A lease is lost by a cancelled return and by nothing else, one at a time.
LeaksOnlyInReturn ==
    [][\A p \in Providers : Surplus(p)' # Surplus(p) =>
         \E c \in Clients : CancelReturn(c) /\ target[c] = p /\ Surplus(p)' = Surplus(p) + 1]_vars

\* Of the processes the host runs, the supervisor loses sight of one by a
\* cancelled stop and by nothing else: not when it drops an entry or replaces it,
\* gives up waiting, unloads or shuts down.
OrphansOnlyInStop ==
    [][\A p \in Providers : Strays(p)' > Strays(p) =>
         \E t \in Cancellable : CancelStop(t) /\ victim = p]_vars

-----------------------------------------------------------------------------
(* The abstract specification *)

R == INSTANCE Residency WITH
        Names <- Providers, Slots <- MaxResident, open <- started,
        loaded <- Resident, live <- Live, leases <- active

\* The supervisor implements Residency.
ImplementsResidency == R!Spec

-----------------------------------------------------------------------------
(* Liveness, under FairSpec and without cancellation *)

\* Every acquire() ends: with a lease, or with an error.
AcquireEnds ==
    \A c \in Clients : pc[c] = "enter" ~> pc[c] \in {"leased", "done"}

\* stop() ends once it began, whatever its processes do with SIGTERM.
StopEnds == pc[Lifespan] = "drain" ~> pc[Lifespan] = "stopped"

\* A provider that was used and then left alone is unloaded, unless it is used
\* again, the service stops or the clock's bound comes before its idle period.
IdleIsUnloaded ==
    \A p \in Providers :
        started /\ proc[p] # "absent" /\ lastUsed[p] # 0
          ~> \/ proc[p] = "absent" \/ active[p] > 0 \/ ~started
             \/ lastUsed[p] + IdleUnload > MaxClock
=============================================================================
