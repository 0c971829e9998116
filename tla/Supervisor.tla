----------------------------- MODULE Supervisor -----------------------------
(***************************************************************************)
(* ProviderSupervisor: the owner of the local model server processes.      *)
(*                                                                         *)
(* Every task is an asyncio task of one event loop, so a step runs from    *)
(* one await to the next.  One lock, _lifecycle_lock, is shared by all     *)
(* operations and stays held across the slow awaits: stopping a process    *)
(* and waiting for a started one to answer its health URL.  `pc' names the *)
(* await a task is parked at:                                              *)
(*                                                                         *)
(*   enter      queued for the lock, at the head of its operation          *)
(*   waiting    in the set of _provider_switch_condition                   *)
(*   woken      notified, queued for the lock again                        *)
(*   loop       holds the lock, about to pick its next stop (no await)     *)
(*   term       holds the lock, SIGTERM sent to `victim'                   *)
(*   kill       holds the lock, SIGKILL sent to `victim'                   *)
(*   health     holds the lock, polling the process it spawned             *)
(*   leased     the body of `async with acquire(...)'                      *)
(*   releasing  the body is over, queued for the lock to return the lease  *)
(*                                                                         *)
(* Where two forms of an operator stand together, the first is the form a  *)
(* mistake would give it; only the second is used.                         *)
(***************************************************************************)
EXTENDS Naturals, FiniteSets

CONSTANTS
    Providers,      \* names of the enabled local providers
    Clients,        \* tasks that each acquire one provider once
    Admins,         \* tasks that each unload one provider, or all of them
    Cancellable,    \* the clients and admins something may cancel
    MaxResident,    \* max_resident_local_providers
    IdleUnload,     \* provider_idle_unload_seconds; 0 turns the reaper off
    MaxClock,       \* bound on the event loop's clock
    Reaper,         \* the task of _idle_reaper
    Lifespan,       \* the task that runs start() and, at shutdown, stop()
    NoOne,          \* no task, no provider
    Every           \* the argument of an unload_all()

ASSUME SupervisorAssumption ==
    /\ IsFiniteSet(Providers) /\ IsFiniteSet(Clients)
    /\ MaxResident \in Nat \ {0}
    /\ IdleUnload \in Nat /\ MaxClock \in Nat \ {0}
    /\ Clients \cap Admins = {}
    /\ Cancellable \subseteq Clients \cup Admins
    /\ {Reaper, Lifespan, NoOne} \cap (Clients \cup Admins) = {}
    /\ Reaper # Lifespan /\ NoOne \notin {Reaper, Lifespan}
    /\ {NoOne, Every} \cap Providers = {} /\ Every # NoOne

VARIABLES
    started,     \* _started
    proc,        \* the entry of each provider in _processes
    alive,       \* per provider, how many of its processes the host runs
    active,      \* _active_requests
    lastUsed,    \* _last_used_at; 0 is an absent key
    lock,        \* the task that holds _lifecycle_lock
    victim,      \* the process the holder is waiting on in _stop_provider_locked
    todo,        \* the providers the holder's loop has yet to stop
    pc, target,  \* per task: where it is parked, and the provider it asked for
    asOf,        \* the reaper's `now', read before it queues for the lock
    clock,       \* the event loop's clock
    unprepared   \* the bundles start() has yet to prepare

vars == <<started, proc, alive, active, lastUsed, lock, victim, todo, pc,
          target, asOf, clock, unprepared>>
leaseVars == <<active, lastUsed>>
stopVars == <<victim, todo>>
idleVars == <<target, asOf, clock, unprepared>>   \* what most steps leave alone

Tasks == Clients \cup Admins \cup {Reaper, Lifespan}
Stoppers == Admins \cup {Reaper, Lifespan}
Resident == {p \in Providers : proc[p] # "absent"}   \* the keys of _processes
Running == {"booting", "ready"}                      \* poll() is None

\* The running processes of p the supervisor can still reach, from its table or
\* as the process it is stopping; the others run on in nobody's sight.
Reachable(p) == (IF proc[p] \in Running THEN 1 ELSE 0) + (IF victim = p THEN 1 ELSE 0)
Strays(p) == alive[p] - Reachable(p)

Init ==
    /\ started = FALSE
    /\ proc = [p \in Providers |-> "absent"]
    /\ alive = [p \in Providers |-> 0]
    /\ active = [p \in Providers |-> 0]
    /\ lastUsed = [p \in Providers |-> 0]
    /\ lock = NoOne /\ victim = NoOne /\ todo = {}
    /\ pc = [t \in Tasks |-> CASE t = Lifespan -> "preparing"
                               [] t = Reaper -> "off"
                               [] OTHER -> "new"]
    /\ target = [t \in Clients \cup Admins |-> NoOne]
    /\ asOf = 0 /\ clock = 1
    /\ unprepared = Providers

-----------------------------------------------------------------------------
(* start() and stop() *)

\* One prepare command exits with status 0, or the bundle has none to run.
PrepareBundle(p) ==
    /\ pc[Lifespan] = "preparing" /\ p \in unprepared
    /\ unprepared' = unprepared \ {p}
    /\ UNCHANGED <<started, proc, alive, leaseVars, lock, stopVars, pc, target,
                   asOf, clock>>

\* A prepare command cannot start or exits with an error: start() raises.
PrepareFails ==
    /\ pc[Lifespan] = "preparing" /\ unprepared # {}
    /\ pc' = [pc EXCEPT ![Lifespan] = "failed"]
    /\ UNCHANGED <<started, proc, alive, leaseVars, lock, stopVars, idleVars>>

Start ==
    /\ pc[Lifespan] = "preparing" /\ unprepared = {} /\ lock = NoOne
    /\ started' = TRUE
    /\ pc' = [pc EXCEPT ![Lifespan] = "running",
                        ![Reaper] = IF IdleUnload = 0 THEN "off" ELSE "sleep"]
    /\ UNCHANGED <<proc, alive, leaseVars, lock, stopVars, idleVars>>

\* notify_all() on _provider_switch_condition, applied to the `pc' of a step.
NotifyNobody(f) == f
NotifyAll(f) == [t \in Tasks |-> IF f[t] = "waiting" THEN "woken" ELSE f[t]]

\* The first critical section of stop() and the cancellation of the reaper,
\* which is asleep or queued for the lock: nothing awaits in between.
StopBegins ==
    /\ pc[Lifespan] = "running" /\ lock = NoOne
    /\ started' = FALSE
    /\ pc' = NotifyAll([pc EXCEPT ![Lifespan] = "drain", ![Reaper] = "off"])
    /\ asOf' = 0
    /\ UNCHANGED <<proc, alive, leaseVars, lock, stopVars, target, clock,
                   unprepared>>

\* The second critical section of stop(): every process, leased or not.
DrainIdleOnly == {p \in Resident : active[p] = 0}
DrainTargets == Resident
StopDrains ==
    /\ pc[Lifespan] = "drain" /\ lock = NoOne
    /\ lock' = Lifespan
    /\ pc' = [pc EXCEPT ![Lifespan] = "loop"]
    /\ todo' = DrainTargets
    /\ UNCHANGED <<started, proc, alive, leaseVars, victim, idleVars>>

-----------------------------------------------------------------------------
(* _stop_provider_locked() *)

\* Drop v from the table; SIGTERM it and wait for it when it still runs.
\* A dead process costs no await, and task t goes on with its loop.
Pop(t, v) ==
    /\ proc' = [proc EXCEPT ![v] = "absent"]
    /\ lock' = t
    /\ IF proc[v] = "dead"
       THEN /\ pc' = [pc EXCEPT ![t] = "loop"] /\ UNCHANGED victim
       ELSE /\ pc' = [pc EXCEPT ![t] = "term"] /\ victim' = v

\* PROCESS_STOP_TIMEOUT_SECONDS passed: SIGKILL and wait without a limit.
TermTimeoutMissing(t) == pc[t] = "term" /\ UNCHANGED vars
TermTimeoutForgets(t) ==
    /\ pc[t] = "term"
    /\ pc' = [pc EXCEPT ![t] = "loop"]
    /\ victim' = NoOne
    /\ UNCHANGED <<started, proc, alive, leaseVars, lock, todo, idleVars>>

TermTimeout(t) ==
    /\ pc[t] = "term"
    /\ pc' = [pc EXCEPT ![t] = "kill"]
    /\ UNCHANGED <<started, proc, alive, leaseVars, lock, stopVars, idleVars>>

VictimExits(t) ==
    /\ pc[t] \in {"term", "kill"}
    /\ pc' = [pc EXCEPT ![t] = "loop"]
    /\ victim' = NoOne /\ alive' = [alive EXCEPT ![victim] = @ - 1]
    /\ UNCHANGED <<started, proc, leaseVars, lock, todo, idleVars>>

\* The next provider of the loops of unload_all(), _unload_idle_providers()
\* and stop().  What the loops test does not change while the lock is held.
StopNext(t, v) ==
    /\ t \in Stoppers /\ pc[t] = "loop" /\ v \in todo
    /\ todo' = todo \ {v}
    /\ Pop(t, v)
    /\ UNCHANGED <<started, alive, leaseVars, idleVars>>

AfterSweepOff == "off"
AfterSweep == "sleep"

StopLoopEnds(t) ==
    /\ t \in Stoppers /\ pc[t] = "loop" /\ todo = {}
    /\ lock' = NoOne
    /\ pc' = [pc EXCEPT ![t] = CASE t = Reaper -> AfterSweep
                                 [] t = Lifespan -> "stopped"
                                 [] OTHER -> "done"]
    /\ UNCHANGED <<started, proc, alive, leaseVars, stopVars, idleVars>>

-----------------------------------------------------------------------------
(* acquire() *)

CallAcquire(c, p) ==
    /\ pc[c] = "new"
    /\ pc' = [pc EXCEPT ![c] = "enter"]
    /\ target' = [target EXCEPT ![c] = p]
    /\ UNCHANGED <<started, proc, alive, leaseVars, lock, stopVars, asOf,
                   clock, unprepared>>

\* `started' is read on entry and after every wait.
Refuse(c) ==
    /\ pc[c] \in {"enter", "woken"} /\ lock = NoOne /\ ~started
    /\ pc' = [pc EXCEPT ![c] = "done"]
    /\ UNCHANGED <<started, proc, alive, leaseVars, lock, stopVars, idleVars>>

\* c evaluates the condition of the while loop of acquire().
Decides(c) ==
    \/ pc[c] = "loop" /\ c \in Clients
    \/ pc[c] \in {"enter", "woken"} /\ lock = NoOne /\ started

NeedsSlotLate(p) ==
    p \notin Resident /\ Cardinality(Resident) > MaxResident
NeedsSlot(p) ==
    p \notin Resident /\ Cardinality(Resident) >= MaxResident

AnyCandidates == Resident
IdleCandidates == {p \in Resident : active[p] = 0}
LeastRecent(Q) == {p \in Q : \A q \in Q : lastUsed[p] <= lastUsed[q]}

Evict(c, v) ==
    /\ Decides(c) /\ NeedsSlot(target[c])
    /\ v \in LeastRecent(IdleCandidates)
    /\ Pop(c, v)
    /\ UNCHANGED <<started, alive, leaseVars, todo, idleVars>>

WaitForSlot(c) ==
    /\ Decides(c) /\ NeedsSlot(target[c]) /\ IdleCandidates = {}
    /\ lock' = NoOne
    /\ pc' = [pc EXCEPT ![c] = "waiting"]
    /\ UNCHANGED <<started, proc, alive, leaseVars, stopVars, idleVars>>

\* The entry's process answers poll() with None: no health check.
Reuse(c) ==
    /\ Decides(c) /\ proc[target[c]] \in Running
    /\ lock' = NoOne
    /\ pc' = [pc EXCEPT ![c] = "leased"]
    /\ active' = [active EXCEPT ![target[c]] = @ + 1]
    /\ UNCHANGED <<started, proc, alive, lastUsed, stopVars, idleVars>>

\* A missing or dead entry: Popen succeeds and replaces it.
Spawn(c) ==
    /\ Decides(c) /\ ~NeedsSlot(target[c]) /\ proc[target[c]] \notin Running
    /\ lock' = c
    /\ pc' = [pc EXCEPT ![c] = "health"]
    /\ proc' = [proc EXCEPT ![target[c]] = "booting"]
    /\ alive' = [alive EXCEPT ![target[c]] = @ + 1]
    /\ UNCHANGED <<started, leaseVars, stopVars, idleVars>>

\* Popen raises OSError after a dead entry was dropped; nobody is notified.
SpawnFails(c) ==
    /\ Decides(c) /\ ~NeedsSlot(target[c]) /\ proc[target[c]] \notin Running
    /\ lock' = NoOne
    /\ pc' = [pc EXCEPT ![c] = "done"]
    /\ proc' = [proc EXCEPT ![target[c]] = "absent"]
    /\ UNCHANGED <<started, alive, leaseVars, stopVars, idleVars>>

\* The process runs and its port answers 2xx.  A stray process of the same
\* provider owns that port and may answer in place of the new one.  poll(), the
\* answer and the grant are one step: only the holder of the lock reads the
\* process, so a crash between them is a crash after the grant.
AnswersUnpolled(p) == proc[p] = "ready" \/ Strays(p) > 0
Answers(p) == proc[p] = "ready" \/ (proc[p] = "booting" /\ Strays(p) > 0)

Healthy(c) ==
    /\ pc[c] = "health" /\ Answers(target[c])
    /\ lock' = NoOne
    /\ pc' = [pc EXCEPT ![c] = "leased"]
    /\ active' = [active EXCEPT ![target[c]] = @ + 1]
    /\ lastUsed' = [lastUsed EXCEPT ![target[c]] = clock]
    /\ UNCHANGED <<started, proc, alive, stopVars, idleVars>>

\* The process died, or the start timeout passed: acquire() raises and the
\* entry stays in the table, dead or alive.
Unhealthy(c) ==
    /\ pc[c] = "health"
    /\ lock' = NoOne
    /\ pc' = [pc EXCEPT ![c] = "done"]
    /\ UNCHANGED <<started, proc, alive, leaseVars, stopVars, idleVars>>

\* The `finally' of acquire(): with the lock free it runs without an await, and
\* otherwise it queues.  Nothing runs between a holder's "loop" and its next
\* await, so the lock is seen held only across the holder's awaits.
Return(c) ==
    /\ pc[c] \in {"leased", "releasing"} /\ lock = NoOne
    /\ active' = [active EXCEPT ![target[c]] = @ - 1]
    /\ lastUsed' = [lastUsed EXCEPT ![target[c]] = clock]
    /\ pc' = NotifyAll([pc EXCEPT ![c] = "done"])
    /\ UNCHANGED <<started, proc, alive, lock, stopVars, idleVars>>

QueueReturnCounts(c) ==
    /\ pc[c] = "leased" /\ lock # NoOne /\ pc[lock] # "loop"
    /\ pc' = [pc EXCEPT ![c] = "releasing"]
    /\ active' = [active EXCEPT ![target[c]] = @ - 1]
    /\ UNCHANGED <<started, proc, alive, lastUsed, lock, stopVars, idleVars>>

QueueReturn(c) ==
    /\ pc[c] = "leased" /\ lock # NoOne /\ pc[lock] # "loop"
    /\ pc' = [pc EXCEPT ![c] = "releasing"]
    /\ UNCHANGED <<started, proc, alive, leaseVars, lock, stopVars, idleVars>>

-----------------------------------------------------------------------------
(* unload_provider(), unload_all() and the idle reaper *)

CallUnload(a, x) ==
    /\ pc[a] = "new"
    /\ pc' = [pc EXCEPT ![a] = "enter"]
    /\ target' = [target EXCEPT ![a] = x]
    /\ UNCHANGED <<started, proc, alive, leaseVars, lock, stopVars, asOf,
                   clock, unprepared>>

Scope(x) == IF x = Every THEN Providers ELSE {x}
BusyThroughout(x) == Scope(x) \subseteq {p \in Providers : active[p] > 0}
Busy(x) == \E p \in Scope(x) : active[p] > 0

UnloadBusy(a) ==
    /\ a \in Admins /\ pc[a] = "enter" /\ lock = NoOne /\ Busy(target[a])
    /\ pc' = [pc EXCEPT ![a] = "done"]
    /\ UNCHANGED <<started, proc, alive, leaseVars, lock, stopVars, idleVars>>

UnloadBegins(a) ==
    /\ a \in Admins /\ pc[a] = "enter" /\ lock = NoOne /\ ~Busy(target[a])
    /\ lock' = a
    /\ pc' = [pc EXCEPT ![a] = "loop"]
    /\ todo' = Scope(target[a]) \cap Resident
    /\ UNCHANGED <<started, proc, alive, leaseVars, victim, idleVars>>

ReaperWakes ==
    /\ pc[Reaper] = "sleep"
    /\ pc' = [pc EXCEPT ![Reaper] = "enter"]
    /\ asOf' = clock
    /\ UNCHANGED <<started, proc, alive, leaseVars, lock, stopVars, target,
                   clock, unprepared>>

\* An absent _last_used_at counts as `now', which is never idle.
ExpiredEarly(p) == lastUsed[p] # 0 /\ lastUsed[p] + IdleUnload <= asOf + 1
Expired(p) == lastUsed[p] # 0 /\ lastUsed[p] + IdleUnload <= asOf

ReaperSweeps ==
    /\ pc[Reaper] = "enter" /\ lock = NoOne
    /\ lock' = Reaper
    /\ pc' = [pc EXCEPT ![Reaper] = "loop"]
    /\ todo' = {p \in IdleCandidates : Expired(p)}
    /\ asOf' = 0
    /\ UNCHANGED <<started, proc, alive, leaseVars, victim, target, clock,
                   unprepared>>

-----------------------------------------------------------------------------
(* A task is cancelled at an await *)

CancelQueued(t) ==
    /\ t \in Cancellable /\ pc[t] \in {"enter", "waiting", "woken"}
    /\ pc' = [pc EXCEPT ![t] = "done"]
    /\ UNCHANGED <<started, proc, alive, leaseVars, lock, stopVars, idleVars>>

\* The thread's wait() is abandoned and kill() never sent: the process, gone
\* from the table, runs on.
CancelStop(t) ==
    /\ t \in Cancellable /\ pc[t] \in {"term", "kill"}
    /\ pc' = [pc EXCEPT ![t] = "done"]
    /\ lock' = NoOne /\ victim' = NoOne /\ todo' = {}
    /\ UNCHANGED <<started, proc, alive, leaseVars, idleVars>>

CancelHealth(t) ==
    /\ t \in Cancellable /\ pc[t] = "health"
    /\ pc' = [pc EXCEPT ![t] = "done"]
    /\ lock' = NoOne
    /\ UNCHANGED <<started, proc, alive, leaseVars, stopVars, idleVars>>

\* `async with' in the `finally' raises before the lease is given back.  A
\* cancellation of the body itself is a Return or a QueueReturn.
CancelReturn(t) ==
    /\ t \in Cancellable /\ pc[t] = "releasing"
    /\ pc' = [pc EXCEPT ![t] = "done"]
    /\ UNCHANGED <<started, proc, alive, leaseVars, lock, stopVars, idleVars>>

Cancel(t) == CancelQueued(t) \/ CancelStop(t) \/ CancelHealth(t) \/ CancelReturn(t)

-----------------------------------------------------------------------------
(* The processes and the clock *)

Boot(p) ==
    /\ proc[p] = "booting" /\ Strays(p) = 0   \* a stray keeps the port
    /\ proc' = [proc EXCEPT ![p] = "ready"]
    /\ UNCHANGED <<started, alive, leaseVars, lock, stopVars, pc, idleVars>>

Crash(p) ==
    /\ proc[p] \in Running
    /\ proc' = [proc EXCEPT ![p] = "dead"]
    /\ alive' = [alive EXCEPT ![p] = @ - 1]
    /\ UNCHANGED <<started, leaseVars, lock, stopVars, pc, idleVars>>

StrayExits(p) ==
    /\ Strays(p) > 0
    /\ alive' = [alive EXCEPT ![p] = @ - 1]
    /\ UNCHANGED <<started, proc, leaseVars, lock, stopVars, pc, idleVars>>

Tick ==
    /\ clock < MaxClock
    /\ clock' = clock + 1
    /\ UNCHANGED <<started, proc, alive, leaseVars, lock, stopVars, pc, target,
                   asOf, unprepared>>

-----------------------------------------------------------------------------
Starting == PrepareFails \/ Start \/ \E p \in Providers : PrepareBundle(p)
Stopping == StopBegins \/ StopDrains
Acquiring(c) ==
    \/ \E p \in Providers : CallAcquire(c, p) \/ Evict(c, p)
    \/ Refuse(c) \/ WaitForSlot(c) \/ Reuse(c) \/ Spawn(c) \/ SpawnFails(c)
    \/ Healthy(c) \/ Unhealthy(c) \/ Return(c) \/ QueueReturn(c)
Unloading(a) ==
    \/ \E x \in Providers \cup {Every} : CallUnload(a, x)
    \/ UnloadBusy(a) \/ UnloadBegins(a)
Reaping == ReaperWakes \/ ReaperSweeps
StopStep(t) ==
    \/ TermTimeout(t) \/ VictimExits(t) \/ StopLoopEnds(t)
    \/ \E p \in Providers : StopNext(t, p)
Environment == Tick \/ \E p \in Providers : Boot(p) \/ Crash(p) \/ StrayExits(p)

Next ==
    \/ Starting \/ Stopping \/ Reaping \/ Environment
    \/ \E c \in Clients : Acquiring(c)
    \/ \E a \in Admins : Unloading(a)
    \/ \E t \in Tasks : StopStep(t) \/ Cancel(t)

Spec == Init /\ [][Next]_vars

(* asyncio.Lock serves its waiters in the order they queued and every holder *)
(* lets go, so a task that queues again and again gets its turn (SF).  The    *)
(* awaits under the lock end: the health loop has a deadline, and so has the  *)
(* wait after SIGTERM, which a process may ignore; SIGKILL is final (WF, of   *)
(* the one task that holds the lock).  A caller gives its lease back, and the *)
(* clock goes on.  Nothing obliges anyone to call, crash, boot, cancel or     *)
(* shut down.                                                                 *)
Decision(c) ==
    \/ Refuse(c) \/ WaitForSlot(c) \/ Reuse(c) \/ Spawn(c) \/ SpawnFails(c)
    \/ \E p \in Providers : Evict(c, p)
Fairness ==
    /\ \A c \in Clients : SF_vars(Decision(c)) /\ SF_vars(Return(c) \/ QueueReturn(c))
    /\ \A a \in Admins : SF_vars(UnloadBusy(a) \/ UnloadBegins(a))
    /\ SF_vars(ReaperSweeps) /\ SF_vars(StopDrains)
    /\ WF_vars(\E c \in Clients : Healthy(c) \/ Unhealthy(c))
    /\ WF_vars(\E t \in Tasks : TermTimeout(t))
    /\ WF_vars(\E t \in Tasks : pc[t] = "kill" /\ VictimExits(t))
    /\ WF_vars(\E t \in Stoppers : StopLoopEnds(t) \/ \E p \in Providers : StopNext(t, p))
    /\ WF_vars(ReaperWakes) /\ WF_vars(Tick)

FairSpec == Spec /\ Fairness
=============================================================================
