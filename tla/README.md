# A formal model of Decidealot

Decidealot is a service that answers decision requests by passing them to one of a few model
servers: local ones (Laya, Von, CLM), which it starts and stops as child processes, and hosted
ones (Jev) behind TypeSafe's API. This directory holds TLA+ modules of the parts of it whose
correctness depends on order or on tables that must agree: tasks of one event loop that await at
awkward places, threads in the CLM process, downloads and restarts, checks spread over middleware,
parser, router and settings. TLC checks them on small instances; TLAPS proves every safety and action
property that holds for all instances, and the refinement. Paths below are relative to `src/src/decidealot/` unless they say more.

## 1. Inventory

| Component | Source | State | Operations | Model |
| --- | --- | --- | --- | --- |
| Provider supervisor | `supervisor.py` | `_processes`, `_active_requests`, `_last_used_at`, `_started`, one lock with a condition | `start`, `stop`, `acquire`, `unload_provider`, `unload_all`, the idle reaper | `Supervisor`, abstractly `Residency` |
| Decision scheduling | `decisions.py` | `_model_locks`, `_active_local_models`, `_clm_active`, the batch semaphore | `system_one`, `system_one_batch`, cancellation by a client that goes away | `Scheduler` |
| Hosted catalog | `decisions.py`, `providers.py` | the hosted names, their expiry, a lock | `model_catalog`, `_refresh_hosted_catalog`, `_resolve_route` | `HostedCatalog` |
| Model router, provider clients | `providers.py` | alias tables, hosted table | `resolve`, `catalog`, `forward`, `list_models`, `validate_provider_config` | `Routing`; what a forward ends in, in `Requests` and `Scheduler` |
| CLM engine | `clm_runtime.py` | the LRU cache of candidate vectors, two heads and a scale, two locks | `answer` on worker threads | `ClmEngine` |
| Provider entrypoint | `provider_entrypoint.py` | the files under `/models` | `prepare`, `run`, download, verification | `Bundles` |
| Application | `app.py` | none of its own | lifespan, routes, error mapping | the lifespan in `Supervisor` and `Bundles`, the rest in `Requests` |
| Settings | `settings.py` | immutable | the switches, `validate_configuration` | `Routing` |
| Security | `security.py` | none across requests | bearer check, size limit, request id, headers | `Requests`, but for the headers |
| TypeSafe contract | `typesafe.py` | none | request and response models, the batch parser | `Requests`, a body being in the contract or not |
| MCP server | `mcp_server.py` | none | tools that call the decision service | `Requests` |
| Entry, logging, errors, constants | `main.py`, `logging_config.py`, ... | none | wiring | no |

How they interact. A request enters by REST or MCP, passes the middleware and the parser and becomes
a call of the decision service. The service resolves its routes (maybe refreshing the hosted
catalog), then takes, in this order, the lock of the model, the local lane, a lease of the
supervisor and, for a batch, a place of the semaphore; forwards the request by HTTP; and gives all
back. The supervisor makes room by stopping an idle process, starts the wanted one and waits for its
health URL, with its lock held. Before any of this the application's lifespan has the supervisor
prepare the bundle of each enabled provider by a child command, and a provider's server ensures its
bundle again before it loads it.

What is hard:

* *awaits under a lock and cancellation*: every `await` of `acquire()`, `unload_all()`, `stop()` is a
  place where a client that hangs up cancels the task, with the critical section half done;
* *decisions that age*: the slot test before an eviction, the reaper's `now` before its lock, the
  catalog's expiry before the fetch, a cached vector, the routes of a batch whose later items refresh
  the catalog;
* *four resources at once* in `_run_request`, one of them counted by hand;
* *tables that must agree*: what the catalog lists, what the router resolves, what the settings
  switch on, what each check refuses and whom the answer blames;
* *threads* that read the CLM heads without the lock that guards their loading;
* *a directory that outlives the container*: cut downloads, damaged files, another image, a file
  that others change between its check and its loading.

What makes each component correct is stated in its `...Properties` module, and summarised in
sections 3 and 4. The hazards are listed line by line in `PROJECT.json`, those no property covers
with the reason.

## 2. Modules

```
Residency  <==implements==  Supervisor  <- SupervisorProperties <- SupervisorProofs <- SupervisorRefinement
    ^                                              ^- MCSupervisor
    '--uses--  Scheduler <- SchedulerProperties <- MCScheduler, SchedulerProofs

Routing <- HostedCatalog <- HostedCatalogProperties <- HostedCatalogProofs (with RoutingProofs)
   ^            ^                    ^                        ^
   |         Requests <----- RequestsProperties <------ RequestsProofs
   '- RoutingProofs                  ^- MCRequests

ClmEngine <- ClmEngineProperties <- MCClmEngine, ClmEngineProofs
Bundles   <- BundlesProperties   <- MCBundles, BundlesProofs
```

A component module has the state, the actions and the specification; its `Properties` module what
must hold; its `MC` module the small constants; its `Proofs` module theorems. In the component
modules some operators have mistaken forms just before them (a dropped guard, an off-by-one, a
missing release): the specifications never use those, they document which mistake each property
catches.

**Residency** is what the rest of the program may believe of the supervisor: at most `Slots`
providers loaded, a lease granted only on a live one while the service is open, and no live leased
provider unloaded before it closes. It has no lock, no task and no time.

**Supervisor.** Variables carry the names of the attributes (`proc` for `_processes`, `active` for
`_active_requests`, `lastUsed`, `started`). `lock` is the task in `_lifecycle_lock`, `pc[t]` the
await at which task `t` is parked, `victim` and `todo` the locals of a stop. An action runs from one
await to the next. Client tasks call `acquire()` (`CallAcquire`, `Evict`, `WaitForSlot`, `Reuse`,
`Spawn`, `Healthy`, `Unhealthy`, `Return`, ...), admins `unload_*`, `Reaper` and `Lifespan` are the
tasks of `_idle_reaper` and of the application's lifespan. `Cancel` interrupts a client or an admin
at any await. `alive` counts, per provider, the processes the host runs, from `Popen` to exit, whatever
the supervisor knows of them; it can reach the one in its table and the one it is stopping
(`Reachable`), and what is left (`Strays`) is derived, not recorded. A stray still owns its port.
`Crash`, `StrayExits`, `Boot` and `Tick` are the world's. Notes:

* `"loop"` is not an await: it is where a holder of the lock picks its next victim. `QueueReturn`
  and the fairness respect that nothing else runs there.
* A cancellation of the body of `async with acquire(...)` runs the `finally`, so it is a `Return` or
  a `QueueReturn`; a second one, while queued, is `CancelReturn`.
* The lifespan is one task that nobody cancels, and `start()` runs once: `_startup_lock` is never
  contended.
* Ties (equal times of last use, the order of the specs) are resolved any way.

**Scheduler.** A worker `<<call, key>>` runs the requests of one call for one model key in order;
`at[w]` is the await of `_run_request` it is parked at. The supervisor is replaced by `Residency`,
which `Supervisor` implements. A cancelled call delivers one cancellation to each of its workers,
each at its own await. `_local_condition`'s inner lock is never held across an await, so its
sections are atomic. Routes are given: `Asks` bounds what each caller may name.

**Routing** has no state: the switches of a deployment and `validate_configuration()`, the alias
tables of the router, its two catalogs, `resolve()` and `validate_provider_config()`. `Routes` is the
set of routes of a name; `RoutingProofs` shows that it has one member at most, which is why the code
may return the first it finds.

**HostedCatalog** adds the refresh. A reader asks for the catalog (`<<>>`) or resolves a sequence of
items, each a name and a config, one after the other; `Proceed` is everything it does until its next
await. `reply`, at the moment TypeSafe answers, stands for names that change whenever TypeSafe likes;
`snapshotAt` and `replyAt` record when a list was published.

**Requests** is the server around it: a reader with a request. `Verdict` is the order of the size
check, the bearer check, the decoding of the body and the parser, which is not the same for REST
and MCP. `Arrive` lets a request in or answers it, `Run` forwards the items of a request that has all
its routes and settles what the caller is told (`Reached`: a group stops at its first failure;
`Raised`: the failure that `gather` gives first), `Unload` is the admin's. `Answer` is what the
exception handlers and `_run_tool()` make of it. The forwards of one request are one step here: their
interleaving is `Scheduler`'s. Every step of `Requests` is a step of a reader of `HostedCatalog` or
leaves the catalog alone (`RequestsAreReaders`), so what is proved of the readers holds of the server.

**ClmEngine.** A thread runs `answer()`: check the payload (`Accepts`), look the candidates up
(`LockCache`), encode what is missing with the cache lock held (`EncodeSucceeds` with the endpoint's
reply in any permutation, `EncodeFails` with a reply that is short or names a text twice, or none:
`Usable` and `Decoded` are `decode_embedding_response`), load the heads if need be, with one step per attribute the loader
assigns (`SetStateHead`, `SetActionHead`, `SetScale`), and slice, project, temper and choose question
by question (`Project`, `Tempered`, `Selected`). The vector of a text is the text itself, which is
what the properties tell apart; heads and dot products are a table of integers. A temperature is a
fraction; one that is not above 0 and at most `MaxTemperature`, a kind CLM does not know, a question
without candidates and a text or state that is too long are rejected. Of the floats three things are
kept: `MaxFloat` is where they overflow, a quotient is rounded (down), and softmax may give one
probability to numbers less than `Resolution` apart, so that the choice, which the code takes from the
probabilities, is the first candidate within any `blur` below `Resolution` of the greatest.
`filledAt` and `lastUse` are history for the properties. Requests overlap in
the CLM process when a forward timed out or was cancelled and the service has sent the next one.

**Bundles.** One provider known by its files (Laya; Von is checked the same way) and one by a digest
(CLM). `Boot` is a start of the container, maybe of another image or on another kind of mount. The
child of a provider goes from `check`, maybe by `fetch` and `require`, to `verified`; a `prepare` command
is then done, a server loads what it finds on the disk (`Load`): Laya and Von at once, CLM at its first
request (`_ensure_heads`) and, when that fails, at the next one, without another check. `Harm` is
someone who shares the directory and deletes or damages a file, at any time, under a child that has
checked it too; `harmed` is history, the providers whose files were changed so after they were last
found whole and before a server loaded them. `huggingface_hub.snapshot_download` is external: a file
appears when complete, a file already there at the wanted revision is taken as it is, damaged or not,
unless the download is forced. Everything that goes wrong, upgrades included, draws on `MaxFaults`.

Each `Properties` module states `TypeOK`. The proofs use it as part of their invariants; the runs
check the properties that need it.

## 3. Runs

| Run | Question | Instance and why it is enough |
| --- | --- | --- |
| `supervisor_safety` | Do slots, leases, unloads and shutdown hold under any interleaving and cancellation, and is `Residency` implemented? Is a lease lost, or a process left to itself, in any step but the two of findings 1 and 2, and is anyone left waiting with no lease to wait for but by finding 1? | 3 providers, 2 slots: both a choice of the least recent and a wait occur. 3 clients and an admin, all cancellable, so a waiter, a holder and a returner coexist. Clock to 2, idle period 1: a sweep can come early, in time and late. Symmetry over providers and clients (no liveness is checked here). |
| `supervisor_liveness` | Does every acquire, stop and idle period come to its end? When nothing is cancelled, has every waiter a holder to wait for, and do no more processes run than there are slots? | 2 clients, 2 providers, 1 slot: each may block the other. No cancellation, which both need. |
| `supervisor_leak`, `supervisor_orphan` | Are the lease counts exact, and the processes within the limit, under cancellation? No: findings 1 and 2. | 2 clients and 2 slots; 3 clients and 1 slot. |
| `scheduler_safety` | Do lane, locks, semaphore and answers stay consistent through errors and cancellation, and can the workers ever all wait on each other? | CUDA; one local model with two names, a second one, a hosted one; a single call and a batch of two; 1 batch place, 1 slot. |
| `scheduler_liveness` | Does every call end, whatever order the four resources are taken in? Are two names of one model kept apart? | CPU with CLM in the lane: there the lane lets two calls of one model pass, so only the model lock can keep them apart. |
| `requests` | Do readers share a refresh and use recent names, is a local name independent of TypeSafe, does the catalog list what is accepted, is nothing forwarded unchecked, who is blamed for what, and does every request end? | 2 requests (one refreshes while the other waits, fails or is cancelled) out of 11 kinds: REST and MCP, with and without key, id and length, broken, malformed and good bodies, batches of up to three items in which local, hosted, wrongly configured and disabled models meet. 5 deployments, one per combination the checks tell apart, 2 of them invalid. TypeSafe publishes a name that is also local, and drops another. TTL 2 and clock to 3: two refreshes and the boundary between them fit. |
| `request_id` | Does a provider hear the id the response carries? No: finding 3. | the same. |
| `clm_engine` | Does the cache stay bounded, filled once, LRU and unexpired, is each question answered from its own vectors whatever the endpoint replies, and does the likeliest candidate win? | 2 threads, 3 requests, 3 candidates for 2 entries, one candidate asked twice in a request, at temperatures 1/3, 4/5 and 3: at the first a logit overflows `MaxFloat` unless the greatest is subtracted first, at the last two candidates come within `Resolution` of each other. Rejected: a text and a state over the limit, an empty question, a kind CLM does not know, temperatures 0 and 101. |
| `clm_scale` | Is every answer scaled? No: finding 4. | 2 threads, 1 payload. |
| `bundles` | Does ready mean whole, are good files kept, does the service come back? | 2 files and 1 file, 2 revisions, 4 faults: upgrade, cut, damage and deletion can fall in one life. |
| `bundles_pinned` | Is what is served what the image pins? No: finding 5. | the same with 2 faults. |

Deadlock checking is off in every configuration because every system here may stop: callers are
finite, the service shuts down, clocks and faults have a bound.

Bounds: `MaxClock` (clocks), `MaxRequests` (CLM requests), `MaxItems` and `Asks` (batches), `Kinds` and
`Wanted` (requests), `Deployments` and `Catalogs` (environments and TypeSafe's names), `MaxFaults`
(bundles), `MaxFloat` (the numbers of the CLM process), and one call per client or admin of the
supervisor. A finite clock can only hide what
needs more periods than it has; the properties relate at most two.

Fairness, and why the code grants it:

* *Supervisor*: `asyncio.Lock` serves waiters in order and each holder lets go, so a decision or a
  return that is enabled again and again happens (SF). The health poll has a deadline, the wait after
  SIGTERM a timeout, and SIGKILL is final (WF). A caller gives its lease back, since a forward has a
  timeout. Nothing makes anyone call, crash, cancel or shut down.
* *Scheduler*: the same for model locks and the semaphore (SF). The lane's waiters run their
  predicate after every `notify_all()`, but a newcomer may get there first, so the lane has only WF.
  The liveness of the supervisor's part is what `AcquireEnds` shows (SF on grants and loads).
* *Requests*: the catalog's lock serves its waiters in turn (SF). `list_models()` and forwards have
  timeouts and an unload waits only for processes that are killed in the end (WF). TypeSafe need
  not answer.
* *ClmEngine*: the endpoint's call has a timeout and the rest is computation (WF). `threading.Lock` is
  not fair, but the requests are finitely many.
* *Bundles*: the compose file restarts the container unless stopped, a prepare command runs to its
  end, a download that does not fail ends (WF).

## 4. Findings

1. **A lease can leak** (`supervisor.py:150`, run `supervisor_leak`). The `finally` of `acquire()` awaits
   the lock before it decrements. A client that is cancelled there, while another task stops or starts
   a process, leaves its lease counted: the provider can never be evicted, reaped or unloaded again, and
   who waits for its slot may wait until shutdown. No other step loses a lease (`LeaksOnlyInReturn`,
   proved), and nothing else leaves a waiter with nobody to wake it (`StrandedOnlyByLeak`, proved).
2. **A stopped process can live on** (`supervisor.py:255`, run `supervisor_orphan`). The victim leaves the
   table before its exit is awaited. Cancelled there, nobody sends SIGKILL and the next provider starts
   beside it, one more than `max_resident_local_providers`. Nothing escapes the table in any other step
   (`OrphansOnlyInStop`, proved).
3. **Two ids for one call** (`mcp_server.py:112`, run `request_id`). A tool called without a request id
   mints one for its forwards, while the middleware mints another for the response.
4. **An unscaled answer** (`clm_runtime.py:542`, run `clm_scale`). Both heads are visible before the scale.
5. **An upgrade keeps the old bundle** (`provider_entrypoint.py:183` and `:191`, run `bundles_pinned`). Laya and
   Von files are tested for presence, not for revision.

Each shows in a counterexample of a few steps; each quotes the document or docstring it disagrees
with in `PROJECT.json`. That CLM can wait for an empty lane as long as Laya and Von keep coming
(`decisions.py:221`) is what the code means to do as far as the documents say; it is a hazard in the
list and not a finding.

Nor is what others do to the mounted directory. The digest of the CLM checkpoint is verified before the
server starts (`provider_entrypoint.py:353`), `torch.load` reads the file at the first request and again
after a load that failed (`clm_runtime.py:473`), with no check in between. So
`require_clm_checkpoint`'s "before it can reach Torch" holds only of a directory that nobody else
writes to. `ServesWhole` says just that, with no more than its exception `harmed`: without it the run
`bundles` fails by a check, a change (`Harm`) and a `Load`. Nothing in the service itself changes the file
in between.

## 5. Proofs

Every theorem holds for every value of the constants that satisfies the named assumption of its
module, and for any number of steps. The assumptions say no more than the types of the settings and
that the sets of tasks, calls and models a behaviour uses are finite where they are counted.

**Supervisor** (`SupervisorProofs`, `SupervisorRefinement`). The safety properties are not inductive:
that the table never exceeds its bound depends on a client not holding the lock with a stale
decision, that the reaper takes only idle providers on what it put into `todo` and on no lease being
granted while it holds the lock. `IInv` adds this:

* `LockInv`: the holder of the lock is the one task in a critical section, and `victim` and `todo`
  are its locals;
* `ClientInv`: a client holds the lock or waits only while the service is started;
* `SlotInv`: a client that stops a process has a free slot from then on;
* `TodoInv`: what an unload, the reaper or `unload_all()` will stop has no lease (and has expired), and
  `todo` is the whole table for `unload_all()`;
* `LifespanInv`: where the lifespan is decides `started`, and after the last section of `stop()` the
  table is what it still has to stop;
* `AliveInv`: what the supervisor can reach is among what the host runs, and what is being stopped is
  out of the table;
* `WaiterInv`, `LeaseCovered`: the waiters' and the lease counts'.

There is a lemma per conjunct (`TypeStep`, `LockStep`, ...), each a case per action; `Inductive`
combines them. From it follow `SlotBoundHolds`, `LeaseCoveredHolds`, `StrandedOnlyByLeakHolds`,
`StopIsFinalHolds`, and, by lemmas that say which steps can remove an entry (`RemovedBy`), grant a
lease (`GrantedBy`) or leave a loop (`LoopLeftBy`), the action properties `NeverStopsLeasedHolds`,
`ReapsOnlyIdleHolds`, `GrantsLiveLeaseHolds` and `UnloadAllIsAtomicHolds`. `Refinement` shows each action
to be a step of `Residency` or a stutter, so the scheduler may be checked against `Residency`.

How the two findings stand to the rest is proved too. With no client that can be cancelled the lease
counts are exact (`LeaseExactHolds`), and with nothing that can be cancelled no more processes are alive
than there are slots, in the table or out of it (`LiveWithinLimitHolds`). These two have that hypothesis
because they are false without it, as `supervisor_leak` and `supervisor_orphan` show; what is true
whatever is cancelled is that a lease is lost only in `CancelReturn`, one at a time
(`LeaksOnlyInReturnHolds`), and that a process escapes only in `CancelStop` (`OrphansOnlyInStopHolds`).
`LeaseMoves` and `SightMoves` go through the actions once for both forms: the latter shows of each action
that what it starts, drops or stops to watch is what it adds to or takes from the host's processes. Who
waits has a lease count that is not zero (`WaiterInv`); with exact counts it has a holder
(`WaiterHasWakerHolds`), and in general a holder or a lost lease (`StrandedOnlyByLeakHolds`). `LiveWithinLimitHolds` needs of
`SlotInv` that the process being stopped still takes the slot it had.

**Scheduler** (`SchedulerProofs`). `SInv` ties each counter to the workers that account for it:
`LockInv` (who is past the queue of a model's lock holds it), `LaneInv` (the lane's counters are the
workers in it, CLM is alone, on CUDA so is every model), `SlotInv` (the places of the semaphore),
`GroupInv` (the requests of a call are those with a result and those left; a call that is over has no
worker that goes on) and `LeaseInv` (who is in the body of `acquire()` is counted). `WorkerMoves` sorts
all the actions of a worker by what they do to its place, and `LockMoves` and `LaneMoves` are proved per
sort; `SlotMoves`, `GroupMoves` and `LeaseMoves` per action. All six safety properties the runs check
follow. `SomebodyGoesOnHolds` is the freedom from deadlock: with every wait seen from the last resource
to the first, whoever waits waits for a worker that is further on. `CanGo` spells out what a worker can
do without another one, since `ENABLED` cannot be reasoned about here. Its one exception is a lease that
finding 1 loses, which can keep a slot of the supervisor for ever; `LeaseExactInv` shows that without
cancellation no lease is lost, so there the exception is void (`UncancelledGoOn`).

**Routing and HostedCatalog** (`RoutingProofs`, `HostedCatalogProofs`). That a name has one route
(`OneRoute`) and a public name leads back (`PublicNameLeadsBack`) are facts about the tables. `CatalogInv`
then says who holds the lock, how expiry, question, answer and publication are ordered in time
(`TimeInv`) and that a reader has a good route per item it has passed (`RouteInv`). `GoesOnKeeps` does
the work of `Proceed` once, for its three callers.

**Requests** (`RequestsProofs`). `RequestsAreReaders` gives the server all of the above, and `WorkInv`,
that a reader which has begun was let in and resolves the items of its request, gives `WorkIsChecked`.
`BlamesTheRightSide` takes three arguments. A reader ends in 422 at an item that its list of names
refuses, and that list is fresh or its own (`GoesOnRightly`, from what `Moved` says of the item and from
`TimeInv`), so no provider serves the item (`RefusedIsUnservable`). Of the forwards, if none fails all
items are reached, or the first that was not answered would have failed (`NothingFails`); if some fail,
the failure raised is one of them, since the groups have a first item (`OneIsRaised`). And a request
is turned away on arrival only for what `Verdict` finds (`TurnedAwayRightly`).

**Bundles** (`BundlesProofs`). `PreparedInv` says that, while `start()` prepares, the bundles already
prepared are whole, which of the service nothing but the child under way could change, and
`VerifiedInv` that so is the bundle of a server which has yet to load it; both but for the `harmed` ones,
since others may change any file in any step. With `ChildInv` (one child at a time, no server outlives
its image) and `FetchInv` they give the three safety properties. Section 4 says why
the exception is needed.

**ClmEngine** (`ClmEngineProofs`). `TemperatureKeepsChoice` is about the operators alone: for any number
of candidates, integer logits, fraction as temperature, floor, overflow bound and `Resolution`, none
overtakes a candidate with a greater logit, those before the choice have smaller logits, and none leads
it by `Resolution` or more once divided by the temperature. It rests on the monotony of the rounded
quotient (`QuotientBounds`, `QuotientKeepsOrder`, `TemperedIs`, `SelectedIs`). The invariant is `IInv`, whose parts are in
`ClmEngineProperties`, besides the types:

* `EngineInv`: who encodes holds the cache lock, who loads the heads the other, and whoever projects
  has both heads;
* `CacheInv`: the cache is within its capacity and *sound*: a text has one entry, its vector is the
  text's, its expiry a lifetime after it was encoded, and the entries stand in the order of their last use.
  The bound alone is not inductive (a fill could bring a text twice), nor is the LRU order without it;
* `RequestInv`: what a request waits for is exactly what the cache lacks, each text once, which is why no
  two fills share a text and why what it does not ask for can be read from the cache as it is when the
  reply arrives; afterwards it has the vectors of its states and then of its candidates;
* `AnswerInv`: the answers so far are those to the first questions, each computed from logits of its own
  texts. `RightVectors` follows at once, `LikeliestAnswer` by `TemperatureKeepsChoice`.

`CacheStep`, `RequestStep` and `AnswerStep` preserve one part each. They rest on lemmas about the model's
operators: `ThoseIs` and `AscendingIs` (a filtered sequence keeps the order and loses no chosen entry),
`DecodedIs` (whichever permutation the endpoint replies with, the decoded vectors are in the order sent), `TrimIs`,
`TouchIs` and `SoundTrim`, `SoundConcat` (which keep a cache sound), `KeptIs` and `FillIs` (a request's
look and its fill), `FlatIs` and `ProjectIs` (the slice a question's candidates have in the vectors of
all questions is its own, whatever the sizes of the questions before it). `NoExpiredHitHolds` and
`EvictsLeastRecentHolds` use `IInv` on both sides of the step. A capacity of 0, which no run has, is
among the instances proved.

Where a fact needs induction over the length of a sequence or the size of a set, the induction theorems
of the library cannot be instantiated by the installed provers. It is proved by a least counterexample
instead, which exists because the finite subsets of a set are well-founded under inclusion
(`GreatestExists`, `LeastExists`). `FlattenSeq` is a fold with a recursive definition inside a `LET`;
`JoinExists`, `JoinUnique` and `FlattenJoins` show that it is the one function that adds a sequence at a
time.

Only model-checked: what needs fairness, since neither `ENABLED` nor liveness is in the prover's reach
(`AcquireEnds`, `StopEnds`, `IdleIsUnloaded`, `CallsEnd`, both `RequestsEnd`, `BecomesReady`). The five
properties of the runs that expect a violation are false in their instances.

## 6. Not modelled

* *Wording and numbers*: the rendering of candidates and prompts, the translation of a question into
  a provider's native body, the layers of a CLM head, the probabilities of softmax (of which the model
  keeps that they never reverse an order and may merge numbers less than `Resolution` apart), the score
  and confidence of an answer, logging, the constant security headers.
* *One bit each*: whether a body is in the TypeSafe contract, whether a provider's reply is, whether
  TypeSafe's list parses. The schemas' fields, and the ranges and spellings of single settings, are
  not modelled.
* *Boundaries*: the size limit is that of a declared `Content-Length`; a refusal for size carries none
  of the headers the inner layers set. What the MCP library decodes before a tool runs is external.
* *Application*: the health route; `create_app` for hosts that own the provider processes.
* *Time*: `monotonic` times are integers, and a request has no duration of its own. In `Requests` the
  supervisor is ready for as long as requests are served.
* *World*: HTTP beyond its outcomes, two services on one directory, abrupt death of the service process
  while local servers run (the container ends with it), `start()` cancelled halfway.
* With `Entries = 0` the CLM cache is off; that branch is in the model and the proofs, and in no run.

## 7. Plan

Done: the core (`Supervisor`, `Residency`, proofs and refinement), `Scheduler`, `HostedCatalog`, `ClmEngine`,
`Bundles`; then `Routing` and `Requests` over the catalog, the CLM reply, temperature and choice, and
the safety proofs of every component. What could come next:

1. *Extend*: the streaming size limit, the native bodies of the providers and what they answer, field by
   field; `Scheduler` with calls that never stop coming, to state which of them are served.
2. *Prove*: every safety and action property of the passing runs is proved. What is left is the way
   components fit: that a whole request of `ClmEngine` implements one atomic answer, and that the forwards
   `Scheduler` interleaves implement the one step they are in `Requests`.
