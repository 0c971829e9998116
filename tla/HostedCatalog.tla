--------------------------- MODULE HostedCatalog ---------------------------
(***************************************************************************)
(* The hosted half of the model catalog: ModelRouter's names and the       *)
(* refresh of DecisionService that reads them from TypeSafe.               *)
(*                                                                         *)
(* A reader is a task of the event loop that needs the catalog: it lists   *)
(* the models, or resolves the items of a decision or of a batch one after *)
(* the other, each a model name and the kind of config that goes with it.  *)
(* A step runs from one await to the next.  `at' names the await a reader  *)
(* is parked at, or how it ended:                                          *)
(*                                                                         *)
(*   new                    not called yet                                 *)
(*   queued                 queued for _hosted_catalog_lock                *)
(*   asking                 holds the lock, list_models() is under way     *)
(*   listed, routed         has the models, has all its routes             *)
(*   invalid, unavailable   ended in 422, ended in 503                     *)
(*   cancelled                                                             *)
(*                                                                         *)
(* Where two forms of an operator stand together, the first is the form a  *)
(* mistake would give it; only the second is used.                         *)
(***************************************************************************)
EXTENDS Naturals, Sequences, Routing

CONSTANTS
    Readers,        \* tasks that need the catalog
    Wanted,         \* bound: the items a reader resolves; <<>> lists the models
    Cancellable,    \* the readers something may cancel
    Deployments,    \* bound: the environments somebody starts the service in
    Catalogs,       \* bound: the sets of names TypeSafe publishes over time
    TTL,            \* HOSTED_MODEL_CATALOG_TTL_SECONDS
    MaxClock,       \* bound on the event loop's clock
    NoReader

HostedNames == UNION Catalogs

ASSUME CatalogAssumption ==
    /\ TTL \in Nat \ {0} /\ MaxClock \in Nat \ {0}
    /\ Cancellable \subseteq Readers /\ NoReader \notin Readers
    /\ \A f \in Wanted : f \in Seq([model : STRING, config : {"empty", "temperature", "other"}])

VARIABLES
    settings,    \* the deployment the service was started in
    answered,    \* external: TypeSafe has answered the call under way
    reply,       \* external: the names in that answer
    hosted,      \* the names of _hosted_models
    expiresAt,   \* _hosted_catalog_expires_at
    lock,        \* the holder of _hosted_catalog_lock
    askedAt,     \* the holder's `now'
    at, items,   \* per reader: where it is, and the items it resolves
    routes,      \* per reader, the routes of the items it has resolved
    clock,       \* the event loop's clock
    replyAt,     \* history: when TypeSafe read the names of `reply'
    snapshotAt,  \* history: when TypeSafe read the names of `hosted'
    refreshes    \* history: how many refreshes succeeded

readerVars == <<at, items, routes>>
catalogVars == <<hosted, expiresAt, snapshotAt, refreshes>>
replyVars == <<answered, reply, replyAt>>
vars == <<settings, replyVars, catalogVars, lock, askedAt, readerVars, clock>>

LocalNames == LocalCatalog(settings)
HostedEnabled == "jev" \in Enabled(settings)

Init ==
    /\ settings \in {d \in Deployments : Valid(d)}
    /\ answered = FALSE /\ reply = {} /\ replyAt = 0
    /\ hosted = {} /\ expiresAt = 0 /\ snapshotAt = 0 /\ refreshes = 0
    /\ lock = NoReader /\ askedAt = 0
    /\ at = [r \in Readers |-> "new"]
    /\ items = [r \in Readers |-> <<>>]
    /\ routes = [r \in Readers |-> <<>>]
    /\ clock = 1

-----------------------------------------------------------------------------
(* _resolve_route() and the check of the config, item after item *)

\* A name that is not local makes the reader refresh: it awaits when the
\* catalog has expired, unless a refresh for this very item has just returned.
Stale(r, i, fresh, refreshed) ==
    HostedEnabled /\ ~fresh /\ ~(refreshed /\ i = Len(routes[r]) + 1)

AwaitsAlways(r, wanted, i, fresh, refreshed) == Stale(r, i, fresh, refreshed)
Awaits(r, wanted, i, fresh, refreshed) ==
    wanted[i].model \notin LocalNames /\ Stale(r, i, fresh, refreshed)

\* The name is unknown, or its provider does not take the config.
Refused(item, known) ==
    \A route \in Routes(settings, item.model, known) : ~AcceptsConfig(route, item.config)

Stops(r, wanted, known, fresh, refreshed) ==
    {i \in Len(routes[r]) + 1 .. Len(wanted) :
        Awaits(r, wanted, i, fresh, refreshed) \/ Refused(wanted[i], known)}

\* The routes of the first n items.
Routed(r, wanted, n, known) ==
    routes[r] \o [i \in 1 .. n - Len(routes[r]) |->
        CHOOSE route \in Routes(settings, wanted[Len(routes[r]) + i].model, known) : TRUE]

\* What r does until its next await, with the names `known' of a catalog that
\* has not expired (fresh), after it has refreshed or not.
Proceed(r, wanted, known, fresh, refreshed) ==
    IF wanted = <<>>
    THEN /\ at' = [at EXCEPT ![r] = IF Stale(r, 1, fresh, refreshed) THEN "queued" ELSE "listed"]
         /\ UNCHANGED routes
    ELSE LET stops == Stops(r, wanted, known, fresh, refreshed) IN
         IF stops = {}
         THEN /\ at' = [at EXCEPT ![r] = "routed"]
              /\ routes' = [routes EXCEPT ![r] = Routed(r, wanted, Len(wanted), known)]
         ELSE \E i \in stops :
              /\ \A j \in stops : i <= j
              /\ at' = [at EXCEPT ![r] =
                    IF Awaits(r, wanted, i, fresh, refreshed) THEN "queued" ELSE "invalid"]
              /\ routes' = [routes EXCEPT ![r] = Routed(r, wanted, i - 1, known)]

Call(r, f) ==
    /\ at[r] = "new"
    /\ items' = [items EXCEPT ![r] = f]
    /\ Proceed(r, f, hosted, clock < expiresAt, FALSE)
    /\ UNCHANGED <<settings, replyVars, catalogVars, lock, askedAt, clock>>

-----------------------------------------------------------------------------
(* _refresh_hosted_catalog() *)

\* The second look at the clock, under the lock.
StillExpiredUnread == TRUE
StillExpired == clock >= expiresAt

FindsItFresh(r) ==
    /\ at[r] = "queued" /\ lock = NoReader /\ ~StillExpired
    /\ Proceed(r, items[r], hosted, TRUE, TRUE)
    /\ UNCHANGED <<settings, replyVars, catalogVars, lock, askedAt, items, clock>>

Ask(r) ==
    /\ at[r] = "queued" /\ lock = NoReader /\ StillExpired
    /\ lock' = r /\ askedAt' = clock
    /\ answered' = FALSE /\ reply' = {} /\ replyAt' = 0
    /\ at' = [at EXCEPT ![r] = "asking"]
    /\ UNCHANGED <<settings, catalogVars, items, routes, clock>>

Release == lock' = NoReader /\ askedAt' = 0

\* set_hosted_models() gets what no local provider serves.
Kept == reply \ LocalNames

ExpiryFromNow == clock + TTL
Expiry == askedAt + TTL

RefreshSucceeds(r) ==
    /\ at[r] = "asking" /\ answered
    /\ hosted' = Kept /\ expiresAt' = Expiry
    /\ snapshotAt' = replyAt /\ refreshes' = refreshes + 1
    /\ Release
    /\ Proceed(r, items[r], hosted', clock < expiresAt', TRUE)
    /\ UNCHANGED <<settings, replyVars, items, clock>>

\* list_models() raises: no connection, a timeout, a status other than 200 or
\* a body that is not a catalog.
RefreshFailsHolding(r) ==
    /\ at[r] = "asking"
    /\ at' = [at EXCEPT ![r] = "unavailable"]
    /\ UNCHANGED <<settings, replyVars, catalogVars, lock, askedAt, items, routes, clock>>

RefreshFails(r) ==
    /\ at[r] = "asking"
    /\ at' = [at EXCEPT ![r] = "unavailable"]
    /\ Release
    /\ UNCHANGED <<settings, replyVars, catalogVars, items, routes, clock>>

Cancel(r) ==
    /\ r \in Cancellable /\ at[r] \in {"queued", "asking"}
    /\ at' = [at EXCEPT ![r] = "cancelled"]
    /\ IF lock = r THEN Release ELSE UNCHANGED <<lock, askedAt>>
    /\ UNCHANGED <<settings, replyVars, catalogVars, items, routes, clock>>

-----------------------------------------------------------------------------
(* TypeSafe and the clock *)

\* TypeSafe reads its names; the answer takes its time to arrive.
TypeSafeAnswers ==
    /\ lock # NoReader /\ ~answered
    /\ answered' = TRUE /\ reply' \in Catalogs /\ replyAt' = clock
    /\ UNCHANGED <<settings, catalogVars, lock, askedAt, readerVars, clock>>

Tick ==
    /\ clock < MaxClock /\ clock' = clock + 1
    /\ UNCHANGED <<settings, replyVars, catalogVars, lock, askedAt, readerVars>>

-----------------------------------------------------------------------------
Refreshing(r) == FindsItFresh(r) \/ Ask(r) \/ RefreshSucceeds(r) \/ RefreshFails(r)

Next ==
    \/ \E r \in Readers : Refreshing(r) \/ Cancel(r) \/ \E f \in Wanted : Call(r, f)
    \/ TypeSafeAnswers \/ Tick

Spec == Init /\ [][Next]_vars
=============================================================================
