----------------------- MODULE HostedCatalogProperties -----------------------
(* What the readers of the catalog may rely on. *)
EXTENDS HostedCatalog

Waiting == {"queued", "asking"}

\* Every name a decision is answered under.
PublicNames == LayaEntries \cup VonEntries \cup ClmEntries \cup HostedNames

\* The types of the variables; what a local provider serves is never hosted,
\* so the models are listed once each.
TypeOK ==
    /\ settings \in Deployments
    /\ reply \subseteq HostedNames /\ hosted \subseteq HostedNames \ LocalNames
    /\ answered \in BOOLEAN
    /\ expiresAt \in 0..(MaxClock + TTL)
    /\ lock \in Readers \cup {NoReader}
    /\ askedAt \in 0..MaxClock /\ replyAt \in 0..MaxClock /\ snapshotAt \in 0..MaxClock
    /\ at \in [Readers -> Waiting \cup {"new", "listed", "routed", "invalid",
                                        "unavailable", "cancelled"}]
    /\ items \in [Readers -> Wanted \cup {<<>>}]
    /\ routes \in [Readers -> Seq([provider : {"laya", "von", "clm", "jev"}, public : PublicNames])]
    /\ \A r \in Readers : Len(routes[r]) <= Len(items[r])
    /\ clock \in 1..MaxClock /\ refreshes \in Nat

-----------------------------------------------------------------------------
(* Invariants *)

\* "Concurrent catalog reads share one refresh": however many readers queue,
\* successful refreshes were asked for at least the TTL apart.
OneRefreshPerTTL == refreshes > 0 => (refreshes - 1) * TTL < clock

\* "Hosted catalog failure does not block local decisions": no reader waits
\* for TypeSafe, or fails because of it, at a name a local provider serves.
LocalNeedsNoTypeSafe ==
    \A r \in Readers : at[r] \in Waiting \cup {"unavailable"} /\ items[r] # <<>> =>
        items[r][Len(routes[r]) + 1].model \notin LocalNames

\* "Use a name returned by GET /v1/models": what the catalog lists is what is
\* accepted, by one enabled provider and before TypeSafe's name of the same
\* spelling, and a model answers under a name that leads to it again.  The
\* catalog and the routes are kept in tables of their own.
ListsWhatItAccepts ==
    LET Listed == LocalNames \cup hosted
        To(name) == Routes(settings, name, hosted) IN
    /\ \A name \in LayaEntries \cup VonEntries \cup ClmEntries \cup HostedNames :
          name \in Listed <=> To(name) # {}
    /\ \A name \in Listed : \E route \in To(name) :
          /\ To(name) = {route} /\ To(route.public) = {route}
          /\ route.provider \in Enabled(settings)
          /\ route.provider = "jev" <=> name \notin LocalNames

-----------------------------------------------------------------------------
(* Action properties *)

\* The step in which r answers from the hosted names, or routes one of them.
UsesHosted(r) ==
    \/ at[r] # "listed" /\ at'[r] = "listed"
    \/ \E i \in Len(routes[r]) + 1 .. Len(routes'[r]) : routes'[r][i].provider = "jev"

\* "Caches the catalog for 60 seconds": the names a reader uses were published
\* less than the TTL ago, or after the reader itself asked for them.
UsesRecentNames ==
    [][\A r \in Readers : HostedEnabled /\ UsesHosted(r) =>
         IF at[r] = "asking" THEN snapshotAt' >= askedAt ELSE clock < snapshotAt + TTL]_vars

=============================================================================
