---------------------------- MODULE RoutingProofs ----------------------------
(***************************************************************************)
(* What the tables of the router and of the settings agree on, for every   *)
(* deployment and every name.                                              *)
(***************************************************************************)
EXTENDS Routing, TLAPS

Providers == {"laya", "von", "clm", "jev"}

\* A local provider is enabled if its switch says so.
LEMMA EnabledLocally ==
    ASSUME NEW d, NEW p \in Enabled(d)
    PROVE  p \in Providers
  BY DEF Enabled, Providers

\* The catalog has the entries of each enabled local provider.
LEMMA CatalogEntries ==
    ASSUME NEW d, NEW name
    PROVE  name \in LocalCatalog(d) <=>
             \/ "laya" \in Enabled(d) /\ name \in LayaEntries
             \/ "von" \in Enabled(d) /\ name \in VonEntries
             \/ "clm" \in Enabled(d) /\ name \in ClmEntries
<1> DEFINE entries(p) == CASE p = "laya" -> LayaEntries [] p = "von" -> VonEntries
                           [] p = "clm" -> ClmEntries
<1>1. entries("laya") = LayaEntries /\ entries("von") = VonEntries /\ entries("clm") = ClmEntries
  OBVIOUS
<1>2. LocalCatalog(d) = UNION {entries(p) : p \in Enabled(d) \ {"jev"}}
  BY DEF LocalCatalog
<1> HIDE DEF entries
<1>3. \A p \in Enabled(d) \ {"jev"} : p = "laya" \/ p = "von" \/ p = "clm"
  BY EnabledLocally DEF Providers
<1>4. name \in LocalCatalog(d) <=> \E p \in Enabled(d) \ {"jev"} : name \in entries(p)
  BY <1>2
<1>5. QED
  BY <1>1, <1>3, <1>4

\* The entries of two providers have no name in common.
LEMMA EntriesDisjoint ==
    /\ LayaEntries = LayaAutoAliases \cup LayaCheckpoints
    /\ LayaAutoAliases \cap LayaCheckpoints = {}
    /\ LayaEntries \cap VonEntries = {} /\ LayaEntries \cap ClmEntries = {}
    /\ VonEntries \cap ClmEntries = {}
  BY DEF LayaEntries, VonEntries, ClmEntries, LayaAutoAliases, LayaCheckpoints

\* What the catalog lists has a local route, and nothing else has one.
LEMMA ListedIsRouted ==
    ASSUME NEW d, NEW name
    PROVE  name \in LocalCatalog(d) <=> LocalRoutes(d, name) # {}
<1>1. LocalRoutes(d, name) # {} <=>
        \/ "laya" \in Enabled(d) /\ name \in LayaAutoAliases \cup LayaCheckpoints
        \/ "von" \in Enabled(d) /\ name \in VonEntries
        \/ "clm" \in Enabled(d) /\ name \in ClmEntries
  BY DEF LocalRoutes
<1>2. QED
  BY <1>1, CatalogEntries, EntriesDisjoint

\* A local route leads to an enabled local provider, CLM's to CLM's names only.
LEMMA LocalRouteServes ==
    ASSUME NEW d, NEW name, NEW route \in LocalRoutes(d, name)
    PROVE  /\ route \in [provider : {"laya", "von", "clm"}, public : {name, "laya", "von-1.1", "clm-0.1-8b"}]
           /\ route.provider \in Enabled(d)
           /\ route.provider = "clm" => name \in ClmEntries
  BY DEF LocalRoutes, Route

\* The routes of a name are those of the local tables if it is listed there.
LEMMA RoutesOf ==
    ASSUME NEW d, NEW name, NEW hosted
    PROVE  Routes(d, name, hosted) =
             IF name \in LocalCatalog(d) THEN LocalRoutes(d, name)
             ELSE {r \in {Route("jev", name)} : name \in hosted /\ "jev" \in Enabled(d)}
  BY ListedIsRouted DEF Routes

\* A route leads to an enabled provider, to TypeSafe only for what is not local.
LEMMA RouteServes ==
    ASSUME NEW d, NEW name, NEW hosted, NEW route \in Routes(d, name, hosted)
    PROVE  /\ route \in [provider : Providers, public : {name, "laya", "von-1.1", "clm-0.1-8b"}]
           /\ route.provider \in Enabled(d)
           /\ route.provider = "clm" => name \in ClmEntries
           /\ route.provider = "jev" <=> name \notin LocalCatalog(d)
           /\ route.provider = "jev" => name \in hosted /\ route = Route("jev", name)
<1>1. CASE name \in LocalCatalog(d)
  <2>1. route \in LocalRoutes(d, name)
    BY <1>1, RoutesOf
  <2>2. QED
    BY <1>1, <2>1, LocalRouteServes DEF Providers
<1>2. CASE name \notin LocalCatalog(d)
  <2>1. route = Route("jev", name) /\ name \in hosted /\ "jev" \in Enabled(d)
    BY <1>2, RoutesOf
  <2>2. QED
    BY <1>2, <2>1 DEF Providers, Route
<1>3. QED
  BY <1>1, <1>2

\* A name has at most one route, so that resolve() may return the first.
THEOREM OneRoute ==
    ASSUME NEW d, NEW name, NEW hosted,
           NEW first \in Routes(d, name, hosted), NEW second \in Routes(d, name, hosted)
    PROVE  first = second
<1>1. CASE name \in LocalCatalog(d)
  <2>1. first \in LocalRoutes(d, name) /\ second \in LocalRoutes(d, name)
    BY <1>1, RoutesOf
  <2>2. \/ name \in LayaAutoAliases /\ name \notin LayaCheckpoints \cup VonEntries \cup ClmEntries
        \/ name \in LayaCheckpoints /\ name \notin LayaAutoAliases \cup VonEntries \cup ClmEntries
        \/ name \in VonEntries /\ name \notin LayaAutoAliases \cup LayaCheckpoints \cup ClmEntries
        \/ name \in ClmEntries /\ name \notin LayaAutoAliases \cup LayaCheckpoints \cup VonEntries
    BY <1>1, CatalogEntries, EntriesDisjoint
  <2>3. QED
    BY <2>1, <2>2 DEF LocalRoutes
<1>2. CASE name \notin LocalCatalog(d)
  BY <1>2, RoutesOf
<1>3. QED
  BY <1>1, <1>2

\* A model answers under a name that leads to it again: with it as its own
\* public name, or as another name of the same provider.
THEOREM PublicNameLeadsBack ==
    ASSUME NEW d, NEW name, NEW hosted, NEW route \in Routes(d, name, hosted)
    PROVE  Routes(d, route.public, hosted) = {route}
<1>1. CASE name \in LocalCatalog(d)
  <2>1. route \in LocalRoutes(d, name)
    BY <1>1, RoutesOf
  <2>2. \/ route = Route("laya", "laya") /\ "laya" \in Enabled(d)
        \/ route = Route("laya", name) /\ name \in LayaCheckpoints /\ "laya" \in Enabled(d)
        \/ route = Route("von", "von-1.1") /\ "von" \in Enabled(d)
        \/ route = Route("clm", "clm-0.1-8b") /\ "clm" \in Enabled(d)
    BY <2>1 DEF LocalRoutes
  <2>3. route \in LocalRoutes(d, route.public)
    BY <2>2 DEF LocalRoutes, Route, LayaAutoAliases, LayaCheckpoints, VonEntries, ClmEntries
  <2>4. route \in Routes(d, route.public, hosted)
    BY <2>3, ListedIsRouted, RoutesOf
  <2>5. QED
    BY <2>4, OneRoute
<1>2. CASE name \notin LocalCatalog(d)
  <2>1. route.public = name
    BY <1>2, RoutesOf DEF Route
  <2>2. QED
    BY <2>1, OneRoute
<1>3. QED
  BY <1>1, <1>2
=============================================================================
