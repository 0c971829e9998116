------------------------- MODULE HostedCatalogProofs -------------------------
(***************************************************************************)
(* Proofs about the catalog and the readers that resolve their items, for  *)
(* any readers, deployments, catalogs, lifetime and clock.                 *)
(***************************************************************************)
EXTENDS HostedCatalogProperties, RoutingProofs, SequenceTheorems

Item == [model : STRING, config : {"empty", "temperature", "other"}]
ARoute == [provider : Providers, public : PublicNames]

\* The lock is held by who asks, and only a deployment with TypeSafe's key has
\* readers that ask or names that are hosted.
LockInv ==
    /\ \A r \in Readers : at[r] = "asking" <=> lock = r
    /\ \A r \in Readers : at[r] \in Waiting => HostedEnabled
    /\ hosted # {} => HostedEnabled
    /\ Valid(settings)

\* How the times relate: the catalog expires a lifetime after its holder asked
\* for it, which TypeSafe answered no earlier; who asks has found it expired.
TimeInv ==
    /\ refreshes = 0 => expiresAt = 0
    /\ refreshes > 0 => expiresAt >= refreshes * TTL + 1
    /\ expiresAt <= clock + TTL /\ expiresAt <= snapshotAt + TTL
    /\ lock # NoReader => 1 <= askedAt /\ askedAt <= clock /\ expiresAt <= askedAt
    /\ lock # NoReader /\ answered => askedAt <= replyAt

\* The item a reader has come to: its index is one more than its routes.
AtItem(r) == items[r][Len(routes[r]) + 1]

\* A reader that waits or has failed is at an item that is not local; the
\* routes it has are good, and has all of them when it goes on.
RouteInv ==
    \A r \in Readers :
        /\ at[r] = "new" => routes[r] = <<>>
        /\ at[r] \in Waiting \cup {"unavailable"} /\ items[r] # <<>> =>
              Len(routes[r]) < Len(items[r]) /\ AtItem(r).model \notin LocalNames
        /\ at[r] = "routed" => Len(routes[r]) = Len(items[r])
        /\ \A i \in 1..Len(routes[r]) :
              /\ routes[r][i].provider \in Enabled(settings)
              /\ AcceptsConfig(routes[r][i], items[r][i].config)
              /\ routes[r][i].provider = "clm" => items[r][i].model \in ClmEntries

CatalogInv == TypeOK /\ LockInv /\ TimeInv /\ RouteInv

\* The service starts with no names, no readers and a valid deployment.
THEOREM InitCatalogInv == Init => CatalogInv
<1> SUFFICES ASSUME Init PROVE CatalogInv
  OBVIOUS
<1> USE CatalogAssumption
<1>1. <<>> \in Seq(ARoute) /\ Len(<<>>) = 0
  OBVIOUS
<1>2. TypeOK
  <2>1. routes \in [Readers -> Seq(ARoute)] /\ items \in [Readers -> Wanted \cup {<<>>}]
    BY <1>1 DEF Init
  <2>2. \A r \in Readers : Len(routes[r]) <= Len(items[r])
    BY <1>1 DEF Init
  <2>3. settings \in Deployments /\ reply \subseteq HostedNames /\ hosted \subseteq HostedNames \ LocalNames
    BY DEF Init
  <2>4. /\ expiresAt \in 0..(MaxClock + TTL) /\ clock \in 1..MaxClock /\ refreshes \in Nat
        /\ askedAt \in 0..MaxClock /\ replyAt \in 0..MaxClock /\ snapshotAt \in 0..MaxClock
    BY DEF Init
  <2>5. answered \in BOOLEAN /\ lock \in Readers \cup {NoReader}
    BY DEF Init
  <2>6. at \in [Readers -> Waiting \cup {"new", "listed", "routed", "invalid",
                                      "unavailable", "cancelled"}]
    BY DEF Init
  <2>7. QED
    BY <2>1, <2>2, <2>3, <2>4, <2>5, <2>6 DEF TypeOK, ARoute, Providers
<1>3. LockInv
  BY DEF Init, LockInv, Waiting
<1>4. TimeInv
  BY DEF Init, TimeInv
<1>5. RouteInv
  BY <1>1 DEF Init, RouteInv, Waiting
<1>6. QED
  BY <1>2, <1>3, <1>4, <1>5 DEF CatalogInv

-----------------------------------------------------------------------------
(* What a reader does until its next await *)

\* A route leads to a provider, and a decision is answered under a name that
\* is in a table or hosted.
LEMMA RoutesAreTyped ==
    ASSUME NEW name, NEW known, known \subseteq HostedNames
    PROVE  Routes(settings, name, known) \subseteq ARoute
<1>1. LayaAutoAliases \cup LayaCheckpoints \subseteq LayaEntries
  BY DEF LayaAutoAliases, LayaCheckpoints, LayaEntries
<1>2. {"laya"} \cup {"von-1.1"} \cup {"clm-0.1-8b"} \cup LayaEntries \cup known \subseteq PublicNames
  BY DEF PublicNames, LayaEntries, VonEntries, ClmEntries
<1>3. LocalRoutes(settings, name) \subseteq ARoute
  BY <1>1, <1>2 DEF LocalRoutes, Route, ARoute, Providers
<1>4. QED
  BY <1>2, <1>3 DEF Routes, Route, ARoute, Providers

\* A function on an initial segment of the integers is a sequence.
LEMMA SegmentIsSeq ==
    ASSUME NEW S, NEW n \in Nat, NEW f \in [1 .. n -> S]
    PROVE  f \in Seq(S) /\ Len(f) = n
OBVIOUS

\* The first n items of a reader that neither make it await nor are refused get
\* a route each, and those it had stay as they are.
LEMMA RoutedValue ==
    ASSUME NEW r \in Readers, NEW wanted \in Seq(Item), NEW known,
           known \subseteq HostedNames, routes[r] \in Seq(ARoute),
           NEW n \in Len(routes[r]) .. Len(wanted),
           \A i \in Len(routes[r]) + 1 .. n : ~Refused(wanted[i], known)
    PROVE  /\ Routed(r, wanted, n, known) \in Seq(ARoute)
           /\ Len(Routed(r, wanted, n, known)) = n
           /\ \A i \in 1..Len(routes[r]) : Routed(r, wanted, n, known)[i] = routes[r][i]
           /\ \A i \in Len(routes[r]) + 1 .. n :
                 LET route == Routed(r, wanted, n, known)[i] IN
                 /\ route \in Routes(settings, wanted[i].model, known)
                 /\ AcceptsConfig(route, wanted[i].config)
<1> DEFINE k == Len(routes[r])
           choice(i) == CHOOSE route \in Routes(settings, wanted[k + i].model, known) : TRUE
           rest == [i \in 1 .. n - k |-> choice(i)]
<1>1. k \in Nat /\ Len(wanted) \in Nat /\ n \in Nat /\ k <= n /\ n - k \in Nat
  BY LenProperties
<1>2. ASSUME NEW i \in 1 .. n - k
      PROVE  /\ choice(i) \in Routes(settings, wanted[k + i].model, known)
             /\ AcceptsConfig(choice(i), wanted[k + i].config)
             /\ choice(i) \in ARoute
  <2>1. k + i \in k + 1 .. n /\ k + i \in 1 .. Len(wanted)
    BY <1>1
  <2>2. PICK route \in Routes(settings, wanted[k + i].model, known) :
            AcceptsConfig(route, wanted[k + i].config)
    BY <2>1 DEF Refused
  <2>3. choice(i) \in Routes(settings, wanted[k + i].model, known)
    BY <2>2
  <2>4. choice(i) = route
    BY <2>2, <2>3, OneRoute
  <2>5. wanted[k + i] \in Item
    BY <2>1
  <2>6. choice(i) \in ARoute
    BY <2>3, RoutesAreTyped
  <2>7. QED
    BY <2>2, <2>3, <2>4, <2>6
<1>3. rest \in Seq(ARoute) /\ Len(rest) = n - k /\ \A i \in 1 .. n - k : rest[i] = choice(i)
  <2>1. rest \in [1 .. n - k -> ARoute] /\ \A i \in 1 .. n - k : rest[i] = choice(i)
    BY <1>2
  <2> HIDE DEF rest, choice
  <2>2. QED
    BY <1>1, <2>1, SegmentIsSeq
<1> HIDE DEF rest, choice
<1>4. Routed(r, wanted, n, known) = routes[r] \o rest
  BY DEF Routed, rest, choice
<1>5. /\ routes[r] \o rest \in Seq(ARoute) /\ Len(routes[r] \o rest) = n
      /\ \A i \in 1..k : (routes[r] \o rest)[i] = routes[r][i]
      /\ \A i \in k + 1 .. n : (routes[r] \o rest)[i] = rest[i - k]
  BY <1>1, <1>3, ConcatProperties
<1>6. \A i \in k + 1 .. n : i - k \in 1 .. n - k /\ k + (i - k) = i
  BY <1>1
<1>7. \A i \in k + 1 .. n :
          /\ rest[i - k] \in Routes(settings, wanted[i].model, known)
          /\ AcceptsConfig(rest[i - k], wanted[i].config)
  BY <1>2, <1>3, <1>6
<1>8. QED
  BY <1>4, <1>5, <1>7

\* Where a reader is after it went on to its next await, and its routes: it
\* queues only at an item that is not local of a deployment with TypeSafe's
\* key, and used hosted names only if they were fresh or refreshed.  It ends at
\* an item that was refused by what it knew then.
Moved(r, wanted, known, fresh, refreshed, where, way) ==
    /\ at' = [at EXCEPT ![r] = where] /\ routes' = [routes EXCEPT ![r] = way]
    /\ where \in {"queued", "listed", "routed", "invalid"}
    /\ way \in Seq(ARoute) /\ Len(routes[r]) <= Len(way) /\ Len(way) <= Len(wanted)
    /\ \A i \in 1..Len(routes[r]) : way[i] = routes[r][i]
    /\ \A i \in Len(routes[r]) + 1 .. Len(way) :
          /\ way[i] \in Routes(settings, wanted[i].model, known)
          /\ AcceptsConfig(way[i], wanted[i].config)
          /\ wanted[i].model \notin LocalNames => (HostedEnabled => fresh \/ refreshed)
    /\ where = "queued" =>
          /\ HostedEnabled
          /\ wanted # <<>> => Len(way) < Len(wanted) /\ wanted[Len(way) + 1].model \notin LocalNames
    /\ where = "routed" => Len(way) = Len(wanted)
    /\ where = "listed" => wanted = <<>> /\ (HostedEnabled => fresh \/ refreshed)
    /\ where = "invalid" =>
          /\ Len(way) < Len(wanted) /\ Refused(wanted[Len(way) + 1], known)
          /\ wanted[Len(way) + 1].model \notin LocalNames => (HostedEnabled => fresh \/ refreshed)

LEMMA ProceedMoves ==
    ASSUME NEW r \in Readers, NEW wanted \in Seq(Item), NEW known, NEW fresh, NEW refreshed,
           known \subseteq HostedNames, routes \in [Readers -> Seq(ARoute)],
           Len(routes[r]) <= Len(wanted),
           Proceed(r, wanted, known, fresh, refreshed)
    PROVE  \E where, way : Moved(r, wanted, known, fresh, refreshed, where, way)
<1> DEFINE k == Len(routes[r])
           stops == Stops(r, wanted, known, fresh, refreshed)
<1>1. k \in Nat /\ Len(wanted) \in Nat /\ routes[r] \in Seq(ARoute)
  BY LenProperties
<1>2. CASE wanted = <<>>
  <2>1. PICK where \in {"queued", "listed"} :
            /\ at' = [at EXCEPT ![r] = where]
            /\ where = "queued" <=> Stale(r, 1, fresh, refreshed)
    BY <1>2 DEF Proceed
  <2>2. routes' = [routes EXCEPT ![r] = routes[r]]
    BY <1>2 DEF Proceed
  <2>3. where = "queued" => HostedEnabled
    BY <2>1 DEF Stale
  <2>4. where = "listed" => (HostedEnabled => fresh \/ refreshed)
    BY <2>1 DEF Stale
  <2>5. \A i \in k + 1 .. k : FALSE
    BY <1>1
  <2>6. Moved(r, wanted, known, fresh, refreshed, where, routes[r])
    BY <1>1, <1>2, <2>1, <2>2, <2>3, <2>4, <2>5 DEF Moved
  <2>7. QED
    BY <2>6
\* The items before the first stop get their routes.
<1>3. ASSUME NEW n \in k .. Len(wanted), \A i \in k + 1 .. n : i \notin stops
      PROVE  /\ Routed(r, wanted, n, known) \in Seq(ARoute)
             /\ Len(Routed(r, wanted, n, known)) = n
             /\ \A i \in 1..k : Routed(r, wanted, n, known)[i] = routes[r][i]
             /\ \A i \in k + 1 .. n :
                   LET route == Routed(r, wanted, n, known)[i] IN
                   /\ route \in Routes(settings, wanted[i].model, known)
                   /\ AcceptsConfig(route, wanted[i].config)
                   /\ wanted[i].model \notin LocalNames => (HostedEnabled => fresh \/ refreshed)
  <2>1. \A i \in k + 1 .. n : /\ ~Refused(wanted[i], known)
                              /\ ~Awaits(r, wanted, i, fresh, refreshed)
    BY <1>1, <1>3 DEF Stops
  <2>2. \A i \in k + 1 .. n :
            wanted[i].model \notin LocalNames => (HostedEnabled => fresh \/ refreshed)
    BY <2>1 DEF Awaits, Stale
  <2>3. QED
    BY <1>1, <2>1, <2>2, RoutedValue
<1>4. CASE wanted # <<>> /\ stops = {}
  <2> DEFINE way == Routed(r, wanted, Len(wanted), known)
  <2>1. at' = [at EXCEPT ![r] = "routed"] /\ routes' = [routes EXCEPT ![r] = way]
    BY <1>4 DEF Proceed
  <2>2. Len(wanted) \in k .. Len(wanted) /\ \A i \in k + 1 .. Len(wanted) : i \notin stops
    BY <1>1, <1>4
  <2> HIDE DEF stops
  <2>3. /\ way \in Seq(ARoute) /\ Len(way) = Len(wanted)
        /\ \A i \in 1..k : way[i] = routes[r][i]
        /\ \A i \in k + 1 .. Len(wanted) :
              /\ way[i] \in Routes(settings, wanted[i].model, known)
              /\ AcceptsConfig(way[i], wanted[i].config)
              /\ wanted[i].model \notin LocalNames => (HostedEnabled => fresh \/ refreshed)
    BY <1>3, <2>2
  <2> HIDE DEF way
  <2>4. Moved(r, wanted, known, fresh, refreshed, "routed", way)
    BY <1>1, <2>1, <2>3 DEF Moved
  <2>5. QED
    BY <2>4
<1>5. CASE wanted # <<>> /\ stops # {}
  <2>1. PICK i \in stops :
            /\ \A j \in stops : i <= j
            /\ at' = [at EXCEPT ![r] =
                  IF Awaits(r, wanted, i, fresh, refreshed) THEN "queued" ELSE "invalid"]
            /\ routes' = [routes EXCEPT ![r] = Routed(r, wanted, i - 1, known)]
    BY <1>5 DEF Proceed
  <2> DEFINE where == IF Awaits(r, wanted, i, fresh, refreshed) THEN "queued" ELSE "invalid"
             way == Routed(r, wanted, i - 1, known)
  <2>2. i \in k + 1 .. Len(wanted)
    BY DEF Stops
  <2>3. i - 1 \in k .. Len(wanted) /\ \A j \in k + 1 .. i - 1 : j \notin stops
    BY <1>1, <2>1, <2>2
  <2> HIDE DEF stops
  <2>4. /\ way \in Seq(ARoute) /\ Len(way) = i - 1
        /\ \A j \in 1..k : way[j] = routes[r][j]
        /\ \A j \in k + 1 .. i - 1 :
              /\ way[j] \in Routes(settings, wanted[j].model, known)
              /\ AcceptsConfig(way[j], wanted[j].config)
              /\ wanted[j].model \notin LocalNames => (HostedEnabled => fresh \/ refreshed)
    BY <1>3, <2>3
  <2>5. where = "queued" => HostedEnabled /\ wanted[i].model \notin LocalNames
    BY DEF Awaits, Stale
  <2>6. at' = [at EXCEPT ![r] = where] /\ routes' = [routes EXCEPT ![r] = way]
    BY <2>1
  <2>7. where \in {"queued", "invalid"}
    OBVIOUS
  <2>8. where = "invalid" =>
            /\ Refused(wanted[i], known)
            /\ wanted[i].model \notin LocalNames => (HostedEnabled => fresh \/ refreshed)
    BY DEF stops, Stops, Awaits, Stale
  <2> HIDE DEF where, way
  <2>9. k <= Len(way) /\ Len(way) < Len(wanted) /\ Len(way) + 1 = i
    BY <1>1, <2>2, <2>4
  <2>10. Moved(r, wanted, known, fresh, refreshed, where, way)
    BY <1>1, <2>4, <2>5, <2>6, <2>7, <2>8, <2>9 DEF Moved
  <2>11. QED
    BY <2>10
<1>6. QED
  BY <1>2, <1>4, <1>5

-----------------------------------------------------------------------------
(* The steps *)

\* Call, FindsItFresh and RefreshSucceeds go on in the same way, from a state in
\* which the reader is at an item of its own.
GoesOn(r, wanted, known, fresh, refreshed) ==
    /\ wanted \in Seq(Item) /\ wanted \in Wanted \cup {<<>>} /\ known \subseteq HostedNames
    /\ items' = [items EXCEPT ![r] = wanted]
    /\ at[r] # "new" => wanted = items[r]
    /\ \E where, way : Moved(r, wanted, known, fresh, refreshed, where, way)

LEMMA StepsGoOn ==
    ASSUME CatalogInv, NEW r \in Readers
    PROVE  /\ \A f \in Wanted : Call(r, f) => GoesOn(r, f, hosted, clock < expiresAt, FALSE)
           /\ FindsItFresh(r) => GoesOn(r, items[r], hosted, TRUE, TRUE)
           /\ RefreshSucceeds(r) => GoesOn(r, items[r], Kept, clock < Expiry, TRUE)
<1> USE CatalogAssumption
<1>1. TypeOK /\ RouteInv
  BY DEF CatalogInv
<1>2. routes \in [Readers -> Seq(ARoute)] /\ Len(routes[r]) <= Len(items[r])
  BY <1>1 DEF TypeOK, ARoute, Providers
<1>3. \A f \in Wanted \cup {<<>>} : f \in Seq(Item)
  <2>1. <<>> \in Seq(Item)
    OBVIOUS
  <2>2. \A f \in Wanted : f \in Seq(Item)
    BY DEF Item
  <2>3. QED
    BY <2>1, <2>2
<1>4. items \in [Readers -> Wanted \cup {<<>>}] /\ items[r] \in Seq(Item)
  BY <1>1, <1>3 DEF TypeOK
<1>5. hosted \subseteq HostedNames /\ Kept \subseteq HostedNames
  BY <1>1 DEF TypeOK, Kept
<1>6. ASSUME NEW f \in Wanted, Call(r, f)
      PROVE  GoesOn(r, f, hosted, clock < expiresAt, FALSE)
  <2>1. at[r] = "new" /\ items' = [items EXCEPT ![r] = f]
        /\ Proceed(r, f, hosted, clock < expiresAt, FALSE)
    BY <1>6 DEF Call
  <2>2. Len(routes[r]) <= Len(f)
    BY <1>1, <1>3, <2>1, LenProperties DEF RouteInv
  <2>3. \E where, way : Moved(r, f, hosted, clock < expiresAt, FALSE, where, way)
    BY <1>2, <1>3, <1>5, <2>1, <2>2, ProceedMoves
  <2>4. QED
    BY <1>3, <1>5, <2>1, <2>3 DEF GoesOn
<1>7. ASSUME FindsItFresh(r) PROVE GoesOn(r, items[r], hosted, TRUE, TRUE)
  <2>1. items' = items /\ Proceed(r, items[r], hosted, TRUE, TRUE)
    BY <1>7 DEF FindsItFresh
  <2>2. \E where, way : Moved(r, items[r], hosted, TRUE, TRUE, where, way)
    BY <1>2, <1>4, <1>5, <2>1, ProceedMoves
  <2>3. items' = [items EXCEPT ![r] = items[r]]
    BY <1>4, <2>1
  <2>4. QED
    BY <1>4, <1>5, <2>2, <2>3 DEF GoesOn
<1>8. ASSUME RefreshSucceeds(r) PROVE GoesOn(r, items[r], Kept, clock < Expiry, TRUE)
  <2>1. items' = items /\ Proceed(r, items[r], Kept, clock < Expiry, TRUE)
    BY <1>8 DEF RefreshSucceeds
  <2>2. \E where, way : Moved(r, items[r], Kept, clock < Expiry, TRUE, where, way)
    BY <1>2, <1>4, <1>5, <2>1, ProceedMoves
  <2>3. items' = [items EXCEPT ![r] = items[r]]
    BY <1>4, <2>1
  <2>4. QED
    BY <1>4, <1>5, <2>2, <2>3 DEF GoesOn
<1>9. QED
  BY <1>6, <1>7, <1>8

\* Whoever goes on keeps the types of the readers, waits only with TypeSafe's
\* key and not for the lock it had, and has good routes.
LEMMA GoesOnKeeps ==
    ASSUME CatalogInv, settings' = settings, NEW r \in Readers,
           NEW wanted, NEW known, NEW fresh, NEW refreshed,
           GoesOn(r, wanted, known, fresh, refreshed)
    PROVE  /\ at' \in [Readers -> Waiting \cup {"new", "listed", "routed", "invalid",
                                             "unavailable", "cancelled"}]
           /\ items' \in [Readers -> Wanted \cup {<<>>}]
           /\ routes' \in [Readers -> Seq(ARoute)]
           /\ \A s \in Readers : Len(routes'[s]) <= Len(items'[s])
           /\ at'[r] # "asking"
           /\ \A s \in Readers \ {r} : at'[s] = at[s]
           /\ \A s \in Readers : at'[s] \in Waiting => HostedEnabled
           /\ RouteInv'
<1>1. TypeOK /\ LockInv /\ RouteInv
  BY DEF CatalogInv
<1>2. /\ routes \in [Readers -> Seq(ARoute)] /\ items \in [Readers -> Wanted \cup {<<>>}]
      /\ at \in [Readers -> Waiting \cup {"new", "listed", "routed", "invalid",
                                         "unavailable", "cancelled"}]
      /\ \A s \in Readers : Len(routes[s]) <= Len(items[s])
  BY <1>1 DEF TypeOK, ARoute, Providers
<1>3. PICK where, way : Moved(r, wanted, known, fresh, refreshed, where, way)
  BY DEF GoesOn
<1>4. /\ wanted \in Seq(Item) /\ wanted \in Wanted \cup {<<>>}
      /\ items' = [items EXCEPT ![r] = wanted] /\ (at[r] # "new" => wanted = items[r])
  BY DEF GoesOn
<1>5. /\ at' = [at EXCEPT ![r] = where] /\ routes' = [routes EXCEPT ![r] = way]
      /\ where \in {"queued", "listed", "routed", "invalid"} /\ way \in Seq(ARoute)
      /\ Len(routes[r]) <= Len(way) /\ Len(way) <= Len(wanted)
      /\ \A i \in 1..Len(routes[r]) : way[i] = routes[r][i]
  BY <1>3 DEF Moved
<1>6. at'[r] = where /\ routes'[r] = way /\ items'[r] = wanted
  BY <1>2, <1>4, <1>5
<1>7. \A s \in Readers \ {r} : at'[s] = at[s] /\ routes'[s] = routes[s] /\ items'[s] = items[s]
  BY <1>2, <1>4, <1>5
<1>8. /\ at' \in [Readers -> Waiting \cup {"new", "listed", "routed", "invalid",
                                          "unavailable", "cancelled"}]
      /\ items' \in [Readers -> Wanted \cup {<<>>}] /\ routes' \in [Readers -> Seq(ARoute)]
  BY <1>2, <1>4, <1>5 DEF Waiting
<1>9. \A s \in Readers : Len(routes'[s]) <= Len(items'[s])
  BY <1>2, <1>5, <1>6, <1>7
<1>10. \A s \in Readers : at'[s] \in Waiting => HostedEnabled
  <2>1. where = "queued" => HostedEnabled
    BY <1>3 DEF Moved
  <2>2. QED
    BY <1>1, <1>5, <1>6, <1>7, <2>1 DEF LockInv, Waiting
<1>11. RouteInv'
  <2>1. Enabled(settings)' = Enabled(settings) /\ LocalNames' = LocalNames
    BY DEF LocalNames
  <2>2. ASSUME NEW i \in 1..Len(way)
        PROVE  /\ way[i].provider \in Enabled(settings)
               /\ AcceptsConfig(way[i], wanted[i].config)
               /\ way[i].provider = "clm" => wanted[i].model \in ClmEntries
    <3>1. CASE i \in 1..Len(routes[r])
      <4>1. at[r] # "new"
        BY <1>1, <3>1 DEF RouteInv
      <4>2. QED
        BY <1>1, <1>4, <1>5, <3>1, <4>1 DEF RouteInv
    <3>2. CASE i \in Len(routes[r]) + 1 .. Len(way)
      <4>1. way[i] \in Routes(settings, wanted[i].model, known) /\ AcceptsConfig(way[i], wanted[i].config)
        BY <1>3, <3>2 DEF Moved
      <4>2. QED
        BY <4>1, RouteServes
    <3>3. QED
      BY <1>2, <1>5, <3>1, <3>2, LenProperties
  <2>3. /\ where # "new" /\ where # "asking" /\ where # "unavailable"
        /\ where \in Waiting /\ wanted # <<>> =>
              Len(way) < Len(wanted) /\ wanted[Len(way) + 1].model \notin LocalNames
        /\ where = "routed" => Len(way) = Len(wanted)
    BY <1>3, <1>5 DEF Moved, Waiting
  <2>4. ASSUME NEW s \in Readers
        PROVE  /\ at'[s] = "new" => routes'[s] = <<>>
               /\ at'[s] \in Waiting \cup {"unavailable"} /\ items'[s] # <<>> =>
                     Len(routes'[s]) < Len(items'[s])
                     /\ items'[s][Len(routes'[s]) + 1].model \notin LocalNames
               /\ at'[s] = "routed" => Len(routes'[s]) = Len(items'[s])
               /\ \A i \in 1..Len(routes'[s]) :
                     /\ routes'[s][i].provider \in Enabled(settings)
                     /\ AcceptsConfig(routes'[s][i], items'[s][i].config)
                     /\ routes'[s][i].provider = "clm" => items'[s][i].model \in ClmEntries
    <3>1. CASE s = r
      BY <1>6, <2>2, <2>3, <3>1
    <3>2. CASE s # r
      BY <1>1, <1>7, <3>2 DEF RouteInv, AtItem
    <3>3. QED
      BY <3>1, <3>2
  <2>5. QED
    BY <2>1, <2>4 DEF RouteInv, AtItem, AcceptsConfig, Waiting
<1>12. QED
  BY <1>5, <1>6, <1>7, <1>8, <1>9, <1>10, <1>11

\* The lock, the holder's times and the hosted names stay typed.
LEMMA TypeStep ==
    ASSUME CatalogInv, Next
    PROVE  TypeOK'
<1> USE CatalogAssumption
<1>1. TypeOK /\ LockInv /\ RouteInv
  BY DEF CatalogInv
<1>2. settings' = settings
  BY DEF Next, Refreshing, FindsItFresh, Ask, RefreshSucceeds, RefreshFails, Cancel, Call,
         TypeSafeAnswers, Tick
<1>3. LocalNames' = LocalNames
  BY <1>2 DEF LocalNames
<1>4. ASSUME at' \in [Readers -> Waiting \cup {"new", "listed", "routed", "invalid",
                                            "unavailable", "cancelled"}],
             items' \in [Readers -> Wanted \cup {<<>>}], routes' \in [Readers -> Seq(ARoute)],
             \A s \in Readers : Len(routes'[s]) <= Len(items'[s]),
             /\ reply' \subseteq HostedNames /\ hosted' \subseteq HostedNames \ LocalNames
             /\ answered' \in BOOLEAN /\ expiresAt' \in 0..(MaxClock + TTL)
             /\ lock' \in Readers \cup {NoReader}
             /\ askedAt' \in 0..MaxClock /\ replyAt' \in 0..MaxClock /\ snapshotAt' \in 0..MaxClock
             /\ clock' \in 1..MaxClock /\ refreshes' \in Nat
      PROVE  TypeOK'
  BY <1>1, <1>2, <1>3, <1>4 DEF TypeOK, ARoute, Providers
<1>5. /\ at \in [Readers -> Waiting \cup {"new", "listed", "routed", "invalid",
                                         "unavailable", "cancelled"}]
      /\ items \in [Readers -> Wanted \cup {<<>>}] /\ routes \in [Readers -> Seq(ARoute)]
      /\ \A s \in Readers : Len(routes[s]) <= Len(items[s])
      /\ reply \subseteq HostedNames /\ hosted \subseteq HostedNames \ LocalNames
      /\ answered \in BOOLEAN /\ expiresAt \in 0..(MaxClock + TTL)
      /\ lock \in Readers \cup {NoReader}
      /\ askedAt \in 0..MaxClock /\ replyAt \in 0..MaxClock /\ snapshotAt \in 0..MaxClock
      /\ clock \in 1..MaxClock /\ refreshes \in Nat
  BY <1>1 DEF TypeOK, ARoute, Providers
<1>6. ASSUME NEW r \in Readers, NEW f \in Wanted, Call(r, f) PROVE TypeOK'
  BY <1>1, <1>2, <1>3, <1>4, <1>6, StepsGoOn, GoesOnKeeps DEF Call, TypeOK, replyVars, catalogVars
<1>7. ASSUME NEW r \in Readers, FindsItFresh(r) PROVE TypeOK'
  BY <1>1, <1>2, <1>3, <1>4, <1>7, StepsGoOn, GoesOnKeeps DEF FindsItFresh, TypeOK, replyVars, catalogVars
<1>8. ASSUME NEW r \in Readers, Ask(r) PROVE TypeOK'
  <2>1. at' \in [Readers -> Waiting \cup {"new", "listed", "routed", "invalid",
                                        "unavailable", "cancelled"}]
    BY <1>5, <1>8 DEF Ask, Waiting
  <2>2. lock' = r /\ askedAt' = clock /\ reply' = {} /\ answered' = FALSE /\ replyAt' = 0
    BY <1>8 DEF Ask
  <2>3. UNCHANGED <<settings, catalogVars, items, routes, clock>>
    BY <1>8 DEF Ask
  <2>4. askedAt' \in 0..MaxClock /\ replyAt' \in 0..MaxClock
    BY <1>5, <2>2
  <2>5. QED
    BY <1>4, <1>5, <2>1, <2>2, <2>3, <2>4 DEF catalogVars
<1>9. ASSUME NEW r \in Readers, RefreshSucceeds(r) PROVE TypeOK'
  <2>1. /\ hosted' \subseteq HostedNames \ LocalNames /\ reply' = reply /\ answered' = answered
        /\ snapshotAt' = replyAt /\ refreshes' = refreshes + 1 /\ lock' = NoReader /\ askedAt' = 0
        /\ replyAt' = replyAt /\ clock' = clock /\ expiresAt' = askedAt + TTL
    BY <1>5, <1>9 DEF RefreshSucceeds, Kept, Release, Expiry, replyVars
  <2>2. expiresAt' \in 0..(MaxClock + TTL) /\ refreshes' \in Nat /\ askedAt' \in 0..MaxClock
    BY <1>5, <2>1
  <2>3. GoesOn(r, items[r], Kept, clock < Expiry, TRUE)
    BY <1>9, StepsGoOn
  <2>4. /\ at' \in [Readers -> Waiting \cup {"new", "listed", "routed", "invalid",
                                           "unavailable", "cancelled"}]
        /\ items' \in [Readers -> Wanted \cup {<<>>}] /\ routes' \in [Readers -> Seq(ARoute)]
        /\ \A s \in Readers : Len(routes'[s]) <= Len(items'[s])
    BY <1>2, <2>3, GoesOnKeeps
  <2>5. QED
    BY <1>4, <1>5, <2>1, <2>2, <2>4
<1>10. ASSUME NEW r \in Readers, RefreshFails(r) \/ Cancel(r) PROVE TypeOK'
  <2>1. at' \in [Readers -> Waiting \cup {"new", "listed", "routed", "invalid",
                                        "unavailable", "cancelled"}]
    BY <1>5, <1>10 DEF RefreshFails, Cancel
  <2>2. lock' \in Readers \cup {NoReader} /\ askedAt' \in 0..MaxClock
    BY <1>1, <1>10 DEF RefreshFails, Cancel, Release, TypeOK
  <2>3. UNCHANGED <<settings, replyVars, catalogVars, items, routes, clock>>
    BY <1>10 DEF RefreshFails, Cancel
  <2>4. QED
    BY <1>1, <1>3, <1>4, <1>5, <2>1, <2>2, <2>3 DEF TypeOK, replyVars, catalogVars
<1>11. CASE TypeSafeAnswers
  <2>1. reply' \subseteq HostedNames /\ answered' \in BOOLEAN /\ replyAt' \in 0..MaxClock
    BY <1>5, <1>11 DEF TypeSafeAnswers, HostedNames
  <2>2. UNCHANGED <<settings, catalogVars, lock, askedAt, readerVars, clock>>
    BY <1>11 DEF TypeSafeAnswers
  <2>3. QED
    BY <1>4, <1>5, <2>1, <2>2 DEF catalogVars, readerVars
<1>12. CASE Tick
  <2>1. clock' \in 1..MaxClock
    BY <1>5, <1>12 DEF Tick
  <2>2. UNCHANGED <<settings, replyVars, catalogVars, lock, askedAt, readerVars>>
    BY <1>12 DEF Tick
  <2>3. QED
    BY <1>4, <1>5, <2>1, <2>2 DEF replyVars, catalogVars, readerVars
<1>13. QED
  BY <1>6, <1>7, <1>8, <1>9, <1>10, <1>11, <1>12 DEF Next, Refreshing

\* The lock stays with the one reader that asks.
LEMMA LockStep ==
    ASSUME CatalogInv, Next
    PROVE  LockInv'
<1> USE CatalogAssumption
<1>1. TypeOK /\ LockInv
  BY DEF CatalogInv
<1>2. settings' = settings
  BY DEF Next, Refreshing, FindsItFresh, Ask, RefreshSucceeds, RefreshFails, Cancel, Call,
         TypeSafeAnswers, Tick
<1>3. HostedEnabled' = HostedEnabled /\ Valid(settings)'
  BY <1>1, <1>2 DEF HostedEnabled, LockInv
<1>4. ASSUME NEW r \in Readers, NEW wanted, NEW known, NEW fresh, NEW refreshed,
             GoesOn(r, wanted, known, fresh, refreshed),
             (lock = r /\ lock' = NoReader) \/ (at[r] # "asking" /\ lock' = lock),
             hosted' # {} => HostedEnabled
      PROVE  LockInv'
  <2>1. /\ at'[r] # "asking" /\ (\A s \in Readers \ {r} : at'[s] = at[s])
        /\ \A s \in Readers : at'[s] \in Waiting => HostedEnabled
    BY <1>2, <1>4, GoesOnKeeps
  <2>2. \A s \in Readers : at'[s] = "asking" <=> lock' = s
    BY <1>1, <1>4, <2>1 DEF LockInv
  <2>3. QED
    BY <1>3, <1>4, <2>1, <2>2 DEF LockInv, Waiting
<1>5. ASSUME NEW r \in Readers, NEW f \in Wanted, Call(r, f) PROVE LockInv'
  BY <1>1, <1>4, <1>5, StepsGoOn DEF Call, LockInv, catalogVars
<1>6. ASSUME NEW r \in Readers, FindsItFresh(r) PROVE LockInv'
  BY <1>1, <1>4, <1>6, StepsGoOn DEF FindsItFresh, LockInv, catalogVars
<1>7. ASSUME NEW r \in Readers, RefreshSucceeds(r) PROVE LockInv'
  <2>1. at[r] = "asking" /\ lock' = NoReader
    BY <1>7 DEF RefreshSucceeds, Release
  <2>2. lock = r /\ HostedEnabled
    BY <1>1, <2>1 DEF LockInv, Waiting
  <2>3. QED
    BY <1>4, <1>7, <2>1, <2>2, StepsGoOn
<1>8. ASSUME NEW r \in Readers, Ask(r) PROVE LockInv'
  BY <1>1, <1>3, <1>8 DEF Ask, LockInv, TypeOK, Waiting, catalogVars
<1>9. ASSUME NEW r \in Readers, RefreshFails(r) \/ Cancel(r) PROVE LockInv'
  <2>1. at' = [at EXCEPT ![r] = "unavailable"] \/ at' = [at EXCEPT ![r] = "cancelled"]
    BY <1>9 DEF RefreshFails, Cancel
  <2>2. (lock = r /\ lock' = NoReader) \/ (lock # r /\ lock' = lock)
    BY <1>1, <1>9 DEF RefreshFails, Cancel, Release, LockInv
  <2>3. hosted' = hosted
    BY <1>9 DEF RefreshFails, Cancel, catalogVars
  <2>4. QED
    BY <1>1, <1>3, <2>1, <2>2, <2>3 DEF LockInv, TypeOK, Waiting
<1>10. CASE TypeSafeAnswers \/ Tick
  BY <1>1, <1>3, <1>10 DEF TypeSafeAnswers, Tick, LockInv, catalogVars, readerVars, Waiting
<1>11. QED
  BY <1>5, <1>6, <1>7, <1>8, <1>9, <1>10 DEF Next, Refreshing

\* A refresh moves the expiry on by a lifetime at least.
LEMMA TimeStep ==
    ASSUME CatalogInv, Next
    PROVE  TimeInv'
<1> USE CatalogAssumption
<1>1. LockInv /\ TimeInv
  BY DEF CatalogInv
<1>2. /\ TTL \in Nat /\ clock \in Nat /\ 1 <= clock /\ refreshes \in Nat
      /\ expiresAt \in Nat /\ askedAt \in Nat /\ replyAt \in Nat /\ snapshotAt \in Nat
  BY DEF CatalogInv, TypeOK
<1>3. ASSUME UNCHANGED <<catalogVars, replyVars, clock>>,
             UNCHANGED <<lock, askedAt>> \/ lock' = NoReader
      PROVE  TimeInv'
  BY <1>1, <1>3 DEF TimeInv, catalogVars, replyVars
<1>4. ASSUME NEW r \in Readers, FindsItFresh(r) \/ \E f \in Wanted : Call(r, f) PROVE TimeInv'
  BY <1>3, <1>4 DEF FindsItFresh, Call
<1>5. ASSUME NEW r \in Readers, RefreshFails(r) \/ Cancel(r) PROVE TimeInv'
  BY <1>3, <1>5 DEF RefreshFails, Cancel, Release
<1>6. ASSUME NEW r \in Readers, Ask(r) PROVE TimeInv'
  <2>1. /\ lock' = r /\ askedAt' = clock /\ answered' = FALSE /\ clock >= expiresAt
        /\ UNCHANGED <<catalogVars, clock>>
    BY <1>6 DEF Ask, StillExpired
  <2>2. QED
    BY <1>1, <1>2, <2>1 DEF TimeInv, catalogVars
<1>7. ASSUME NEW r \in Readers, RefreshSucceeds(r) PROVE TimeInv'
  <2>1. /\ at[r] = "asking" /\ answered /\ expiresAt' = askedAt + TTL /\ snapshotAt' = replyAt
        /\ refreshes' = refreshes + 1 /\ lock' = NoReader /\ clock' = clock
    BY <1>7 DEF RefreshSucceeds, Release, Expiry
  <2>2. lock = r /\ lock # NoReader
    BY <1>1, <2>1 DEF LockInv
  <2>3. 1 <= askedAt /\ askedAt <= clock /\ expiresAt <= askedAt /\ askedAt <= replyAt
    BY <1>1, <2>1, <2>2 DEF TimeInv
  <2>4. expiresAt' >= refreshes' * TTL + 1
    <3>1. CASE refreshes = 0
      BY <1>2, <2>1, <2>3, <3>1
    <3>2. CASE refreshes > 0
      <4>1. expiresAt >= refreshes * TTL + 1
        BY <1>1, <3>2 DEF TimeInv
      <4>2. (refreshes + 1) * TTL = refreshes * TTL + TTL /\ refreshes * TTL \in Nat
        BY <1>2
      <4>3. QED
        BY <1>2, <2>1, <2>3, <4>1, <4>2
    <3>3. QED
      BY <1>2, <3>1, <3>2
  <2>5. expiresAt' <= clock' + TTL /\ expiresAt' <= snapshotAt' + TTL
    BY <1>2, <2>1, <2>3
  <2>6. refreshes' # 0
    BY <1>2, <2>1
  <2>7. QED
    BY <2>1, <2>4, <2>5, <2>6 DEF TimeInv
<1>8. CASE TypeSafeAnswers
  <2>1. lock # NoReader /\ replyAt' = clock /\ UNCHANGED <<catalogVars, lock, askedAt, clock>>
    BY <1>8 DEF TypeSafeAnswers
  <2>2. QED
    BY <1>1, <1>2, <2>1 DEF TimeInv, catalogVars
<1>9. CASE Tick
  <2>1. clock' = clock + 1 /\ UNCHANGED <<replyVars, catalogVars, lock, askedAt>>
    BY <1>9 DEF Tick
  <2>2. QED
    BY <1>1, <1>2, <2>1 DEF TimeInv, catalogVars, replyVars
<1>10. QED
  BY <1>4, <1>5, <1>6, <1>7, <1>8, <1>9 DEF Next, Refreshing

\* A reader that waits keeps its item; its routes stay good.
LEMMA RouteStep ==
    ASSUME CatalogInv, Next
    PROVE  RouteInv'
<1>1. RouteInv /\ at \in [Readers -> Waiting \cup {"new", "listed", "routed", "invalid",
                                                  "unavailable", "cancelled"}]
  BY DEF CatalogInv, TypeOK
<1>2. settings' = settings
  BY DEF Next, Refreshing, FindsItFresh, Ask, RefreshSucceeds, RefreshFails, Cancel, Call,
         TypeSafeAnswers, Tick
<1>3. ASSUME NEW r \in Readers, NEW f \in Wanted, Call(r, f) PROVE RouteInv'
  BY <1>2, <1>3, StepsGoOn, GoesOnKeeps
<1>4. ASSUME NEW r \in Readers, FindsItFresh(r) \/ RefreshSucceeds(r) PROVE RouteInv'
  BY <1>2, <1>4, StepsGoOn, GoesOnKeeps
<1>5. ASSUME UNCHANGED <<items, routes>>, NEW r \in Readers, NEW where,
             at' = [at EXCEPT ![r] = where],
             where # "new" /\ where # "routed",
             where \in Waiting \cup {"unavailable"} => at[r] \in Waiting
      PROVE  RouteInv'
  <2>1. Enabled(settings)' = Enabled(settings) /\ LocalNames' = LocalNames
    BY <1>2 DEF LocalNames
  <2>2. \A s \in Readers : at'[s] = IF s = r THEN where ELSE at[s]
    BY <1>1, <1>5
  <2>3. QED
    BY <1>1, <1>5, <2>1, <2>2 DEF RouteInv, AtItem, AcceptsConfig, Waiting
<1>6. ASSUME NEW r \in Readers, Ask(r) PROVE RouteInv'
  BY <1>5, <1>6 DEF Ask, Waiting
<1>7. ASSUME NEW r \in Readers, RefreshFails(r) PROVE RouteInv'
  BY <1>5, <1>7 DEF RefreshFails, Waiting
<1>8. ASSUME NEW r \in Readers, Cancel(r) PROVE RouteInv'
  BY <1>5, <1>8 DEF Cancel, Waiting
<1>9. CASE TypeSafeAnswers \/ Tick
  <2>1. UNCHANGED <<at, items, routes>>
    BY <1>9 DEF TypeSafeAnswers, Tick, readerVars
  <2>2. Enabled(settings)' = Enabled(settings) /\ LocalNames' = LocalNames
    BY <1>2 DEF LocalNames
  <2>3. QED
    BY <1>1, <2>1, <2>2 DEF RouteInv, AtItem, AcceptsConfig, Waiting
<1>10. QED
  BY <1>3, <1>4, <1>6, <1>7, <1>8, <1>9 DEF Next, Refreshing

\* The invariant of the catalog is inductive.
THEOREM CatalogInductive == CatalogInv /\ [Next]_vars => CatalogInv'
<1> SUFFICES ASSUME CatalogInv, [Next]_vars PROVE CatalogInv'
  OBVIOUS
<1>1. CASE Next
  BY <1>1, TypeStep, LockStep, TimeStep, RouteStep DEF CatalogInv
<1>2. CASE UNCHANGED vars
  <2> USE DEF vars, replyVars, catalogVars, readerVars
  <2>1. LocalNames' = LocalNames /\ HostedEnabled' = HostedEnabled
    BY <1>2 DEF LocalNames, HostedEnabled
  <2>2. TypeOK'
    BY <1>2, <2>1 DEF CatalogInv, TypeOK, Waiting
  <2>3. LockInv' /\ TimeInv'
    BY <1>2, <2>1 DEF CatalogInv, LockInv, TimeInv, Waiting
  <2>4. RouteInv'
    BY <1>2, <2>1 DEF CatalogInv, RouteInv, AtItem, AcceptsConfig, Waiting
  <2>5. QED
    BY <2>2, <2>3, <2>4 DEF CatalogInv
<1>3. QED
  BY <1>1, <1>2

LEMMA CatalogInvariant == Spec => []CatalogInv
  BY InitCatalogInv, CatalogInductive, PTL DEF Spec

-----------------------------------------------------------------------------
(* The properties *)

\* However many readers queue, TypeSafe is asked once a lifetime.
THEOREM OneRefreshPerTTLHolds == Spec => []OneRefreshPerTTL
<1>1. CatalogInv => OneRefreshPerTTL
  <2> SUFFICES ASSUME CatalogInv, refreshes > 0 PROVE (refreshes - 1) * TTL < clock
    BY DEF OneRefreshPerTTL
  <2>1. TTL \in Nat /\ clock \in Nat /\ refreshes \in Nat /\ expiresAt \in Nat
    BY CatalogAssumption DEF CatalogInv, TypeOK
  <2>2. refreshes * TTL + 1 <= expiresAt /\ expiresAt <= clock + TTL
    BY <2>1 DEF CatalogInv, TimeInv
  <2>3. (refreshes - 1) * TTL = refreshes * TTL - TTL /\ refreshes * TTL \in Nat
    BY <2>1
  <2>4. QED
    BY <2>1, <2>2, <2>3
<1>2. QED
  BY CatalogInvariant, <1>1, PTL

\* No reader waits for TypeSafe, or fails because of it, at a local name.
THEOREM LocalNeedsNoTypeSafeHolds == Spec => []LocalNeedsNoTypeSafe
<1>1. CatalogInv => LocalNeedsNoTypeSafe
  BY DEF CatalogInv, RouteInv, AtItem, LocalNeedsNoTypeSafe
<1>2. QED
  BY CatalogInvariant, <1>1, PTL

\* What the catalog lists is what is accepted, under a name that leads back.
THEOREM ListsWhatItAcceptsHolds == Spec => []ListsWhatItAccepts
<1>1. CatalogInv => ListsWhatItAccepts
  <2> SUFFICES ASSUME CatalogInv PROVE ListsWhatItAccepts
    OBVIOUS
  <2> DEFINE Listed == LocalNames \cup hosted
             To(name) == Routes(settings, name, hosted)
  <2>1. hosted # {} => "jev" \in Enabled(settings)
    BY DEF CatalogInv, LockInv, HostedEnabled
  <2>2. ASSUME NEW name PROVE name \in Listed <=> To(name) # {}
    <3>1. name \in LocalNames <=> LocalRoutes(settings, name) # {}
      BY ListedIsRouted DEF LocalNames
    <3>2. QED
      BY <2>1, <3>1 DEF Routes
  <2>3. ASSUME NEW name \in Listed
        PROVE  \E route \in To(name) :
                 /\ To(name) = {route} /\ To(route.public) = {route}
                 /\ route.provider \in Enabled(settings)
                 /\ route.provider = "jev" <=> name \notin LocalNames
    <3>1. PICK route \in To(name) : TRUE
      BY <2>2
    <3>2. To(name) = {route}
      BY <3>1, OneRoute
    <3>3. To(route.public) = {route}
      BY <3>1, PublicNameLeadsBack
    <3>4. route.provider \in Enabled(settings) /\ (route.provider = "jev" <=> name \notin LocalNames)
      BY <3>1, RouteServes DEF LocalNames
    <3>5. QED
      BY <3>2, <3>3, <3>4
  <2>4. QED
    BY <2>2, <2>3 DEF ListsWhatItAccepts
<1>2. QED
  BY CatalogInvariant, <1>1, PTL

\* The names a reader uses are recent, or were asked for by itself.
THEOREM UsesRecentNamesHolds == Spec => UsesRecentNames
<1> DEFINE Recent(r) == IF at[r] = "asking" THEN snapshotAt' >= askedAt
                        ELSE clock < snapshotAt + TTL
<1>1. ASSUME CatalogInv, [Next]_vars, NEW r \in Readers, HostedEnabled, UsesHosted(r)
      PROVE  Recent(r)
  <2>1. /\ TypeOK /\ LockInv /\ TimeInv
        /\ at \in [Readers -> Waiting \cup {"new", "listed", "routed", "invalid",
                                           "unavailable", "cancelled"}]
        /\ routes \in [Readers -> Seq(ARoute)]
    BY <1>1 DEF CatalogInv, TypeOK, ARoute, Providers
  <2>2. TTL \in Nat /\ clock \in Nat /\ expiresAt \in Nat /\ snapshotAt \in Nat
        /\ askedAt \in Nat /\ replyAt \in Nat /\ Len(routes[r]) \in Nat
    BY <2>1, CatalogAssumption, LenProperties DEF TypeOK
  \* The reader that goes on is r; it lists the models or comes to a hosted name.
  <2>3. ASSUME NEW q \in Readers, NEW wanted, NEW known, NEW where, NEW way,
               at' = [at EXCEPT ![q] = where], routes' = [routes EXCEPT ![q] = way],
               \A i \in Len(routes[q]) + 1 .. Len(way) :
                   way[i] \in Routes(settings, wanted[i].model, known)
        PROVE  /\ q = r
               /\ \/ where = "listed"
                  \/ \E i \in Len(routes[q]) + 1 .. Len(way) : wanted[i].model \notin LocalNames
    <3>1. q = r
      <4>1. ASSUME q # r PROVE at'[r] = at[r] /\ routes'[r] = routes[r]
        BY <2>1, <2>3, <4>1
      <4>2. \A i \in Len(routes[r]) + 1 .. Len(routes[r]) : FALSE
        BY <2>2
      <4>3. QED
        BY <1>1, <4>1, <4>2 DEF UsesHosted
    <3>2. at'[r] = where /\ routes'[r] = way
      BY <2>1, <2>3, <3>1
    <3>3. ASSUME where # "listed"
          PROVE  \E i \in Len(routes[q]) + 1 .. Len(way) : wanted[i].model \notin LocalNames
      <4>1. PICK i \in Len(routes[r]) + 1 .. Len(way) : way[i].provider = "jev"
        BY <1>1, <3>2, <3>3 DEF UsesHosted
      <4>2. wanted[i].model \notin LocalNames
        BY <2>3, <3>1, <4>1, RouteServes DEF LocalNames
      <4>3. QED
        BY <3>1, <4>2
    <3>4. QED
      BY <3>1, <3>3
  <2>4. ASSUME NEW q \in Readers, NEW f \in Wanted, Call(q, f) PROVE Recent(r)
    <3>1. PICK where, way : Moved(q, f, hosted, clock < expiresAt, FALSE, where, way)
      BY <1>1, <2>4, StepsGoOn DEF GoesOn
    <3>2. q = r /\ (where = "listed" \/
            \E i \in Len(routes[q]) + 1 .. Len(way) : f[i].model \notin LocalNames)
      BY <2>3, <3>1 DEF Moved
    <3>3. clock < expiresAt
      BY <1>1, <3>1, <3>2 DEF Moved
    <3>4. at[q] = "new"
      BY <2>4 DEF Call
    <3>5. QED
      BY <2>1, <2>2, <3>2, <3>3, <3>4 DEF TimeInv
  <2>5. ASSUME NEW q \in Readers, FindsItFresh(q) PROVE Recent(r)
    <3>1. PICK where, way : Moved(q, items[q], hosted, TRUE, TRUE, where, way)
      BY <1>1, <2>5, StepsGoOn DEF GoesOn
    <3>2. q = r
      BY <2>3, <3>1 DEF Moved
    <3>3. ~(clock >= expiresAt) /\ at[q] = "queued"
      BY <2>5 DEF FindsItFresh, StillExpired
    <3>4. QED
      BY <2>1, <2>2, <3>2, <3>3 DEF TimeInv
  <2>6. ASSUME NEW q \in Readers, RefreshSucceeds(q) PROVE Recent(r)
    <3>1. PICK where, way : Moved(q, items[q], Kept, clock < Expiry, TRUE, where, way)
      BY <1>1, <2>6, StepsGoOn DEF GoesOn
    <3>2. q = r
      BY <2>3, <3>1 DEF Moved
    <3>3. at[r] = "asking" /\ answered /\ snapshotAt' = replyAt
      BY <2>6, <3>2 DEF RefreshSucceeds
    <3>4. lock = r /\ lock # NoReader
      BY <2>1, <3>3, CatalogAssumption DEF LockInv
    <3>5. QED
      BY <2>1, <2>2, <3>3, <3>4 DEF TimeInv
  <2>7. ASSUME NEW q \in Readers, Ask(q) \/ RefreshFails(q) \/ Cancel(q) PROVE FALSE
    <3>1. routes' = routes /\ \E where \in {"asking", "unavailable", "cancelled"} :
                                 at' = [at EXCEPT ![q] = where]
      BY <2>7 DEF Ask, RefreshFails, Cancel
    <3>2. at'[r] = "listed" => at[r] = "listed"
      BY <2>1, <3>1
    <3>3. \A i \in Len(routes[r]) + 1 .. Len(routes[r]) : FALSE
      BY <2>2
    <3>4. QED
      BY <1>1, <3>1, <3>2, <3>3 DEF UsesHosted
  <2>8. ASSUME TypeSafeAnswers \/ Tick \/ UNCHANGED vars PROVE FALSE
    <3>1. routes' = routes /\ at' = at
      BY <2>8 DEF TypeSafeAnswers, Tick, vars, readerVars
    <3>2. \A i \in Len(routes[r]) + 1 .. Len(routes[r]) : FALSE
      BY <2>2
    <3>3. QED
      BY <1>1, <3>1, <3>2 DEF UsesHosted
  <2>9. QED
    BY <1>1, <2>4, <2>5, <2>6, <2>7, <2>8 DEF Next, Refreshing
<1>2. CatalogInv /\ [Next]_vars =>
        [\A r \in Readers : HostedEnabled /\ UsesHosted(r) => Recent(r)]_vars
  BY <1>1
<1>3. QED
  BY CatalogInvariant, <1>2, PTL DEF Spec, UsesRecentNames
=============================================================================
