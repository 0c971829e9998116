--------------------------- MODULE RequestsProofs ---------------------------
(***************************************************************************)
(* Proofs about requests, for any readers, kinds of request, deployments   *)
(* and catalogs: what is proved of the readers of the catalog holds of the *)
(* requests, no provider hears of a request that was not checked, and who  *)
(* is told to be at fault is.                                              *)
(***************************************************************************)
EXTENDS RequestsProperties, HostedCatalogProofs, FiniteSetTheorems

\* Every step of a request is a step of the reader it is, or leaves it alone.
LEMMA StepsOfReaders == RequestsNext => [Next]_vars
<1> SUFFICES ASSUME RequestsNext PROVE [Next]_vars
  OBVIOUS
<1>1. ASSUME NEW r \in Readers, Resolving(r) PROVE Next
  BY <1>1 DEF Resolving, Next
<1>2. ASSUME NEW r \in Readers, Run(r) \/ Unload(r) PROVE UNCHANGED vars
  BY <1>2 DEF Run, Unload
<1>3. ASSUME NEW r \in Readers, NEW q \in Kinds, Arrive(r, q) PROVE [Next]_vars
  <2>1. q.items \in Wanted
    BY RequestsAssumption
  <2>2. Call(r, q.items) \/ UNCHANGED vars
    BY <1>3 DEF Arrive
  <2>3. QED
    BY <2>1, <2>2 DEF Next
<1>4. CASE Around
  BY <1>4 DEF Around, Next
<1>5. QED
  BY <1>1, <1>2, <1>3, <1>4 DEF RequestsNext

\* The requests implement the readers: what holds of every behaviour of the
\* catalog holds of every behaviour of the service.
THEOREM RequestsAreReaders == RequestsSpec => Spec
<1>1. [RequestsNext]_allVars => [Next]_vars
  BY StepsOfReaders DEF allVars
<1>2. QED
  BY <1>1, PTL DEF RequestsSpec, RequestsInit, Spec

-----------------------------------------------------------------------------
(* What was checked before a reader began *)

\* A reader that has begun handles a request that was let in, and resolves its
\* items; a provider heard only of one whose items all have their routes.
WorkInv ==
    /\ request \in [Readers -> Kinds \cup {NoRequest}]
    /\ heard \in [Readers -> SUBSET (Nat \X Outcomes)]
    /\ \A r \in Readers : at[r] # "new" =>
          /\ request[r] \in Kinds /\ Verdict(request[r]) = "accepted"
          /\ items[r] = request[r].items
    /\ \A r \in Readers : heard[r] # {} => at[r] = "routed" /\ routes[r] # <<>>

\* A step of the catalog begins a reader by a call, and leaves alone a reader
\* that has its routes.
LEMMA ReadersGoOn ==
    ASSUME CatalogInv, NEW r \in Readers,
           (Refreshing(r) \/ Cancel(r)) \/ \E f \in Wanted : Call(r, f)
    PROVE  /\ \A s \in Readers \ {r} : at'[s] = at[s] /\ routes'[s] = routes[s] /\ items'[s] = items[s]
           /\ at[r] # "routed"
           /\ Refreshing(r) \/ Cancel(r) => at[r] # "new" /\ items' = items
<1>1. /\ at \in [Readers -> Waiting \cup {"new", "listed", "routed", "invalid",
                                         "unavailable", "cancelled"}]
      /\ items \in [Readers -> Wanted \cup {<<>>}] /\ routes \in [Readers -> Seq(ARoute)]
  BY DEF CatalogInv, TypeOK, ARoute, Providers
<1>2. ASSUME NEW wanted, NEW known, NEW fresh, NEW refreshed,
             GoesOn(r, wanted, known, fresh, refreshed)
      PROVE  \A s \in Readers \ {r} : at'[s] = at[s] /\ routes'[s] = routes[s] /\ items'[s] = items[s]
  BY <1>1, <1>2 DEF GoesOn, Moved
<1>3. ASSUME NEW f \in Wanted, Call(r, f)
      PROVE  /\ \A s \in Readers \ {r} : at'[s] = at[s] /\ routes'[s] = routes[s] /\ items'[s] = items[s]
             /\ at[r] = "new"
  BY <1>2, <1>3, StepsGoOn DEF Call
<1>4. ASSUME FindsItFresh(r) \/ RefreshSucceeds(r)
      PROVE  /\ \A s \in Readers \ {r} : at'[s] = at[s] /\ routes'[s] = routes[s] /\ items'[s] = items[s]
             /\ at[r] \in {"queued", "asking"} /\ items' = items
  <2>1. at[r] \in {"queued", "asking"} /\ items' = items
    BY <1>4 DEF FindsItFresh, RefreshSucceeds
  <2>2. QED
    BY <1>2, <1>4, <2>1, StepsGoOn
<1>5. ASSUME Ask(r) \/ RefreshFails(r) \/ Cancel(r)
      PROVE  /\ \A s \in Readers \ {r} : at'[s] = at[s] /\ routes'[s] = routes[s] /\ items'[s] = items[s]
             /\ at[r] \in {"queued", "asking"} /\ items' = items
  BY <1>1, <1>5 DEF Ask, RefreshFails, Cancel
<1>6. QED
  BY <1>3, <1>4, <1>5 DEF Refreshing, Call

THEOREM InitWorkInv == RequestsInit => WorkInv
  BY DEF RequestsInit, Init, WorkInv

\* No step starts a reader unchecked, or takes its routes from one that has them.
THEOREM WorkInductive == CatalogInv /\ WorkInv /\ [RequestsNext]_allVars => WorkInv'
<1> SUFFICES ASSUME CatalogInv, WorkInv, [RequestsNext]_allVars PROVE WorkInv'
  OBVIOUS
<1>1. settings' = settings
  BY StepsOfReaders DEF allVars, vars, Next, Refreshing, FindsItFresh, Ask, RefreshSucceeds,
         RefreshFails, Cancel, Call, TypeSafeAnswers, Tick
<1>2. \A q : Verdict(q)' = Verdict(q)
  BY <1>1 DEF Verdict, TooLarge, Unauthorized, OutsideContract, TooMany
<1>3. ASSUME UNCHANGED <<at, items, routes, request, heard>> PROVE WorkInv'
  BY <1>2, <1>3 DEF WorkInv
<1>4. ASSUME NEW r \in Readers, Resolving(r) PROVE WorkInv'
  <2>1. /\ \A s \in Readers \ {r} : at'[s] = at[s] /\ routes'[s] = routes[s] /\ items'[s] = items[s]
        /\ at[r] # "routed" /\ at[r] # "new" /\ items' = items
    BY <1>4, ReadersGoOn DEF Resolving
  <2>2. request' = request /\ heard' = heard
    BY <1>4 DEF Resolving, requestVars
  <2>3. QED
    BY <1>2, <2>1, <2>2 DEF WorkInv
<1>5. ASSUME NEW r \in Readers, NEW q \in Kinds, Arrive(r, q) PROVE WorkInv'
  <2>1. request[r] = NoRequest /\ request' = [request EXCEPT ![r] = q] /\ heard' = heard
    BY <1>5 DEF Arrive
  <2>2. at[r] = "new" /\ heard[r] = {}
    BY <2>1, RequestsAssumption DEF WorkInv
  <2>3. CASE UNCHANGED vars
    BY <1>2, <2>1, <2>2, <2>3 DEF WorkInv, vars, readerVars
  <2>4. CASE Verdict(q) = "accepted" /\ Call(r, q.items)
    <3>1. q.items \in Wanted /\ items' = [items EXCEPT ![r] = q.items]
      BY <2>4, RequestsAssumption DEF Call
    <3>2. \A s \in Readers \ {r} : at'[s] = at[s] /\ routes'[s] = routes[s] /\ items'[s] = items[s]
      BY <2>4, <3>1, ReadersGoOn
    <3>3. items'[r] = q.items
      BY <3>1 DEF CatalogInv, TypeOK
    <3>4. QED
      BY <1>2, <2>1, <2>2, <2>4, <3>2, <3>3 DEF WorkInv
  <2>5. QED
    BY <1>5, <2>3, <2>4 DEF Arrive
<1>6. ASSUME NEW r \in Readers, Run(r) PROVE WorkInv'
  <2>1. PICK outcome \in [DOMAIN routes[r] -> Outcomes] :
            heard' = [heard EXCEPT ![r] = {<<i, outcome[i]>> : i \in Reached(routes[r], outcome)}]
    BY <1>6 DEF Run
  <2>2. at[r] = "routed" /\ UNCHANGED <<at, items, routes, request>>
    BY <1>6 DEF Run, vars, readerVars
  <2>3. Reached(routes[r], outcome) \subseteq DOMAIN routes[r] /\ DOMAIN routes[r] \subseteq Nat
    BY DEF Reached, CatalogInv, TypeOK
  <2>4. heard' \in [Readers -> SUBSET (Nat \X Outcomes)]
    BY <2>1, <2>3 DEF WorkInv
  <2>5. \A s \in Readers : heard'[s] # {} => at[s] = "routed" /\ routes[s] # <<>>
    BY <2>1, <2>2, <2>3 DEF WorkInv
  <2>6. QED
    BY <1>2, <2>2, <2>4, <2>5 DEF WorkInv
<1>7. ASSUME NEW r \in Readers, Unload(r) PROVE WorkInv'
  BY <1>3, <1>7 DEF Unload, vars, readerVars
<1>8. CASE Around
  BY <1>3, <1>8 DEF Around, TypeSafeAnswers, Tick, requestVars, readerVars
<1>9. CASE UNCHANGED allVars
  BY <1>3, <1>9 DEF allVars, vars, readerVars, requestVars
<1>10. QED
  BY <1>4, <1>5, <1>6, <1>7, <1>8, <1>9 DEF RequestsNext

\* A provider that got an item has its settings, and no item of the request is
\* one that its provider refuses.
THEOREM WorkIsCheckedHolds == RequestsSpec => []WorkIsChecked
<1>1. CatalogInv /\ WorkInv => WorkIsChecked
  <2> SUFFICES ASSUME CatalogInv, WorkInv, NEW r \in Readers, heard[r] # {}
               PROVE  LET q == request[r]
                          used == {routes[r][i].provider : i \in DOMAIN routes[r]} IN
        /\ q.op \in Decisions /\ q.length \in {"none", "fits"} /\ (settings.apiKey => q.key)
        /\ q.op = "batch" /\ settings.cap > 0 => Len(q.items) <= settings.cap
        /\ used \subseteq Enabled(settings)
        /\ "clm" \in used => settings.url
        /\ "jev" \in used => settings.key
        /\ DOMAIN routes[r] = DOMAIN q.items
        /\ \A i \in DOMAIN q.items :
              /\ q.items[i].config # "other"
              /\ q.items[i].config = "temperature" => q.items[i].model \in ClmEntries
    BY DEF WorkIsChecked
  <2> DEFINE q == request[r]
  <2>1. at[r] = "routed" /\ routes[r] # <<>>
    BY DEF WorkInv
  <2>2. q \in Kinds /\ Verdict(q) = "accepted" /\ items[r] = q.items
    BY <2>1 DEF WorkInv
  <2>3. routes[r] \in Seq(ARoute) /\ Len(routes[r]) = Len(items[r]) /\ items[r] \in Seq(Item)
    <3>1. items[r] \in Wanted
      BY <2>2, RequestsAssumption
    <3>2. QED
      BY <2>1, <3>1, CatalogAssumption DEF CatalogInv, TypeOK, RouteInv, ARoute, Providers, Item
  <2>4. DOMAIN routes[r] = 1..Len(routes[r]) /\ DOMAIN routes[r] = DOMAIN q.items
    BY <2>2, <2>3
  <2>5. q.items # <<>>
    BY <2>1, <2>2, <2>3
  <2>6. ~TooLarge(q) /\ ~Unauthorized(q) /\ ~OutsideContract(q)
    BY <2>2 DEF Verdict
  <2>7. q.op \in Decisions /\ q.length \in {"none", "fits"}
    BY <2>2, <2>5, <2>6, RequestsAssumption DEF Decisions, TooLarge
  <2>8. settings.apiKey => q.key
    BY <2>6 DEF Unauthorized
  <2>9. ASSUME q.op = "batch", settings.cap > 0 PROVE Len(q.items) <= settings.cap
    <3>1. settings.cap \in Nat /\ Len(q.items) \in Nat
      BY <2>2, <2>3, RequestsAssumption DEF CatalogInv, TypeOK
    <3>2. ~(settings.cap # 0 /\ Len(q.items) > settings.cap)
      BY <2>6, <2>9 DEF OutsideContract, TooMany
    <3>3. QED
      BY <2>9, <3>1, <3>2
  <2>10. \A i \in DOMAIN routes[r] :
            /\ routes[r][i].provider \in Enabled(settings)
            /\ AcceptsConfig(routes[r][i], q.items[i].config)
            /\ routes[r][i].provider = "clm" => q.items[i].model \in ClmEntries
    BY <2>2, <2>4 DEF CatalogInv, RouteInv
  <2>11. /\ "clm" \in Enabled(settings) => settings.url
         /\ "jev" \in Enabled(settings) => settings.key
    BY DEF CatalogInv, LockInv, Valid
  <2>12. \A i \in DOMAIN q.items :
              /\ q.items[i].config # "other"
              /\ q.items[i].config = "temperature" => q.items[i].model \in ClmEntries
    BY <2>4, <2>10 DEF AcceptsConfig
  <2>13. QED
    BY <2>4, <2>7, <2>8, <2>9, <2>10, <2>11, <2>12
<1>2. RequestsSpec => []CatalogInv
  BY RequestsAreReaders, CatalogInvariant, PTL
<1>3. QED
  BY <1>1, <1>2, InitWorkInv, WorkInductive, PTL DEF RequestsSpec

-----------------------------------------------------------------------------
(* The groups of a batch and the failure that is raised *)

\* Any set of natural numbers that has a member has a least one: of the
\* intervals from zero to its members one has no other inside it.
LEMMA LeastExists ==
    ASSUME NEW S \in SUBSET Nat, S # {}
    PROVE  \E k \in S : \A i \in S : k <= i
<1>1. PICK m \in S : TRUE
  OBVIOUS
<1> DEFINE Below == {i \in S : i <= m}
           Intervals == {0..i : i \in Below}
<1>2. IsWellFoundedOn(StrictSubsetOrdering(0..m), FiniteSubsetsOf(0..m))
  BY FS_Interval, FS_StrictSubsetOrderingWellFounded
<1>3. Intervals \subseteq FiniteSubsetsOf(0..m) /\ Intervals # {}
  <2>1. ASSUME NEW i \in Below PROVE 0..i \in SUBSET (0..m) /\ IsFiniteSet(0..i)
    BY FS_Interval
  <2>2. m \in Below
    BY <1>1
  <2> HIDE DEF Below
  <2>3. QED
    BY <2>1, <2>2 DEF FiniteSubsetsOf
<1>4. PICK T \in Intervals : \A U \in Intervals : <<U, T>> \notin StrictSubsetOrdering(0..m)
  <2> HIDE DEF Intervals
  <2>1. QED
    BY ONLY <1>2, <1>3, WFMin
<1>5. PICK k \in Below : T = 0..k
  OBVIOUS
<1>6. ASSUME NEW i \in S, i < k PROVE FALSE
  <2>1. i \in Below /\ k \in Nat /\ i \in Nat /\ m \in Nat
    BY <1>6
  <2>2. k \in 0..k /\ k \notin 0..i /\ 0..i \subseteq 0..k /\ 0..k \subseteq 0..m
    BY <1>6, <2>1
  <2>3. <<0..i, 0..k>> \in StrictSubsetOrdering(0..m)
    BY <2>2 DEF StrictSubsetOrdering
  <2>4. QED
    BY <1>4, <1>5, <2>1, <2>3
<1>7. QED
  BY <1>6

\* If no item fails they are all reached: the first that was not answered would
\* have been, and failed.
LEMMA NothingFails ==
    ASSUME NEW way, DOMAIN way \subseteq Nat, NEW outcome, Failures(way, outcome) = {}
    PROVE  /\ Reached(way, outcome) = DOMAIN way
           /\ \A i \in DOMAIN way : outcome[i] = "answered"
<1> DEFINE Unanswered == {i \in DOMAIN way : outcome[i] # "answered"}
<1>1. Unanswered = {}
  <2>1. SUFFICES ASSUME Unanswered # {} PROVE FALSE
    OBVIOUS
  <2>2. PICK k \in Unanswered : \A i \in Unanswered : k <= i
    BY <2>1, LeastExists
  <2>3. \A j \in Group(way, k) : j < k => outcome[j] = "answered"
    <3>1. SUFFICES ASSUME NEW j \in Group(way, k), j < k, outcome[j] # "answered" PROVE FALSE
      OBVIOUS
    <3>2. j \in Unanswered /\ j \in Nat /\ k \in Nat
      BY <3>1 DEF Group
    <3>3. QED
      BY <2>2, <3>1, <3>2
  <2>4. k \in Failures(way, outcome)
    BY <2>3 DEF Failures, Reached
  <2>5. QED
    BY <2>4
<1>2. QED
  BY <1>1 DEF Reached, Group

\* Otherwise one of the failures is raised: the first item of the groups that
\* failed is in one of them.
LEMMA OneIsRaised ==
    ASSUME NEW way, DOMAIN way \subseteq Nat, NEW outcome, Failures(way, outcome) # {}
    PROVE  Raised(way, outcome) \in Failures(way, outcome)
<1> DEFINE Failing == {j \in DOMAIN way : \E i \in Failures(way, outcome) : j \in Group(way, i)}
           First(i) == \A j \in Failures(way, outcome) :
                          \E first \in Group(way, i) : \A other \in Group(way, j) : first <= other
<1>1. Failing # {}
  <2>1. PICK i \in Failures(way, outcome) : TRUE
    OBVIOUS
  <2>2. i \in Group(way, i) /\ i \in DOMAIN way
    BY DEF Failures, Reached, Group
  <2>3. QED
    BY <2>2
<1>2. PICK k \in Failing : \A j \in Failing : k <= j
  BY <1>1, LeastExists
<1>3. PICK i \in Failures(way, outcome) : k \in Group(way, i)
  OBVIOUS
<1>4. First(i)
  <2>1. SUFFICES ASSUME NEW j \in Failures(way, outcome)
                 PROVE  \A other \in Group(way, j) : k <= other
    BY <1>3
  <2>2. \A other \in Group(way, j) : other \in Failing
    BY DEF Group
  <2>3. QED
    BY <1>2, <2>2
<1>5. (CHOOSE x \in Failures(way, outcome) : First(x)) \in Failures(way, outcome)
  <2> HIDE DEF First
  <2>1. QED
    BY <1>4
<1>6. QED
  BY <1>5 DEF Raised

-----------------------------------------------------------------------------
(* Who is blamed *)

\* An item that was refused by the names there are is one that nothing serves.
LEMMA RefusedIsUnservable ==
    ASSUME NEW r, NEW item, Refused(item, hosted'),
           item.model \notin LocalNames =>
              (HostedEnabled => at[r] = "asking" \/ clock < snapshotAt' + TTL)
    PROVE  Unservable(r, item)
<1> DEFINE To == Routes(settings, item.model, hosted')
<1>1. \A route \in To : ~AcceptsConfig(route, item.config)
  BY DEF Refused
<1>2. CASE item.model \in LocalNames
  <2>1. To = LocalRoutes(settings, item.model) /\ LocalRoutes(settings, item.model) # {}
    BY <1>2, RoutesOf, ListedIsRouted DEF LocalNames
  <2>2. item.config # "empty"
    BY <1>1, <2>1 DEF AcceptsConfig
  <2>3. ASSUME item.config = "temperature", item.model \in ClmEntries PROVE FALSE
    <3>1. "clm" \in Enabled(settings)
      BY <1>2, <2>3, CatalogEntries, EntriesDisjoint DEF LocalNames
    <3>2. Route("clm", "clm-0.1-8b") \in To
      BY <2>1, <2>3, <3>1 DEF LocalRoutes
    <3>3. QED
      BY <1>1, <2>3, <3>2 DEF AcceptsConfig, Route
  <2>4. QED
    BY <1>2, <2>2, <2>3 DEF Unservable
<1>3. CASE item.model \notin LocalNames /\ HostedEnabled /\ item.model \in hosted'
  <2>1. Route("jev", item.model) \in To
    BY <1>3, RoutesOf DEF LocalNames, HostedEnabled
  <2>2. item.config # "empty"
    BY <1>1, <2>1 DEF AcceptsConfig
  <2>3. QED
    BY <1>3, <2>2 DEF Unservable
<1>4. CASE item.model \notin LocalNames /\ ~(HostedEnabled /\ item.model \in hosted')
  BY <1>4 DEF Unservable
<1>5. QED
  BY <1>2, <1>3, <1>4

\* What may become of a reader that goes on with the names there are: it has
\* the models if it asked for them, and is refused only with an item that
\* nothing serves.
EndsRightly(r, wanted) ==
    /\ at'[r] \in {"queued", "listed", "routed", "invalid"}
    /\ at'[r] = "listed" => wanted = <<>>
    /\ at'[r] = "invalid" => \E i \in DOMAIN wanted : Unservable(r, wanted[i])

LEMMA GoesOnRightly ==
    ASSUME CatalogInv, NEW r \in Readers, NEW wanted, NEW fresh, NEW refreshed,
           GoesOn(r, wanted, hosted', fresh, refreshed),
           fresh \/ refreshed => at[r] = "asking" \/ clock < snapshotAt' + TTL
    PROVE  EndsRightly(r, wanted)
<1>1. PICK where, way : Moved(r, wanted, hosted', fresh, refreshed, where, way)
  BY DEF GoesOn
<1>2. at'[r] = where
  BY <1>1 DEF Moved, CatalogInv, TypeOK
<1>3. where \in {"queued", "listed", "routed", "invalid"} /\ (where = "listed" => wanted = <<>>)
  BY <1>1 DEF Moved
<1>4. ASSUME where = "invalid" PROVE \E i \in DOMAIN wanted : Unservable(r, wanted[i])
  <2>1. wanted \in Seq(Item) /\ way \in Seq(ARoute) /\ Len(way) < Len(wanted)
    BY <1>1, <1>4 DEF Moved, GoesOn
  <2>2. Len(way) + 1 \in DOMAIN wanted
    BY <2>1, LenProperties
  <2>3. /\ Refused(wanted[Len(way) + 1], hosted')
        /\ wanted[Len(way) + 1].model \notin LocalNames => (HostedEnabled => fresh \/ refreshed)
    BY <1>1, <1>4 DEF Moved
  <2>4. Unservable(r, wanted[Len(way) + 1])
    BY <2>3, RefusedIsUnservable
  <2>5. QED
    BY <2>2, <2>4
<1>5. QED
  BY <1>2, <1>3, <1>4 DEF EndsRightly

LEMMA ReadersEndRightly ==
    ASSUME CatalogInv, NEW r \in Readers
    PROVE  /\ \A f \in Wanted : Call(r, f) => EndsRightly(r, f)
           /\ FindsItFresh(r) \/ RefreshSucceeds(r) => EndsRightly(r, items[r])
<1>1. TTL \in Nat /\ clock \in Nat /\ expiresAt \in Nat /\ snapshotAt \in Nat
      /\ expiresAt <= snapshotAt + TTL
  BY CatalogAssumption DEF CatalogInv, TypeOK, TimeInv
<1>2. ASSUME NEW f \in Wanted, Call(r, f) PROVE EndsRightly(r, f)
  <2>1. GoesOn(r, f, hosted, clock < expiresAt, FALSE)
    BY <1>2, StepsGoOn
  <2>2. hosted' = hosted /\ snapshotAt' = snapshotAt
    BY <1>2 DEF Call, catalogVars
  <2>3. clock < expiresAt => clock < snapshotAt' + TTL
    BY <1>1, <2>2
  <2>4. QED
    BY <2>1, <2>2, <2>3, GoesOnRightly
<1>3. ASSUME FindsItFresh(r) PROVE EndsRightly(r, items[r])
  <2>1. GoesOn(r, items[r], hosted, TRUE, TRUE)
    BY <1>3, StepsGoOn
  <2>2. hosted' = hosted /\ snapshotAt' = snapshotAt /\ ~(clock >= expiresAt)
    BY <1>3 DEF FindsItFresh, StillExpired, catalogVars
  <2>3. clock < snapshotAt' + TTL
    BY <1>1, <2>2
  <2>4. QED
    BY <2>1, <2>2, <2>3, GoesOnRightly
<1>4. ASSUME RefreshSucceeds(r) PROVE EndsRightly(r, items[r])
  <2>1. GoesOn(r, items[r], Kept, clock < Expiry, TRUE)
    BY <1>4, StepsGoOn
  <2>2. hosted' = Kept /\ at[r] = "asking"
    BY <1>4 DEF RefreshSucceeds
  <2>3. QED
    BY <2>1, <2>2, GoesOnRightly
<1>5. QED
  BY <1>2, <1>3, <1>4

\* The answers that are settled outside the catalog.
Settled == {"none", "tooLarge", "unauthorized", "invalid", "unavailable", "busy", "ok"}
StatusInv == status \in [Readers -> Settled]

LEMMA StatusInvariant == RequestsSpec => []StatusInv
<1>1. RequestsInit => StatusInv
  BY DEF RequestsInit, StatusInv, Settled
<1>2. StatusInv /\ [RequestsNext]_allVars => StatusInv'
  <2> SUFFICES ASSUME StatusInv, [RequestsNext]_allVars PROVE StatusInv'
    OBVIOUS
  <2>1. ASSUME UNCHANGED status PROVE StatusInv'
    BY <2>1 DEF StatusInv
  <2>2. ASSUME NEW r \in Readers, NEW answer \in Settled, status' = [status EXCEPT ![r] = answer]
        PROVE  StatusInv'
    BY <2>2 DEF StatusInv
  <2>3. ASSUME NEW r \in Readers, Run(r) PROVE StatusInv'
    <3>1. PICK outcome : status' = [status EXCEPT ![r] = OutcomeOf(routes[r], outcome)]
      BY <2>3 DEF Run
    <3>2. OutcomeOf(routes[r], outcome) \in Settled
      BY DEF OutcomeOf, Means, Settled
    <3>3. QED
      BY <2>2, <3>1, <3>2
  <2>4. ASSUME NEW r \in Readers, Unload(r) PROVE StatusInv'
    BY <2>2, <2>4 DEF Unload, Settled
  <2>5. ASSUME NEW r \in Readers, NEW q \in Kinds, Arrive(r, q) PROVE StatusInv'
    <3>1. Verdict(q) # "accepted" => Verdict(q) \in Settled
      BY DEF Verdict, Settled
    <3>2. status' = status \/ (Verdict(q) # "accepted" /\ status' = [status EXCEPT ![r] = Verdict(q)])
      BY <2>5 DEF Arrive
    <3>3. QED
      BY <2>1, <2>2, <3>1, <3>2
  <2>6. ASSUME NEW r \in Readers, Resolving(r) PROVE StatusInv'
    BY <2>1, <2>6 DEF Resolving, requestVars
  <2>7. CASE Around \/ UNCHANGED allVars
    BY <2>1, <2>7 DEF Around, allVars, requestVars
  <2>8. QED
    BY <2>3, <2>4, <2>5, <2>6, <2>7 DEF RequestsNext
<1>3. QED
  BY <1>1, <1>2, PTL DEF RequestsSpec

\* An answer that was settled is the answer, of who has none of the catalog.
LEMMA SettledIsTold ==
    ASSUME NEW r \in Readers, status'[r] # "none", at'[r] \notin {"listed", "invalid", "unavailable"}
    PROVE  Answer(r)' = status'[r]
  BY DEF Answer

\* What the answer of r says of the request that got it.
Blames(r) ==
    LET q == request'[r] IN
    /\ Answer(r)' = "invalid" =>
          \/ q.body # "good" \/ (q.op = "batch" /\ Len(q.items) \notin AllowedSizes)
          \/ \E i \in DOMAIN q.items : Unservable(r, q.items[i])
          \/ Failed(r, {"rejected"})'
    /\ Answer(r)' = "unavailable" => at[r] = "asking" \/ Failed(r, {"strange", "unusable"})'
    /\ Answer(r)' = "ok" => (q.op \in Decisions => heard'[r] = (DOMAIN q.items) \X {"answered"})
    /\ Answer(r)' = "busy" => q.op = "unload"

\* A request that is accepted asks for a decision only with items.
LEMMA DecisionsHaveItems ==
    ASSUME NEW q \in Kinds, Verdict(q) = "accepted", q.op \in Decisions
    PROVE  q.items # <<>>
<1>1. ~OutsideContract(q)
  BY DEF Verdict
<1>2. q.op = "one" => Len(q.items) = 1
  BY <1>1, RequestsAssumption DEF OutsideContract
<1>3. Len(<<>>) = 0
  OBVIOUS
<1>4. QED
  BY <1>1, <1>2, <1>3 DEF Decisions, OutsideContract, TooMany

\* A batch is turned away only with a size that the settings do not allow.
LEMMA TurnedAwayRightly ==
    ASSUME CatalogInv, NEW q \in Kinds, Verdict(q) = "invalid"
    PROVE  q.body # "good" \/ (q.op = "batch" /\ Len(q.items) \notin AllowedSizes)
<1>1. SUFFICES ASSUME q.body = "good"
               PROVE  q.op = "batch" /\ Len(q.items) \notin AllowedSizes
  OBVIOUS
<1>2. OutsideContract(q)
  BY <1>1 DEF Verdict
<1>3. q.op = "batch" /\ TooMany(q.items)
  BY <1>1, <1>2 DEF OutsideContract
<1>4. settings.cap \in Nat /\ Len(q.items) \in Nat
  <2>1. q.items \in Seq(Item)
    BY RequestsAssumption, CatalogAssumption DEF Item
  <2>2. QED
    BY <2>1, RequestsAssumption, LenProperties DEF CatalogInv, TypeOK
<1>5. CASE q.items = <<>>
  BY <1>3, <1>4, <1>5 DEF AllowedSizes
<1>6. CASE settings.cap # 0 /\ Len(q.items) > settings.cap
  BY <1>3, <1>4, <1>6 DEF AllowedSizes
<1>7. QED
  BY <1>3, <1>5, <1>6 DEF TooMany

\* A reader that resolves its items is told to be at fault only with an item
\* that nothing serves, and that TypeSafe failed only if it did.
LEMMA ResolvingBlames ==
    ASSUME CatalogInv, WorkInv, NEW r \in Readers, Resolving(r), Answer(r) = "none"
    PROVE  Blames(r)
<1>1. request' = request /\ heard' = heard /\ status' = status
  BY DEF Resolving, requestVars
<1>2. at[r] # "new"
  BY ReadersGoOn DEF Resolving
<1>3. request[r] \in Kinds /\ Verdict(request[r]) = "accepted" /\ items[r] = request[r].items
  BY <1>2 DEF WorkInv
<1>4. status[r] = "none"
  BY DEF Answer
<1>5. at \in [Readers -> Waiting \cup {"new", "listed", "routed", "invalid",
                                        "unavailable", "cancelled"}]
  BY DEF CatalogInv, TypeOK
<1>6. CASE FindsItFresh(r) \/ RefreshSucceeds(r)
  <2>1. EndsRightly(r, items[r])
    BY <1>6, ReadersEndRightly
  <2>2. Answer(r)' \in {"ok", "invalid", "none"}
    BY <1>1, <1>4, <2>1 DEF Answer, EndsRightly
  <2>3. Answer(r)' = "ok" => at'[r] = "listed"
    BY <1>1, <1>4, <2>1 DEF Answer, EndsRightly
  <2>4. Answer(r)' = "invalid" => at'[r] = "invalid"
    BY <1>1, <1>4, <2>1 DEF Answer, EndsRightly
  <2>5. Answer(r)' = "ok" => request[r].op \notin Decisions
    BY <1>3, <2>1, <2>3, DecisionsHaveItems DEF EndsRightly
  <2>6. Answer(r)' = "invalid" =>
            \E i \in DOMAIN request[r].items : Unservable(r, request[r].items[i])
    BY <1>3, <2>1, <2>4 DEF EndsRightly
  <2>7. QED
    BY <1>1, <2>2, <2>5, <2>6 DEF Blames
<1>7. CASE Ask(r) \/ Cancel(r)
  <2>1. at'[r] \in {"asking", "cancelled"}
    BY <1>5, <1>7 DEF Ask, Cancel
  <2>2. Answer(r)' = "none"
    BY <1>1, <1>4, <2>1 DEF Answer
  <2>3. QED
    BY <2>2 DEF Blames
<1>8. CASE RefreshFails(r)
  <2>1. at'[r] = "unavailable" /\ at[r] = "asking"
    BY <1>5, <1>8 DEF RefreshFails
  <2>2. Answer(r)' = "unavailable"
    BY <1>1, <1>4, <2>1 DEF Answer
  <2>3. QED
    BY <2>1, <2>2 DEF Blames
<1>9. QED
  BY <1>6, <1>7, <1>8 DEF Resolving, Refreshing

\* What a forward ended in is passed on: the first failure that is raised, or
\* every item's answer.
LEMMA RunBlames ==
    ASSUME CatalogInv, WorkInv, StatusInv, NEW r \in Readers, Run(r)
    PROVE  Blames(r)
<1> DEFINE way == routes[r]
<1>1. PICK outcome \in [DOMAIN way -> Outcomes] :
          /\ heard' = [heard EXCEPT ![r] = {<<i, outcome[i]>> : i \in Reached(way, outcome)}]
          /\ status' = [status EXCEPT ![r] = OutcomeOf(way, outcome)]
  BY DEF Run
<1>2. at[r] = "routed" /\ request' = request /\ items' = items /\ at' = at
  BY DEF Run, vars, readerVars
<1>3. items[r] = request[r].items /\ request[r] \in Kinds
  BY <1>2 DEF WorkInv
<1>4. DOMAIN way = DOMAIN items[r] /\ DOMAIN way \subseteq Nat
  <2>1. items[r] \in Seq(Item) /\ way \in Seq(ARoute)
    BY <1>3, RequestsAssumption, CatalogAssumption DEF CatalogInv, TypeOK, Item, ARoute, Providers
  <2>2. Len(way) = Len(items[r])
    BY <1>2 DEF CatalogInv, RouteInv
  <2>3. QED
    BY <2>1, <2>2, LenProperties
<1>5. /\ heard'[r] = {<<i, outcome[i]>> : i \in Reached(way, outcome)}
      /\ status'[r] = OutcomeOf(way, outcome)
  BY <1>1 DEF WorkInv, StatusInv
<1> HIDE DEF way
<1>6. CASE Failures(way, outcome) = {}
  <2>1. Reached(way, outcome) = DOMAIN way /\ \A i \in DOMAIN way : outcome[i] = "answered"
    BY <1>4, <1>6, NothingFails
  <2>2. heard'[r] = (DOMAIN way) \X {"answered"}
    BY <1>5, <2>1
  <2>3. Answer(r)' = "ok"
    BY <1>2, <1>5, <1>6, SettledIsTold DEF OutcomeOf
  <2>4. heard'[r] = (DOMAIN request'[r].items) \X {"answered"}
    BY <1>2, <1>3, <1>4, <2>2
  <2>5. QED
    BY <2>3, <2>4 DEF Blames
<1>7. CASE Failures(way, outcome) # {}
  <2> DEFINE i == Raised(way, outcome)
  <2>1. i \in Failures(way, outcome)
    BY <1>4, <1>7, OneIsRaised
  <2> HIDE DEF i
  <2>2. i \in Reached(way, outcome) /\ i \in DOMAIN way /\ outcome[i] # "answered"
    BY <2>1 DEF Failures, Reached
  <2>3. outcome[i] \in {"rejected", "strange", "unusable"}
    BY <2>2 DEF Outcomes
  <2>4. <<i, outcome[i]>> \in heard'[r] /\ i \in DOMAIN items'[r]
    BY <1>2, <1>4, <1>5, <2>2
  <2>5. status'[r] = Means(outcome[i])
    BY <1>5, <1>7 DEF OutcomeOf, i
  <2>6. CASE outcome[i] = "rejected"
    <3>1. Answer(r)' = "invalid"
      BY <1>2, <2>5, <2>6, SettledIsTold DEF Means
    <3>2. Failed(r, {"rejected"})'
      BY <2>4, <2>6 DEF Failed
    <3>3. QED
      BY <3>1, <3>2 DEF Blames
  <2>7. CASE outcome[i] \in {"strange", "unusable"}
    <3>1. Answer(r)' = "unavailable"
      BY <1>2, <2>5, <2>7, SettledIsTold DEF Means
    <3>2. Failed(r, {"strange", "unusable"})'
      BY <2>4, <2>7 DEF Failed
    <3>3. QED
      BY <3>1, <3>2 DEF Blames
  <2>8. QED
    BY <2>3, <2>6, <2>7
<1>8. QED
  BY <1>6, <1>7

\* A request that arrives is turned away for what it is, or begins to resolve
\* its items with the names there are.
LEMMA ArriveBlames ==
    ASSUME CatalogInv, WorkInv, StatusInv, NEW r \in Readers, NEW q \in Kinds, Arrive(r, q),
           Answer(r) = "none"
    PROVE  Blames(r)
<1>1. request[r] = NoRequest /\ request'[r] = q
  BY DEF Arrive, WorkInv
<1>2. at[r] = "new" /\ status[r] = "none"
  BY <1>1, RequestsAssumption DEF WorkInv, Answer
<1>3. CASE Verdict(q) # "accepted"
  <2>1. status' = [status EXCEPT ![r] = Verdict(q)]
    BY <1>3 DEF Arrive
  <2>2. Verdict(q) \in {"tooLarge", "unauthorized", "invalid"}
    BY <1>3 DEF Verdict
  <2>3. Answer(r)' = Verdict(q)
    <3>1. status'[r] = Verdict(q) /\ at'[r] = "new"
      BY <1>2, <1>3, <2>1 DEF StatusInv, Arrive, vars, readerVars
    <3>2. QED
      BY <2>2, <3>1, SettledIsTold
  <2>4. Verdict(q) = "invalid" =>
            q.body # "good" \/ (q.op = "batch" /\ Len(q.items) \notin AllowedSizes)
    BY TurnedAwayRightly
  <2>5. QED
    BY <1>1, <2>2, <2>3, <2>4 DEF Blames
<1>4. CASE Verdict(q) = "accepted" /\ q.op = "unload"
  <2>1. at'[r] = "new" /\ status' = status
    BY <1>2, <1>4 DEF Arrive, vars, readerVars
  <2>2. Answer(r)' = "none"
    BY <1>2, <2>1 DEF Answer
  <2>3. QED
    BY <2>2 DEF Blames
<1>5. CASE Verdict(q) = "accepted" /\ q.op # "unload"
  <2>1. Call(r, q.items) /\ status' = status /\ q.items \in Wanted
    BY <1>5, RequestsAssumption DEF Arrive
  <2>2. EndsRightly(r, q.items)
    BY <2>1, ReadersEndRightly
  <2>3. /\ Answer(r)' \in {"ok", "invalid", "none"}
        /\ Answer(r)' = "ok" => at'[r] = "listed"
        /\ Answer(r)' = "invalid" => at'[r] = "invalid"
    BY <1>2, <2>1, <2>2 DEF Answer, EndsRightly
  <2>4. Answer(r)' = "ok" => q.op \notin Decisions
    BY <1>5, <2>2, <2>3, DecisionsHaveItems DEF EndsRightly
  <2>5. Answer(r)' = "invalid" => \E i \in DOMAIN q.items : Unservable(r, q.items[i])
    BY <2>2, <2>3 DEF EndsRightly
  <2>6. QED
    BY <1>1, <2>3, <2>4, <2>5 DEF Blames
<1>6. QED
  BY <1>3, <1>4, <1>5

\* A step answers nobody but the request it is about.
LEMMA OthersWait ==
    ASSUME CatalogInv, WorkInv, StatusInv, NEW r \in Readers, NEW s \in Readers \ {r},
           Resolving(r) \/ Run(r) \/ Unload(r) \/ \E q \in Kinds : Arrive(r, q)
    PROVE  at'[s] = at[s] /\ status'[s] = status[s]
<1>1. CASE Resolving(r)
  BY <1>1, ReadersGoOn DEF Resolving, requestVars
<1>2. CASE Run(r) \/ Unload(r)
  BY <1>2 DEF Run, Unload, StatusInv, vars, readerVars
<1>3. ASSUME NEW q \in Kinds, Arrive(r, q) PROVE at'[s] = at[s] /\ status'[s] = status[s]
  <2>1. status'[s] = status[s]
    BY <1>3 DEF Arrive, StatusInv
  <2>2. q.items \in Wanted
    BY RequestsAssumption
  <2>3. Call(r, q.items) => at'[s] = at[s]
    BY <2>2, ReadersGoOn
  <2>4. QED
    BY <1>3, <2>1, <2>3 DEF Arrive, vars, readerVars
<1>4. QED
  BY <1>1, <1>2, <1>3

\* 422 only after a fault of the caller or a provider's 422, 503 only after
\* TypeSafe or a provider failed, success only with every item answered, 409
\* only to an unload.
THEOREM BlamesTheRightSideHolds == RequestsSpec => BlamesTheRightSide
<1> DEFINE asked(r) == request'[r]
           Rightly(r) ==
              CASE Answer(r)' = "invalid" ->
                      \/ asked(r).body # "good" \/ (asked(r).op = "batch" /\ Len(asked(r).items) \notin AllowedSizes)
                      \/ \E i \in DOMAIN asked(r).items : Unservable(r, asked(r).items[i])
                      \/ Failed(r, {"rejected"})'
                [] Answer(r)' = "unavailable" ->
                      at[r] = "asking" \/ Failed(r, {"strange", "unusable"})'
                [] Answer(r)' = "ok" ->
                      asked(r).op \in Decisions => heard'[r] = (DOMAIN asked(r).items) \X {"answered"}
                [] Answer(r)' = "busy" -> asked(r).op = "unload"
                [] OTHER -> TRUE
<1>1. ASSUME CatalogInv, WorkInv, StatusInv, [RequestsNext]_allVars,
             NEW r \in Readers, Answer(r) = "none"
      PROVE  Blames(r)
  <2>1. ASSUME at'[r] = at[r], status'[r] = status[r] PROVE Blames(r)
    <3>1. Answer(r)' = "none"
      BY <1>1, <2>1 DEF Answer
    <3>2. QED
      BY <3>1 DEF Blames
  <2>2. ASSUME NEW s \in Readers, s # r,
               Resolving(s) \/ Run(s) \/ Unload(s) \/ \E q \in Kinds : Arrive(s, q)
        PROVE  Blames(r)
    BY <1>1, <2>1, <2>2, OthersWait
  <2>3. CASE Resolving(r)
    BY <1>1, <2>3, ResolvingBlames
  <2>4. CASE Run(r)
    BY <1>1, <2>4, RunBlames
  <2>5. CASE \E q \in Kinds : Arrive(r, q)
    BY <1>1, <2>5, ArriveBlames
  <2>6. CASE Unload(r)
    <3>1. request'[r].op = "unload" /\ at' = at
      BY <2>6 DEF Unload, vars, readerVars
    <3>2. status'[r] \in {"ok", "busy"}
      BY <1>1, <2>6 DEF Unload, StatusInv
    <3>3. Answer(r)' \in {"ok", "busy"}
      <4>1. at[r] \notin {"listed", "invalid", "unavailable"} /\ status[r] = "none"
        BY <1>1, <2>6 DEF Answer, Unload
      <4>2. QED
        BY <3>1, <3>2, <4>1, SettledIsTold
    <3>4. QED
      BY <3>1, <3>3 DEF Blames, Decisions
  <2>7. CASE Around \/ UNCHANGED allVars
    BY <2>1, <2>7 DEF Around, TypeSafeAnswers, Tick, allVars, vars, readerVars, requestVars
  <2>8. QED
    BY <1>1, <2>2, <2>3, <2>4, <2>5, <2>6, <2>7 DEF RequestsNext
<1>2. ASSUME NEW r \in Readers, Blames(r) PROVE Rightly(r)
  BY <1>2 DEF Blames
<1>3. CatalogInv /\ WorkInv /\ StatusInv /\ [RequestsNext]_allVars =>
        [\A r \in Readers : Answer(r) = "none" => Rightly(r)]_allVars
  BY <1>1, <1>2
<1>4. RequestsSpec => []CatalogInv
  BY RequestsAreReaders, CatalogInvariant, PTL
<1>5. QED
  BY <1>3, <1>4, InitWorkInv, WorkInductive, StatusInvariant, PTL DEF RequestsSpec, BlamesTheRightSide
=============================================================================
