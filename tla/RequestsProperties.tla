------------------------- MODULE RequestsProperties -------------------------
(* What a caller, REST or MCP, may rely on. *)
EXTENDS Requests, HostedCatalogProperties

Decisions == {"one", "batch"}
Failed(r, outcomes) == \E i \in DOMAIN items[r] : \E o \in outcomes : <<i, o>> \in heard[r]

-----------------------------------------------------------------------------
(* Invariants *)

\* "Every item is validated before any provider receives work": a provider that
\* got any item of a request has its settings, the caller was let in, and no
\* item of the request is one that its provider refuses or that exceeds the cap.
WorkIsChecked ==
    \A r \in Readers : heard[r] # {} =>
        LET q == request[r]
            used == {routes[r][i].provider : i \in DOMAIN routes[r]} IN
        /\ q.op \in Decisions /\ q.length \in {"none", "fits"} /\ (settings.apiKey => q.key)
        /\ q.op = "batch" /\ settings.cap > 0 => Len(q.items) <= settings.cap
        /\ used \subseteq Enabled(settings)
        /\ "clm" \in used => settings.url
        /\ "jev" \in used => settings.key
        /\ DOMAIN routes[r] = DOMAIN q.items
        /\ \A i \in DOMAIN q.items :
              /\ q.items[i].config # "other"
              /\ q.items[i].config = "temperature" => q.items[i].model \in ClmEntries

\* "Send a UUID or ULID in that header when you need to correlate logs and
\* calls.  Decidealot creates a UUID when it is missing or invalid": the
\* provider hears the id that the response carries.
OneIdPerRequest ==
    \A r \in Readers : heard[r] # {} => sentAs[r] = ResponseId(request[r])

-----------------------------------------------------------------------------
(* Action properties *)

\* An item nothing can serve: no local provider or recently listed hosted model
\* has its name, or its provider does not take its config.
Unservable(r, item) ==
    IF item.model \in LocalNames \/ (HostedEnabled /\ item.model \in hosted')
    THEN item.config # "empty" /\ ~(item.config = "temperature" /\ item.model \in ClmEntries \cap LocalNames)
    ELSE HostedEnabled => at[r] = "asking" \/ clock < snapshotAt' + TTL

AllowedSizes == IF settings.cap = 0 THEN Nat \ {0} ELSE 1..settings.cap

\* Who is told what: 422 only after a fault of the caller or a provider's 422,
\* 503 only after TypeSafe or a provider failed, success only if every item was
\* answered, 409 only to an unload.
BlamesTheRightSide ==
    [][\A r \in Readers : Answer(r) = "none" =>
         LET q == request'[r] IN
         CASE Answer(r)' = "invalid" ->
                 \/ q.body # "good" \/ (q.op = "batch" /\ Len(q.items) \notin AllowedSizes)
                 \/ \E i \in DOMAIN q.items : Unservable(r, q.items[i])
                 \/ Failed(r, {"rejected"})'
           [] Answer(r)' = "unavailable" ->
                 at[r] = "asking" \/ Failed(r, {"strange", "unusable"})'
           [] Answer(r)' = "ok" ->
                 q.op \in Decisions => heard'[r] = (DOMAIN q.items) \X {"answered"}
           [] Answer(r)' = "busy" -> q.op = "unload"
           [] OTHER -> TRUE]_allVars

-----------------------------------------------------------------------------
(* Liveness *)

\* Every request is answered unless it is cancelled, although each waiter of a
\* failed refresh tries again, one after the other.
RequestsEnd ==
    \A r \in Readers : request[r] # NoRequest ~> Answer(r) # "none" \/ at[r] = "cancelled"
=============================================================================
