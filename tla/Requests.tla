------------------------------ MODULE Requests ------------------------------
(***************************************************************************)
(* A request from its arrival to its answer: the middlewares, the REST     *)
(* handlers and the MCP tools of create_app() on top of HostedCatalog,     *)
(* whose readers are the requests, and the forwards of a decision or batch *)
(* as one step (when each of them runs is Scheduler's).                    *)
(*                                                                         *)
(* A request is a record of                                                *)
(*                                                                         *)
(*   via, op    "rest" or "mcp"; "one", "batch", "models" or "unload"      *)
(*   key, id    it brings the right bearer key, a valid X-Request-Id       *)
(*   length     its Content-Length: "none", "fits" the limit, is "over" it *)
(*              or is no number ("unreadable")                             *)
(*   body       "broken" is no JSON (a REST body; the MCP server's are the *)
(*              SDK's), "malformed" is not in the contract                 *)
(*   items      the model and config of every decision in a good body      *)
(*                                                                         *)
(* The deployments of HostedCatalog also say whether an API key is set     *)
(* (apiKey) and max_batch_requests (cap, 0 for none).                      *)
(***************************************************************************)
EXTENDS HostedCatalog

CONSTANTS
    Kinds,      \* bound: the requests that arrive
    NoRequest   \* what a reader handles before one arrives

\* What may come of a forward: an answer, a 422 (restated if it is not in the
\* contract), another status below 500, and no reply or one of no use.
Outcomes == {"answered", "rejected", "strange", "unusable"}

ASSUME RequestsAssumption ==
    /\ Kinds \subseteq [via : {"rest", "mcp"}, op : {"one", "batch", "models", "unload"},
                        key : BOOLEAN, id : BOOLEAN, length : {"none", "fits", "over", "unreadable"},
                        body : {"broken", "malformed", "good"}, items : Wanted]
    /\ NoRequest \notin Kinds
    /\ \A d \in Deployments : d.apiKey \in BOOLEAN /\ d.cap \in Nat
    /\ \A q \in Kinds : /\ q.op \in {"models", "unload"} => q.items = <<>> /\ q.body = "good"
                        /\ q.op = "one" /\ q.body = "good" => Len(q.items) = 1
                        /\ q.via = "mcp" => q.body # "broken"

VARIABLES
    request,    \* per reader, the request it handles
    status,     \* per reader, the answer settled outside the catalog, or "none"
    heard,      \* per reader, the forwards that ended: <<item, outcome>>
    sentAs      \* per reader, whose id the forwards carried

requestVars == <<request, status, heard, sentAs>>
allVars == <<vars, requestVars>>

RequestsInit ==
    /\ Init
    /\ request = [r \in Readers |-> NoRequest]
    /\ status = [r \in Readers |-> "none"]
    /\ heard = [r \in Readers |-> {}]
    /\ sentAs = [r \in Readers |-> "nobody"]

-----------------------------------------------------------------------------
(* The boundary *)

TooLarge(q) == q.length \in {"over", "unreadable"}
Unauthorized(q) == settings.apiKey /\ ~q.key

\* parse_system_one_batch_request(): an empty batch or one over the cap.
TooMany(batch) == batch = <<>> \/ (settings.cap # 0 /\ Len(batch) > settings.cap)

OutsideContract(q) == q.body # "good" \/ (q.op = "batch" /\ TooMany(q.items))

\* The first check to fail; a REST handler runs after its body was decoded.
Verdict(q) ==
    CASE TooLarge(q) -> "tooLarge"
      [] q.body = "broken" -> "invalid"
      [] Unauthorized(q) -> "unauthorized"
      [] OutsideContract(q) -> "invalid"
      [] OTHER -> "accepted"

\* RequestIDMiddleware, and _request_id() of the MCP tools, which reads the
\* caller's header again.
ResponseId(q) == IF q.id THEN "caller" ELSE "middleware"
ForwardId(q) ==
    CASE q.id -> "caller" [] q.via = "rest" -> "middleware" [] OTHER -> "tool"

Arrive(r, q) ==
    /\ request[r] = NoRequest /\ request' = [request EXCEPT ![r] = q]
    /\ UNCHANGED <<heard, sentAs>>
    /\ IF Verdict(q) = "accepted"
       THEN /\ UNCHANGED status
            /\ IF q.op = "unload" THEN UNCHANGED vars ELSE Call(r, q.items)
       ELSE /\ status' = [status EXCEPT ![r] = Verdict(q)]
            /\ UNCHANGED vars

-----------------------------------------------------------------------------
(* The decisions *)

\* _model_key(): a local provider, or a hosted model.
Key(route) == IF route.provider = "jev" THEN <<"jev", route.public>> ELSE <<route.provider>>
Group(way, i) == {j \in DOMAIN way : Key(way[j]) = Key(way[i])}

\* A group stops at its first failure.
Reached(way, outcome) ==
    {i \in DOMAIN way : \A j \in Group(way, i) : j < i => outcome[j] = "answered"}

\* The failures gather() returns, and the one that is raised: that of the group
\* whose first item comes first.
Failures(way, outcome) == {i \in Reached(way, outcome) : outcome[i] # "answered"}
Raised(way, outcome) ==
    CHOOSE i \in Failures(way, outcome) :
        \A j \in Failures(way, outcome) :
            \E first \in Group(way, i) : \A other \in Group(way, j) : first <= other

\* What the end of a forward becomes, and the whole request.
MeansUnread(outcome) == IF outcome \in {"rejected", "strange"} THEN "invalid" ELSE "unavailable"
Means(outcome) == IF outcome = "rejected" THEN "invalid" ELSE "unavailable"

OutcomeOf(way, outcome) ==
    IF Failures(way, outcome) = {} THEN "ok" ELSE Means(outcome[Raised(way, outcome)])

\* (The supervisor is ready for as long as requests are served.)
Run(r) ==
    /\ at[r] = "routed" /\ status[r] = "none"
    /\ \E outcome \in [DOMAIN routes[r] -> Outcomes] :
        /\ heard' = [heard EXCEPT ![r] = {<<i, outcome[i]>> : i \in Reached(routes[r], outcome)}]
        /\ status' = [status EXCEPT ![r] = OutcomeOf(routes[r], outcome)]
    /\ sentAs' = [sentAs EXCEPT ![r] = ForwardId(request[r])]
    /\ UNCHANGED <<vars, request>>

\* unload_all() refuses while a lease is out: some decision runs locally.
Unload(r) ==
    /\ request[r] # NoRequest /\ request[r].op = "unload" /\ status[r] = "none"
    /\ \E answer \in {"ok"} \cup {"busy" : s \in {s \in Readers :
            at[s] = "routed" /\ status[s] = "none"
            /\ \E i \in DOMAIN routes[s] : routes[s][i].provider # "jev"}} :
          status' = [status EXCEPT ![r] = answer]
    /\ UNCHANGED <<vars, request, heard, sentAs>>

\* The exception handlers, and _run_tool(): what the caller of r has been told.
Answer(r) ==
    CASE status[r] # "none" -> status[r]
      [] at[r] = "listed" -> "ok"
      [] at[r] \in {"invalid", "unavailable"} -> at[r]
      [] OTHER -> "none"

-----------------------------------------------------------------------------
Resolving(r) == (Refreshing(r) \/ Cancel(r)) /\ UNCHANGED requestVars
Around == (TypeSafeAnswers \/ Tick) /\ UNCHANGED requestVars

RequestsNext ==
    \/ \E r \in Readers : Resolving(r) \/ Run(r) \/ Unload(r) \/ \E q \in Kinds : Arrive(r, q)
    \/ Around

RequestsSpec == RequestsInit /\ [][RequestsNext]_allVars

(* The lock serves its waiters in turn (SF).  list_models() and a forward have *)
(* timeouts, so they end in one way or the other (WF); TypeSafe owes no answer.*)
(* An unload waits only for processes that are killed in the end.              *)
RequestsFairSpec ==
    /\ RequestsSpec
    /\ \A r \in Readers : /\ SF_allVars((FindsItFresh(r) \/ Ask(r)) /\ UNCHANGED requestVars)
                          /\ WF_allVars((RefreshSucceeds(r) \/ RefreshFails(r)) /\ UNCHANGED requestVars)
                          /\ WF_allVars(Run(r)) /\ WF_allVars(Unload(r))
=============================================================================
