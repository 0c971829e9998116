----------------------------- MODULE MCRequests -----------------------------
(* Two requests; TypeSafe publishes names of local providers too, and drops *)
(* the other; deployments with and without each provider, and invalid ones. *)
EXTENDS RequestsProperties

CONSTANTS r1, r2, noReader, noRequest

MCReaders == {r1, r2}
MCCancellable == {r2}
MCCatalogs == {{"von", "jev-1"}, {"von"}}

Item(model, config) == [model |-> model, config |-> config]
Laya == Item("laya-auto", "empty")
Clm == Item("clm", "temperature")
Von == Item("von", "empty")
Jev == Item("jev-1", "empty")
LayaWarm == Item("laya-english", "temperature")
MCWanted == {<<>>, <<Jev>>, <<Jev, Clm, Jev>>, <<Laya, LayaWarm>>, <<Laya, Von>>}

Plain == [via |-> "rest", op |-> "batch", key |-> TRUE, id |-> FALSE, length |-> "fits",
          body |-> "good", items |-> <<>>]
Batch(wanted) == [Plain EXCEPT !.items = wanted]
One == [Batch(<<Jev>>) EXCEPT !.op = "one"]
MCKinds ==
    {Batch(wanted) : wanted \in MCWanted \ {<<Jev>>}}
    \cup {[Plain EXCEPT !.op = "models", !.length = "none"], [Plain EXCEPT !.op = "unload"],
          [One EXCEPT !.via = "mcp"], [One EXCEPT !.key = FALSE, !.id = TRUE],
          [One EXCEPT !.length = "unreadable"], [Plain EXCEPT !.op = "one", !.body = "broken"],
          [Plain EXCEPT !.op = "one", !.body = "malformed", !.via = "mcp"]}

Default == [laya |-> TRUE, von |-> TRUE, clm |-> "auto", jev |-> "auto", url |-> FALSE,
            key |-> FALSE, device |-> "cpu", variant |-> "cpu", installed |-> "cpu",
            apiKey |-> FALSE, cap |-> 0]
MCDeployments ==
    {[Default EXCEPT !.von = FALSE, !.key = TRUE, !.url = TRUE],
     [Default EXCEPT !.laya = FALSE, !.key = TRUE, !.apiKey = TRUE, !.cap = 1],
     [Default EXCEPT !.clm = "on", !.jev = "on"],
     [Default EXCEPT !.device = "cuda"],
     Default}
=============================================================================
