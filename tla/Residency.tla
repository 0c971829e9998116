------------------------------ MODULE Residency ------------------------------
(***************************************************************************)
(* What the supervisor promises to the code that uses local providers,     *)
(* without its lock, tasks and timers: at most Slots providers are loaded, *)
(* a lease is granted only on a loaded live provider while the service is  *)
(* open, and a live provider with a lease is unloaded only after closing.  *)
(***************************************************************************)
EXTENDS Naturals, FiniteSets

CONSTANTS Names, Slots

VARIABLES
    open,     \* leases may be granted
    loaded,   \* the providers with a process
    live,     \* those of them whose process still runs
    leases    \* the number of leases on each provider

vars == <<open, loaded, live, leases>>

Init == /\ open = FALSE /\ loaded = {} /\ live = {}
        /\ leases = [p \in Names |-> 0]

Open == ~open /\ open' = TRUE /\ UNCHANGED <<loaded, live, leases>>
Close == open /\ open' = FALSE /\ UNCHANGED <<loaded, live, leases>>

Load(p) ==
    /\ open /\ p \notin live
    /\ p \in loaded \/ Cardinality(loaded) < Slots
    /\ loaded' = loaded \cup {p} /\ live' = live \cup {p}
    /\ UNCHANGED <<open, leases>>

Unload(p) ==
    /\ p \in loaded
    /\ p \in live => leases[p] = 0 \/ ~open
    /\ loaded' = loaded \ {p} /\ live' = live \ {p}
    /\ UNCHANGED <<open, leases>>

Die(p) ==
    /\ p \in live /\ live' = live \ {p}
    /\ UNCHANGED <<open, loaded, leases>>

Grant(p) ==
    /\ open /\ p \in live
    /\ leases' = [leases EXCEPT ![p] = @ + 1]
    /\ UNCHANGED <<open, loaded, live>>

GiveBack(p) ==
    /\ leases[p] > 0
    /\ leases' = [leases EXCEPT ![p] = @ - 1]
    /\ UNCHANGED <<open, loaded, live>>

Next == Open \/ Close \/ \E p \in Names : Load(p) \/ Unload(p) \/ Die(p)
                                          \/ Grant(p) \/ GiveBack(p)

Spec == Init /\ [][Next]_vars
=============================================================================
