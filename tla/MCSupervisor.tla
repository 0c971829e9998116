---------------------------- MODULE MCSupervisor ----------------------------
(* The supervisor on small sets of providers and tasks. *)
EXTENDS SupervisorProperties, TLC

CONSTANTS laya, von, clm, c1, c2, c3, a1, reaper, lifespan, noOne, every

MCTwoProviders == {laya, von}
MCThreeProviders == {laya, von, clm}
MCTwoClients == {c1, c2}
MCThreeClients == {c1, c2, c3}
MCOneAdmin == {a1}
MCNobody == {}
MCThreeAndAdmin == {c1, c2, c3, a1}

\* Clients differ only in what they do, and so do the providers.
MCSymmetry == Permutations(Providers) \cup Permutations(Clients)
=============================================================================
