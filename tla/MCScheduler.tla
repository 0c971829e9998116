---------------------------- MODULE MCScheduler ----------------------------
(* The decision service with a few callers and models. *)
EXTENDS SchedulerProperties, TLC

CONSTANTS laya, layaEnglish, von, clm, jev, s1, s2, b1, nobody

MCAliasesCpu == laya :> {laya, layaEnglish} @@ clm :> {clm}
MCAliasesCuda == laya :> {laya, layaEnglish} @@ von :> {von}

MCAsks == [c \in Singles \cup Batches |-> UNION {Aliases[p] : p \in Locals} \cup Hosted]
MCAsksNames == s1 :> {layaEnglish, clm} @@ b1 :> {laya, clm}
=============================================================================
