------------------------------ MODULE Bundles ------------------------------
(***************************************************************************)
(* The model bundles of the local providers, on the directory mounted at   *)
(* /models, which outlives the container.  provider_entrypoint ensures a   *)
(* bundle in two kinds of child: the `prepare' commands that start() runs  *)
(* one after the other, and each server before it loads its model; CLM,    *)
(* which loads its checkpoint for the first request, serves in between.    *)
(* `child' says what the child of a provider does:                         *)
(*                                                                         *)
(*   none                                                                  *)
(*   check      looks at the files                                         *)
(*   fetch      snapshot_download() is under way                           *)
(*   require    looks at the files again                                   *)
(*   verified   the server has ensured its bundle and has yet to load it   *)
(*   serving    the server has loaded its bundle                           *)
(*                                                                         *)
(* A file is absent, damaged, or of the revision some image pins.  The     *)
(* files of one provider have nothing to do with those of another.         *)
(*                                                                         *)
(* Where several forms of an operator stand together, all but the last are *)
(* forms a mistake would give it; only the last is used.                   *)
(***************************************************************************)
EXTENDS Naturals

CONSTANTS
    Providers,   \* the enabled local providers
    Files,       \* per provider, the files its bundle must have
    Digested,    \* the providers whose files have a pinned digest: CLM
    Images,      \* the revisions the images of the service pin
    Absent, Damaged,
    MaxFaults    \* bound on what goes wrong, upgrades included

ASSUME BundlesAssumption ==
    /\ DOMAIN Files = Providers /\ Images # {} /\ MaxFaults \in Nat
    /\ Digested \subseteq Providers /\ \A p \in Digested : \E f \in Files[p] : Files[p] = {f}
    /\ Absent \notin Images /\ Damaged \notin Images /\ Absent # Damaged

VARIABLES
    phase,       \* of the service: off, preparing, failed, ready
    image,       \* the revision the image pins
    mount,       \* the directory: "writable", "readonly" or "unusable"
    disk,        \* per provider, its files
    unprepared,  \* the providers start() has yet to prepare
    child,       \* per provider, what its child does
    fetching,    \* per provider, what snapshot_download() has yet to fetch
    loaded,      \* per provider, the files its last server loaded
    harmed,      \* history: the providers with a file someone else changed after
                 \* they were last found whole and before a server loaded them
    faults

childVars == <<child, fetching, loaded>>
vars == <<phase, image, mount, disk, unprepared, childVars, harmed, faults>>

Init ==
    /\ phase = "off" /\ image \in Images /\ mount = "writable"
    /\ disk = [p \in Providers |-> [f \in Files[p] |-> Absent]]
    /\ unprepared = {}
    /\ child = [p \in Providers |-> "none"]
    /\ fetching = [p \in Providers |-> {}]
    /\ loaded = [p \in Providers |-> [f \in Files[p] |-> Absent]]
    /\ harmed = {} /\ faults = 0

Goes(p, place) == child' = [child EXCEPT ![p] = place]
Fault == faults < MaxFaults /\ faults' = faults + 1

-----------------------------------------------------------------------------
(* start(), and the servers the supervisor spawns once it is ready *)

\* The container runs again, maybe from another image or on another mount.
Boot ==
    /\ phase \in {"off", "failed"}
    /\ \/ UNCHANGED <<image, mount, faults>>
       \/ Fault /\ image' \in Images /\ mount' \in {"writable", "readonly", "unusable"}
    /\ phase' = "preparing" /\ unprepared' = Providers
    /\ UNCHANGED <<disk, childVars, harmed>>

Prepare(p) ==
    /\ phase = "preparing" /\ p \in unprepared /\ \A q \in Providers : child[q] = "none"
    /\ Goes(p, "check")
    /\ UNCHANGED <<phase, image, mount, disk, unprepared, fetching, loaded, harmed, faults>>

Ready ==
    /\ phase = "preparing" /\ unprepared = {}
    /\ phase' = "ready"
    /\ UNCHANGED <<image, mount, disk, unprepared, childVars, harmed, faults>>

Spawn(p) ==
    /\ phase = "ready" /\ child[p] = "none"
    /\ Goes(p, "check")
    /\ UNCHANGED <<phase, image, mount, disk, unprepared, fetching, loaded, harmed, faults>>

-----------------------------------------------------------------------------
(* ensure_laya_bundle(), ensure_von_model(), ensure_clm_checkpoint() *)

WholeInPart(p) == \E f \in Files[p] : disk[p][f] # Absent /\ (p \in Digested => disk[p][f] = image)
Whole(p) == \A f \in Files[p] : disk[p][f] # Absent /\ (p \in Digested => disk[p][f] = image)

\* A prepare command exits with 0, a server goes on to load its bundle.
Succeeds(p) ==
    /\ IF phase = "preparing"
       THEN Goes(p, "none") /\ unprepared' = unprepared \ {p}
       ELSE Goes(p, "verified") /\ UNCHANGED unprepared
    /\ harmed' = harmed \ {p}
    /\ UNCHANGED <<phase, loaded>>

\* A child exits with an error: start() raises, acquire() raises.
FailsAlone(p) ==
    /\ Goes(p, "none") /\ unprepared' = unprepared \ {p}
    /\ UNCHANGED <<phase, loaded, harmed>>
Fails(p) ==
    /\ Goes(p, "none")
    /\ phase' = IF phase = "preparing" THEN "failed" ELSE phase
    /\ UNCHANGED <<unprepared, loaded, harmed>>

\* What snapshot_download() fetches: a file it finds at its revision it takes
\* as it is, damaged or not, unless the download is forced.
Outdated(p) == {f \in Files[p] : disk[p][f] \notin {image, Damaged}}

ForcedNever(p) == FALSE
ForcedAnyway(p) == \E f \in Files[p] : disk[p][f] # Absent
Forced(p) == p \in Digested /\ \E f \in Files[p] : disk[p][f] # Absent

Check(p) ==
    /\ child[p] = "check"
    /\ \/ mount = "unusable" /\ Fails(p) /\ UNCHANGED fetching
       \/ mount # "unusable" /\ Whole(p) /\ Succeeds(p) /\ UNCHANGED fetching
       \/ mount = "readonly" /\ ~Whole(p) /\ Fails(p) /\ UNCHANGED fetching
       \/ /\ mount = "writable" /\ ~Whole(p) /\ Goes(p, "fetch")
          /\ fetching' = [fetching EXCEPT ![p] = IF Forced(p) THEN Files[p] ELSE Outdated(p)]
          /\ UNCHANGED <<phase, unprepared, loaded, harmed>>
    /\ UNCHANGED <<image, mount, disk, faults>>

\* A file is put in place when it is complete; now and then it is not what the
\* revision has.
Arrive(p, f) ==
    /\ child[p] = "fetch" /\ f \in fetching[p]
    /\ fetching' = [fetching EXCEPT ![p] = @ \ {f}]
    /\ \/ disk' = [disk EXCEPT ![p][f] = image] /\ UNCHANGED faults
       \/ Fault /\ disk' = [disk EXCEPT ![p][f] = Damaged]
    /\ UNCHANGED <<phase, image, mount, unprepared, child, loaded, harmed>>

Fetched(p) ==
    /\ child[p] = "fetch" /\ fetching[p] = {}
    /\ Goes(p, "require")
    /\ UNCHANGED <<phase, image, mount, disk, unprepared, fetching, loaded, harmed, faults>>

FetchFails(p) ==
    /\ child[p] = "fetch" /\ Fault /\ Fails(p)
    /\ fetching' = [fetching EXCEPT ![p] = {}]
    /\ UNCHANGED <<image, mount, disk>>

Require(p) ==
    /\ child[p] = "require"
    /\ (Whole(p) /\ Succeeds(p)) \/ (~Whole(p) /\ Fails(p))
    /\ UNCHANGED <<image, mount, disk, fetching, faults>>

\* A server loads what is there now.  torch.load() needs its file, and may fail:
\* then CLM serves on, and the next request loads again, without a check.  Laya
\* and Von may do with a part of their files, or end (ChildEnds).
Load(p) ==
    /\ child[p] = "verified"
    /\ p \in Digested => \A f \in Files[p] : disk[p][f] # Absent
    /\ loaded' = [loaded EXCEPT ![p] = disk[p]]
    /\ Goes(p, "serving")
    /\ UNCHANGED <<phase, image, mount, disk, unprepared, fetching, harmed, faults>>

-----------------------------------------------------------------------------
(* What ends a child, the container or a file *)

\* An unload, a kill or a crash of a server, or of one about to serve.
ChildEnds(p) ==
    /\ phase = "ready" /\ child[p] # "none"
    /\ Goes(p, "none") /\ fetching' = [fetching EXCEPT ![p] = {}]
    /\ UNCHANGED <<phase, image, mount, disk, unprepared, loaded, harmed, faults>>

ContainerEnds ==
    /\ phase \in {"preparing", "ready"} /\ Fault
    /\ phase' = "off" /\ unprepared' = {}
    /\ child' = [p \in Providers |-> "none"] /\ fetching' = [p \in Providers |-> {}]
    /\ UNCHANGED <<image, mount, disk, loaded, harmed>>

\* Someone who shares the directory deletes or damages a file, at any time.
Harm(p, f) ==
    /\ Fault
    /\ \E c \in {Absent, Damaged} : disk' = [disk EXCEPT ![p][f] = c]
    /\ harmed' = IF child[p] = "serving" THEN harmed ELSE harmed \cup {p}
    /\ UNCHANGED <<phase, image, mount, unprepared, childVars>>

-----------------------------------------------------------------------------
Ensuring(p) == Check(p) \/ Fetched(p) \/ Require(p) \/ \E f \in Files[p] : Arrive(p, f)

Next ==
    \/ Boot \/ Ready \/ ContainerEnds
    \/ \E p \in Providers : \/ Prepare(p) \/ Spawn(p) \/ Ensuring(p) \/ FetchFails(p) \/ Load(p)
                            \/ ChildEnds(p)
                            \/ \E f \in Files[p] : Harm(p, f)

Spec == Init /\ [][Next]_vars

(* The container restarts unless stopped, start() goes on, and a download that *)
(* does not fail ends.                                                         *)
FairSpec ==
    /\ Spec
    /\ WF_vars(Boot) /\ WF_vars(Ready)
    /\ \A p \in Providers : WF_vars(Prepare(p)) /\ WF_vars(phase = "preparing" /\ Ensuring(p))
=============================================================================
