------------------------- MODULE BundlesProperties -------------------------
(* What preparation promises, whatever download, crash or upgrade came before. *)
EXTENDS Bundles

\* The types of the variables.
TypeOK ==
    /\ phase \in {"off", "preparing", "failed", "ready"}
    /\ image \in Images /\ mount \in {"writable", "readonly", "unusable"}
    /\ DOMAIN disk = Providers /\ DOMAIN loaded = Providers /\ DOMAIN fetching = Providers
    /\ \A p \in Providers :
          /\ disk[p] \in [Files[p] -> Images \cup {Absent, Damaged}]
          /\ loaded[p] \in [Files[p] -> Images \cup {Absent, Damaged}]
          /\ fetching[p] \subseteq Files[p]
    /\ unprepared \subseteq Providers
    /\ child \in [Providers -> {"none", "check", "fetch", "require", "verified", "serving"}]
    /\ harmed \subseteq Providers /\ faults \in 0..MaxFaults

Serving == {p \in Providers : child[p] = "serving"}

-----------------------------------------------------------------------------
(* Invariants *)

\* No server loads an incomplete bundle, and CLM loads nothing but the pinned
\* checkpoint, whatever an interrupted or bad download, a crash or an upgrade
\* left on the disk, and however long after its check it loads, unless someone
\* else changes a file in between: that the service does not notice.
ServesWhole ==
    \A p \in Serving \ harmed : \A f \in Files[p] :
        /\ loaded[p][f] # Absent
        /\ p \in Digested => loaded[p][f] = image

\* "Downloads and verifies both pinned model bundles": what is served is what
\* the running image pins, and never what another one does.
ServesPinned ==
    \A p \in Serving : \A f \in Files[p] : loaded[p][f] \notin Images \ {image}

-----------------------------------------------------------------------------
(* Action properties *)

\* "Before readiness": the service becomes ready only when every bundle is
\* whole, also the ones it prepared first, but for those someone else has
\* changed since.
ReadyIsPrepared ==
    [][phase # "ready" /\ phase' = "ready" => \A p \in Providers \ harmed : Whole(p)]_vars

\* "Download only missing files": the service itself never replaces a file that
\* is what the image pins, so a download that is cut short is resumed where it
\* ended.
GoodFilesStay ==
    [][\A p \in Providers : \A f \in Files[p] :
         disk[p][f] = image /\ disk'[p][f] # image => Harm(p, f)]_vars

-----------------------------------------------------------------------------
(* Liveness *)

\* Whatever an earlier life left in the directory, the service gets ready once
\* nothing goes wrong any more: it repairs a writable directory, and a whole
\* one is enough when it is read-only.
BecomesReady ==
    phase = "off" ~> \/ phase = "ready" \/ mount = "unusable"
                     \/ mount = "readonly" /\ \E p \in Providers : ~Whole(p)
=============================================================================
