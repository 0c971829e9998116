------------------------------ MODULE Routing ------------------------------
(***************************************************************************)
(* Settings and ModelRouter: which providers a deployment has, what it     *)
(* lists, and where the request for a model goes.                          *)
(*                                                                         *)
(* A deployment is the environment Settings reads, down to what decides    *)
(* between providers: two switches that may be "auto", whether the CLM     *)
(* embeddings URL and TypeSafe's key are given (url, key), and device,     *)
(* image variant and the variant the image was built for ("none" outside   *)
(* an image).                                                              *)
(*                                                                         *)
(* Where two forms of an operator stand together, the first is the form a  *)
(* mistake would give it; only the second is used.                         *)
(***************************************************************************)

-----------------------------------------------------------------------------
(* Settings *)

\* A switch that is "auto" follows what its provider needs.
SwitchedOn(switch, given) == switch = "on" \/ (switch = "auto" /\ given)

Enabled(d) ==
    {p \in {"laya", "von", "clm", "jev"} :
        CASE p = "clm" -> SwitchedOn(d.clm, d.url)
          [] p = "jev" -> SwitchedOn(d.jev, d.key)
          [] OTHER -> d[p]}

\* validate_configuration(): whatever else does not start.
Valid(d) ==
    /\ "clm" \in Enabled(d) => d.url
    /\ "jev" \in Enabled(d) => d.key
    /\ Enabled(d) # {}
    /\ d.device = d.variant /\ d.installed \in {"none", d.variant}

-----------------------------------------------------------------------------
(* The router's tables *)

LayaEntries == {"laya", "laya-auto", "laya-latest",
                "laya-english", "laya-multilingual", "laya-typed-decisions"}
VonEntries == {"von", "von-latest", "von-1.1", "von-1.1.0"}
ClmEntries == {"clm", "clm-latest", "clm-0.1", "clm-0.1-8b"}

LayaAutoAliases == {"laya", "laya-auto", "laya-latest"}
LayaCheckpoints == {"laya-english", "laya-multilingual", "laya-typed-decisions"}

\* local_catalog(): the names of the enabled local providers.
LocalCatalog(d) ==
    UNION {CASE p = "laya" -> LayaEntries [] p = "von" -> VonEntries [] p = "clm" -> ClmEntries :
             p \in Enabled(d) \ {"jev"}}

-----------------------------------------------------------------------------
(* resolve() *)

Route(provider, public) == [provider |-> provider, public |-> public]

\* An alias answers under the name of its model; a checkpoint keeps its own.
LocalRoutesAnyway(d, name) ==
    {r \in {Route("laya", "laya")} : name \in LayaAutoAliases}
    \cup {r \in {Route("laya", name)} : name \in LayaCheckpoints}
    \cup {r \in {Route("von", "von-1.1")} : name \in VonEntries}
    \cup {r \in {Route("clm", "clm-0.1-8b")} : name \in ClmEntries}
LocalRoutes(d, name) ==
    {r \in {Route("laya", "laya")} : name \in LayaAutoAliases /\ "laya" \in Enabled(d)}
    \cup {r \in {Route("laya", name)} : name \in LayaCheckpoints /\ "laya" \in Enabled(d)}
    \cup {r \in {Route("von", "von-1.1")} : name \in VonEntries /\ "von" \in Enabled(d)}
    \cup {r \in {Route("clm", "clm-0.1-8b")} : name \in ClmEntries /\ "clm" \in Enabled(d)}

\* The routes of a name, with the hosted names known: one, or none if it is
\* unknown.  A local provider goes before a hosted name.
Routes(d, name, hosted) ==
    IF LocalRoutes(d, name) # {} THEN LocalRoutes(d, name)
    ELSE {r \in {Route("jev", name)} : name \in hosted /\ "jev" \in Enabled(d)}

\* validate_provider_config(): only CLM takes a setting, its temperature.
AcceptsConfigAnywhere(route, config) == config \in {"empty", "temperature"}
AcceptsConfig(route, config) ==
    config = "empty" \/ (route.provider = "clm" /\ config = "temperature")
=============================================================================
