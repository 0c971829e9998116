------------------------------ MODULE MCBundles ------------------------------
(* Laya, known by its files, and CLM, known by its digest. *)
EXTENDS BundlesProperties, TLC

CONSTANTS laya, clm, weights, config, heads, v1, v2, absent, damaged

MCProviders == {laya, clm}
MCFiles == laya :> {weights, config} @@ clm :> {heads}
=============================================================================
