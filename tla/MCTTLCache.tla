----------------------------- MODULE MCTTLCache -----------------------------
(***************************************************************************)
(* Three keys compete for two places; a value lives for two ticks.         *)
(***************************************************************************)
EXTENDS TTLCache
=============================================================================
