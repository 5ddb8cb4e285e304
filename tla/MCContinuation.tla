--------------------------- MODULE MCContinuation ---------------------------
(* A run of two pages whose last page meets the safety ceiling, and its      *)
(* continuation; a job may be retried once and no other fault occurs.        *)
EXTENDS QueryRun

EffectivePagesOf == <<2, 1>>
=============================================================================
