--------------------------- MODULE MCCanaryQuota ---------------------------
(* Two cohorts that each ask for the whole allowance.                       *)
EXTENDS CanaryQuota, TLC

CONSTANTS a, b, c1, c2

WholeAllowance == a :> 2 @@ b :> 2
=============================================================================
