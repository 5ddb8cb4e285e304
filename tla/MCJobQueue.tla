----------------------------- MODULE MCJobQueue -----------------------------
(* Instances of JobQueue for TLC: a few jobs of chosen types.               *)
EXTENDS JobQueue, TLC

CONSTANTS j1, j2, w1, w2

OneJob  == {j1}
TwoJobs == {j1, j2}
None    == {}

(* Every job in one scope: two enrichments of one channel.                  *)
OneScope == [j \in Job |-> "scope"]

TwoWorkers == {w1, w2}
Symmetry   == Permutations(TwoWorkers)
=============================================================================
