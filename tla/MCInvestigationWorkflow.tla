---------------------- MODULE MCInvestigationWorkflow ----------------------
(* Instances of InvestigationWorkflow for TLC.                              *)
EXTENDS InvestigationWorkflow, TLC

CONSTANTS w1, w2, metadata, playlist

TwoWorkers == {w1, w2}
TwoActions == {metadata, playlist}
Symmetry   == Permutations(TwoWorkers)
=============================================================================
