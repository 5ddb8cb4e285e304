----------------------------- MODULE PacificDay -----------------------------
(***************************************************************************)
(* The Pacific quota day that every official YouTube budget is counted by  *)
(* (pacificDateKey in src/server/quotaPolicy.ts).                          *)
(***************************************************************************)
EXTENDS Naturals

CONSTANT LastDay   \* bound on the Pacific days that pass

ASSUME DayAssumption == LastDay \in Nat \ {0}

VARIABLE today   \* the current Pacific quota day

Days == 1 .. LastDay

NextDay == today < LastDay /\ today' = today + 1
=============================================================================
