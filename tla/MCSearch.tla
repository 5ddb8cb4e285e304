------------------------------ MODULE MCSearch ------------------------------
(***************************************************************************)
(* The schedules of an autonomous search, the drain loop of the YouTube    *)
(* client, the pages of a query run and the pacing of Gemini calls.  They  *)
(* share no variable and are explored one at a time: subject names the     *)
(* one that moves.                                                         *)
(***************************************************************************)
EXTENDS YouTubeRequestScheduler, GeminiCapacity, QueryRun, TLC

CONSTANTS urgent, automatic, probe, classification, extraction

VARIABLE subject

PriorityOf == urgent :> "manual" @@ automatic :> "autonomous" @@ probe :> "enrichment"
LineageOf == urgent :> {} @@ automatic :> {"NORMAL"} @@ probe :> {"NORMAL", "PROBE"}

\* Both Gemini calls use the one key.
OperationOf == classification :> "semantic" @@ extraction :> "vocabulary"
KeyOf == classification :> "gemini-1" @@ extraction :> "gemini-1"

EffectivePagesOf == <<2, 1>>

SearchInit == subject \in {"scheduler", "runs", "gemini"} /\ Init /\ RunInit /\ GeminiInit

SearchNext ==
  /\ UNCHANGED subject
  /\ \/ subject = "scheduler" /\ SchedulerNext /\ UNCHANGED <<runVars, geminiVars>>
     \/ subject = "runs" /\ RunNext /\ UNCHANGED <<vars, geminiVars>>
     \/ subject = "gemini" /\ GeminiNext /\ UNCHANGED <<vars, runVars>>

\* Nothing that fairness speaks of is enabled in the part that rests.
SearchSpec ==
  /\ SearchInit /\ [][SearchNext]_<<subject, vars, runVars, geminiVars>>
  /\ SchedulerFairness /\ RunFairness /\ GeminiFairness

\* The types of the three parts, and what the rows of a chain of runs are to each other.
SearchInvariant == TypeOK /\ RunTypeOK /\ GeminiTypeOK /\ PagesInOrder /\ ContinuationsLinked
=============================================================================
