-------------------------- MODULE VocabularyBudget --------------------------
(***************************************************************************)
(* The ledger that admits vocabulary extraction calls to an AI provider    *)
(* (src/server/dbCore.ts) and the extraction that uses it                  *)
(* (src/server/queryIntelligence.ts).  A request is one creator's metadata *)
(* on one day; a job that fails is retried and asks for the same request   *)
(* again.  An advisory lock makes every admission one step.                *)
(*                                                                         *)
(* A call costs what its reservation sets aside; costs are counted in      *)
(* calls.  One day is modelled.                                            *)
(***************************************************************************)
EXTENDS Naturals, FiniteSets, FiniteSetsExt

CONSTANTS AiRequests, Extractions, NoExtraction,
          DailyCalls,       \* the policy's dailyCalls
          DailyCost         \* the policy's daily cost cap, in calls

VARIABLES ledger,      \* request -> its row of native_vocabulary_ai_runs
          extraction   \* extraction -> its place and its request

vocabularyVars == <<ledger, extraction>>

\* lease is the extraction whose token the row holds; live, that the lease has not expired.
LedgerRow == [status : {"absent", "RESERVED", "SUCCEEDED", "FAILED", "BUDGET_SKIPPED"},
              actual : Nat, response : BOOLEAN, lease : Extractions \cup {NoExtraction}, live : BOOLEAN]
NoLedgerRow == [status |-> "absent", actual |-> 0, response |-> FALSE, lease |-> NoExtraction, live |-> FALSE]

VocabularyTypeOK ==
  /\ ledger \in [AiRequests -> LedgerRow]
  /\ extraction \in [Extractions -> [at : {"new", "admitted", "answered", "replaying", "recorded", "done"},
                                     request : AiRequests, called : BOOLEAN]]

VocabularyInit ==
  /\ ledger = [q \in AiRequests |-> NoLedgerRow]
  /\ extraction \in [Extractions -> [at : {"new"}, request : AiRequests, called : {FALSE}]]

Reserved(q) == ledger[q].status = "RESERVED"

\* An abandoned reservation keeps its cost as actual spend.
Reclaimed(row) == [row EXCEPT !.status = "FAILED", !.live = FALSE, !.lease = NoExtraction,
                              !.actual = IF @ > 1 THEN @ ELSE 1]

Abandoned_AnyLapsed(q) == {p \in AiRequests : Reserved(p) /\ ~ledger[p].live}

\* Before the caps are counted: this request's expired lease, and every other one of
\* which no response was stored.
Abandoned(q) == {p \in AiRequests : /\ Reserved(p) /\ ~ledger[p].live
                                    /\ (p = q \/ ~ledger[p].response)}
Swept(q) == [p \in AiRequests |-> IF p \in Abandoned(q) THEN Reclaimed(ledger[p]) ELSE ledger[p]]

Admits(rows) ==
  LET counted == {p \in AiRequests : rows[p].status \in {"RESERVED", "SUCCEEDED", "FAILED"}}
      outstanding == {p \in AiRequests : rows[p].status = "RESERVED"}
      spent == MapThenSumSet(LAMBDA p : rows[p].actual, AiRequests)
  IN Cardinality(counted) < DailyCalls /\ spent + Cardinality(outstanding) + 1 <= DailyCost

Step(e, at) == extraction' = [extraction EXCEPT ![e].at = at]

(***************************************************************************)
(* reserveNativeVocabularyAiRun                                            *)
(***************************************************************************)
\* A stored response is replayed under a fresh lease token, whether or not its lease ran out.
Replays(q) == Reserved(q) /\ ledger[q].response

Replay(e) ==
  LET q == extraction[e].request IN
  /\ extraction[e].at = "new" /\ Replays(q)
  /\ ledger' = [ledger EXCEPT ![q].lease = e, ![q].live = TRUE]
  /\ Step(e, "replaying")

\* Any other row there is decides: only an expired reservation is opened again.
Duplicate(e) ==
  LET q == extraction[e].request IN
  /\ extraction[e].at = "new" /\ ledger[q].status # "absent" /\ ~Replays(q) /\ q \notin Abandoned(q)
  /\ Step(e, "done") /\ UNCHANGED ledger

Reserve(e) ==
  LET q == extraction[e].request
      rows == Swept(q)
  IN /\ extraction[e].at = "new" /\ ~Replays(q)
     /\ ledger[q].status = "absent" \/ q \in Abandoned(q)
     /\ IF Admits(rows)
        THEN /\ ledger' = [rows EXCEPT ![q] = [status |-> "RESERVED", actual |-> rows[q].actual,
                                               response |-> FALSE, lease |-> e, live |-> TRUE]]
             /\ Step(e, "admitted")
        ELSE /\ ledger' = IF rows[q].status = "absent"
                          THEN [rows EXCEPT ![q].status = "BUDGET_SKIPPED"] ELSE rows
             /\ Step(e, "done")

(***************************************************************************)
(* The extraction                                                          *)
(***************************************************************************)
\* The provider is called, with an answer that can be parsed or without one.
Call(e, parsed) ==
  /\ extraction[e].at = "admitted" /\ ~extraction[e].called
  /\ extraction' = [extraction EXCEPT ![e].called = TRUE, ![e].at = IF parsed THEN "answered" ELSE @]
  /\ UNCHANGED ledger

Owns(e) == LET q == extraction[e].request IN Reserved(q) /\ ledger[q].lease = e

\* The response is stored before anything is admitted; an extraction that lost its lease stops.
Record(e) ==
  LET q == extraction[e].request IN
  /\ extraction[e].at \in {"answered", "replaying"}
  /\ IF Owns(e) THEN /\ ledger' = [ledger EXCEPT ![q].response = TRUE, ![q].live = TRUE]
                     /\ Step(e, "recorded")
                ELSE Step(e, "done") /\ UNCHANGED ledger

\* finishAiRun, finishReplayRun: the call is charged, or the row of a call that was never
\* made is released, unless it carries the spend of an earlier owner.
Closed(e) ==
  LET row == ledger[extraction[e].request] IN
  IF extraction[e].at = "recorded" THEN [row EXCEPT !.status = "SUCCEEDED", !.actual = @ + 1]
  ELSE IF extraction[e].called THEN [row EXCEPT !.status = "FAILED", !.actual = @ + 1]
  ELSE IF row.actual = 0 THEN NoLedgerRow
  ELSE [row EXCEPT !.status = "FAILED", !.response = FALSE]

Finish(e) ==
  /\ extraction[e].at \in {"admitted", "recorded"}
  /\ ledger' = IF Owns(e) THEN [ledger EXCEPT ![extraction[e].request] =
                                  [Closed(e) EXCEPT !.lease = NoExtraction, !.live = FALSE]] ELSE ledger
  /\ Step(e, "done")

Crash(e) == /\ extraction[e].at \in {"admitted", "answered", "replaying", "recorded"}
            /\ Step(e, "done") /\ UNCHANGED ledger

LeaseExpires(q) == /\ Reserved(q) /\ ledger[q].live
                   /\ ledger' = [ledger EXCEPT ![q].live = FALSE]
                   /\ UNCHANGED extraction

VocabularyNext ==
  \/ \E e \in Extractions : \/ Replay(e) \/ Duplicate(e) \/ Reserve(e) \/ Record(e) \/ Finish(e) \/ Crash(e)
                            \/ \E parsed \in BOOLEAN : Call(e, parsed)
  \/ \E q \in AiRequests : LeaseExpires(q)

VocabularySpec == VocabularyInit /\ [][VocabularyNext]_vocabularyVars

(***************************************************************************)
(* Properties                                                              *)
(***************************************************************************)
\* A stored response stays available to every retry until it is admitted: no sweep, late
\* owner or expired lease throws away an answer that was paid for.
PaidResponseKept ==
  [][\A q \in AiRequests : Replays(q) => ledger'[q].response /\ ledger'[q].status \in {"RESERVED", "SUCCEEDED"}]_vocabularyVars
=============================================================================
