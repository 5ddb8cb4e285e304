------------------------- MODULE ObservationOutbox -------------------------
(***************************************************************************)
(* The outbox of Phase B observations (src/server/                         *)
(* phaseBObservationOutbox.ts): what retrieval, classification and human   *)
(* review observed is captured as a row under a deterministic key and then *)
(* recorded, by whoever captured it or by the sweep of a maintenance tick. *)
(*                                                                         *)
(* Only rows are shared: every processor runs in a replica of its own,     *)
(* which is the worst case.  Processing is not fenced: a row being         *)
(* recorded may be claimed again, and both processors then write its end.  *)
(* Every captured payload can be recorded; errors are faults, at most      *)
(* MaxMishaps of them.                                                     *)
(***************************************************************************)
EXTENDS Naturals

CONSTANTS Assignments,  \* RETRIEVAL_ASSIGNMENT observations, by their keys
          Invalid,      \* those an old replica captured under a policy without identity
          Diagnostics,  \* PRODUCTION_DIAGNOSTIC
          Labels,       \* GROUND_TRUTH_LABEL, keyed by the review decision
          Observers,    \* flows that observe once
          Subject,      \* observer -> what it observes
          Sweepers,     \* reconciliation loops, one per process
          NoObservation, MaxMishaps

Observations == Assignments \cup Diagnostics \cup Labels
Processors == Observers \cup Sweepers

ASSUME OutboxAssumption ==
  /\ Invalid \subseteq Assignments
  /\ Subject \in [Observers -> Observations]
  /\ Observers \cap Sweepers = {}
  /\ NoObservation \notin Observations
  /\ MaxMishaps \in Nat

VARIABLES outbox,     \* observation -> status of its outbox row, "none" without one
          due,       \* observation -> run_after has passed
          overtime,  \* observation -> updated_at is 10 minutes ago
          recorded,  \* observation -> the parts of its result that are stored
          reviewed,  \* labels whose review decision is committed
          retired,   \* observations in the retirement ledger
          task,      \* processor -> what it is doing
          mishaps

outboxVars == <<outbox, due, overtime, recorded, reviewed, retired, task, mishaps>>

Task == [at : {"waiting", "capture", "claim", "record", "bundle", "complete", "retry", "query", "select", "done"},
         of : Observations \cup {NoObservation},
         todo : SUBSET Observations, phase : {"none", "labels", "pending"}]
Waiting == [at |-> "waiting", of |-> NoObservation, todo |-> {}, phase |-> "none"]

OutboxTypeOK ==
  /\ outbox \in [Observations -> {"none", "PENDING", "PROCESSING", "COMPLETED"}]
  /\ due \in [Observations -> BOOLEAN] /\ overtime \in [Observations -> BOOLEAN]
  /\ recorded \in [Observations -> SUBSET {"result", "evidence"}]
  /\ reviewed \subseteq Labels /\ retired \subseteq Observations
  /\ task \in [Processors -> Task]
  /\ mishaps \in 0..MaxMishaps

OutboxInit ==
  /\ outbox = [o \in Observations |-> "none"]
  /\ due = [o \in Observations |-> FALSE] /\ overtime = [o \in Observations |-> FALSE]
  /\ recorded = [o \in Observations |-> {}]
  /\ reviewed = {} /\ retired = {}
  /\ task = [p \in Processors |-> Waiting]
  /\ mishaps = 0

\* A diagnostic needs its coverage and Creator Focus snapshots besides its row.
Parts(o) == IF o \in Diagnostics THEN {"result", "evidence"} ELSE {"result"}
Whole(o) == Parts(o) \subseteq recorded[o]

At(p, step) == task[p].at = step
ProceedTo(p, step) == task' = [task EXCEPT ![p].at = step]
Return(p) == ProceedTo(p, IF p \in Observers THEN "done" ELSE "select")
Mishap == mishaps < MaxMishaps /\ mishaps' = mishaps + 1

(***************************************************************************)
(* Observation and capture                                                 *)
(***************************************************************************)
\* A flow has observed its subject.  A review decides once, and does not wait for the
\* capture that follows its commit.
Observe(p) ==
  /\ p \in Observers /\ At(p, "waiting")
  /\ Subject[p] \in Labels => Subject[p] \notin reviewed
  /\ task' = [task EXCEPT ![p].at = "capture", ![p].of = Subject[p]]
  /\ reviewed' = reviewed \cup ({Subject[p]} \cap Labels)
  /\ UNCHANGED <<outbox, due, overtime, recorded, retired, mishaps>>

\* INSERT ... ON CONFLICT DO NOTHING.  An assignment without a valid policy is not captured.
Capture(p) ==
  /\ At(p, "capture")
  /\ LET o == task[p].of IN
       IF o \in Invalid
         THEN Return(p) /\ UNCHANGED <<outbox, due>>
         ELSE /\ ProceedTo(p, "claim")
              /\ IF outbox[o] = "none"
                   THEN outbox' = [outbox EXCEPT ![o] = "PENDING"] /\ due' = [due EXCEPT ![o] = TRUE]
                   ELSE UNCHANGED <<outbox, due>>
  /\ UNCHANGED <<overtime, recorded, reviewed, retired, mishaps>>

\* A replica of before the validation captures an invalid assignment; each one once.
CaptureInvalid(o) ==
  /\ o \in Invalid \ retired /\ outbox[o] = "none"
  /\ outbox' = [outbox EXCEPT ![o] = "PENDING"] /\ due' = [due EXCEPT ![o] = TRUE]
  /\ UNCHANGED <<overtime, recorded, reviewed, retired, task, mishaps>>

(***************************************************************************)
(* processObservation                                                      *)
(***************************************************************************)
Claimable(o) == outbox[o] \in {"PENDING", "PROCESSING"} /\ due[o]

\* One transaction: an invalid assignment moves to the ledger, anything else is marked.
ClaimObservation(p) ==
  /\ At(p, "claim") /\ Claimable(task[p].of)
  /\ LET o == task[p].of IN
       IF o \in Invalid
         THEN /\ retired' = retired \cup {o}
              /\ outbox' = [outbox EXCEPT ![o] = "none"]
              /\ Return(p) /\ UNCHANGED overtime
         ELSE /\ outbox' = [outbox EXCEPT ![o] = "PROCESSING"] /\ overtime' = [overtime EXCEPT ![o] = FALSE]
              /\ ProceedTo(p, "record") /\ UNCHANGED retired
  /\ UNCHANGED <<due, recorded, reviewed, mishaps>>

\* SKIP LOCKED, or nothing to do: the caller gets the reference that is there, if any.
NotClaimed(p) ==
  /\ At(p, "claim")
  /\ \/ ~Claimable(task[p].of)
     \/ \E q \in Processors \ {p} : At(q, "claim") /\ task[q].of = task[p].of
  /\ Return(p)
  /\ UNCHANGED <<outbox, due, overtime, recorded, reviewed, retired, mishaps>>

\* The row of the result, under its own unique key: a second insert finds the first.
RecordResult(p) ==
  /\ At(p, "record")
  /\ recorded' = [recorded EXCEPT ![task[p].of] = @ \cup {"result"}]
  /\ ProceedTo(p, IF task[p].of \in Diagnostics THEN "bundle" ELSE "complete")
  /\ UNCHANGED <<outbox, due, overtime, reviewed, retired, mishaps>>

AfterBundle_Contained(p, stored) ==
  /\ recorded' = IF stored THEN [recorded EXCEPT ![task[p].of] = @ \cup {"evidence"}] ELSE recorded
  /\ ProceedTo(p, "complete")

AfterBundle(p, stored) ==
  /\ recorded' = IF stored THEN [recorded EXCEPT ![task[p].of] = @ \cup {"evidence"}] ELSE recorded
  /\ ProceedTo(p, IF stored THEN "complete" ELSE "retry")

\* persistClassificationEvidenceBundle; its error is rethrown for an observation with a key.
RecordBundle(p) ==
  /\ At(p, "bundle")
  /\ \/ AfterBundle(p, TRUE) /\ UNCHANGED mishaps
     \/ AfterBundle(p, FALSE) /\ Mishap
  /\ UNCHANGED <<outbox, due, overtime, reviewed, retired>>

\* Neither this update nor that of Retry asks who claimed the row last.
CompleteObservation(p) ==
  /\ At(p, "complete")
  /\ outbox' = [outbox EXCEPT ![task[p].of] = "COMPLETED"] /\ overtime' = [overtime EXCEPT ![task[p].of] = FALSE]
  /\ Return(p)
  /\ UNCHANGED <<due, recorded, reviewed, retired, mishaps>>

\* Back off before the next attempt, whatever the row says by now.
Retry(p) ==
  /\ At(p, "retry")
  /\ outbox' = [outbox EXCEPT ![task[p].of] = "PENDING"]
  /\ due' = [due EXCEPT ![task[p].of] = FALSE] /\ overtime' = [overtime EXCEPT ![task[p].of] = FALSE]
  /\ Return(p)
  /\ UNCHANGED <<recorded, reviewed, retired, mishaps>>

(***************************************************************************)
(* triggerPhaseBObservationReconciliation: one sweep at a time per process *)
(***************************************************************************)
Recovered_Never(o) == FALSE
Recovered(o) == outbox[o] = "PROCESSING" /\ overtime[o]

Unlabelled == {o \in reviewed : outbox[o] = "none" /\ "result" \notin recorded[o]}

\* reconcileMissingGroundTruthObservations finds the reviews nobody captured.
StartSweep(p) ==
  /\ p \in Sweepers /\ At(p, "waiting")
  /\ task' = [task EXCEPT ![p] = [at |-> "select", of |-> NoObservation, todo |-> Unlabelled, phase |-> "labels"]]
  /\ UNCHANGED <<outbox, due, overtime, recorded, reviewed, retired, mishaps>>

\* The rows in some order; the code takes the oldest first.
SweepNext(p) ==
  /\ At(p, "select")
  /\ \E o \in task[p].todo :
       task' = [task EXCEPT ![p].at = IF task[p].phase = "labels" THEN "capture" ELSE "claim",
                            ![p].of = o, ![p].todo = @ \ {o}]
  /\ UNCHANGED <<outbox, due, overtime, recorded, reviewed, retired, mishaps>>

\* reconcilePendingPhaseBObservations first returns what is PROCESSING for 10 minutes ...
RecoverStale(p) ==
  /\ At(p, "select") /\ task[p].phase = "labels" /\ task[p].todo = {}
  /\ outbox' = [o \in Observations |-> IF Recovered(o) THEN "PENDING" ELSE outbox[o]]
  /\ due' = [o \in Observations |-> due[o] \/ Recovered(o)]
  /\ overtime' = [o \in Observations |-> overtime[o] /\ ~Recovered(o)]
  /\ ProceedTo(p, "query")
  /\ UNCHANGED <<recorded, reviewed, retired, mishaps>>

\* ... and then works through what is PENDING and due.
SelectPending(p) ==
  /\ At(p, "query")
  /\ task' = [task EXCEPT ![p].at = "select", ![p].phase = "pending",
                          ![p].todo = {o \in Observations : outbox[o] = "PENDING" /\ due[o]}]
  /\ UNCHANGED <<outbox, due, overtime, recorded, reviewed, retired, mishaps>>

EndSweep(p) ==
  /\ At(p, "select") /\ task[p].phase = "pending" /\ task[p].todo = {}
  /\ task' = [task EXCEPT ![p] = Waiting]
  /\ UNCHANGED <<outbox, due, overtime, recorded, reviewed, retired, mishaps>>

(***************************************************************************)
(* Time and faults                                                         *)
(***************************************************************************)
BackoffOver(o) == /\ outbox[o] = "PENDING" /\ ~due[o]
                  /\ due' = [due EXCEPT ![o] = TRUE]
                  /\ UNCHANGED <<outbox, overtime, recorded, reviewed, retired, task, mishaps>>

\* Ten minutes pass, whether the row's processor is dead or only slow.
RunsOvertime(o) == /\ outbox[o] = "PROCESSING" /\ ~overtime[o]
                   /\ overtime' = [overtime EXCEPT ![o] = TRUE]
                   /\ UNCHANGED <<outbox, due, recorded, reviewed, retired, task, mishaps>>

TimePasses(o) == BackoffOver(o) \/ RunsOvertime(o)

\* A recorder or the completing update fails, or its answer is lost after it was committed.
RecordingFails(p) ==
  /\ Mishap /\ ProceedTo(p, "retry")
  /\ \/ At(p, "record") /\ UNCHANGED outbox
        /\ recorded' \in {recorded, [recorded EXCEPT ![task[p].of] = @ \cup {"result"}]}
     \/ At(p, "complete") /\ UNCHANGED recorded
        /\ outbox' \in {outbox, [outbox EXCEPT ![task[p].of] = "COMPLETED"]}
  /\ UNCHANGED <<due, overtime, reviewed, retired>>

\* Capture, claim or backoff throws: the observer goes on without, the sweep with its next row.
StatementFails(p) ==
  /\ task[p].at \in {"capture", "claim", "retry"} /\ Mishap /\ Return(p)
  /\ UNCHANGED <<outbox, due, overtime, recorded, reviewed, retired>>

\* The process dies, or a sweep fails as a whole.
ReplicaDies(p) ==
  /\ task[p].at \notin {"waiting", "done"} /\ Mishap
  /\ task' = [task EXCEPT ![p] = IF p \in Observers THEN [Waiting EXCEPT !.at = "done"] ELSE Waiting]
  /\ UNCHANGED <<outbox, due, overtime, recorded, reviewed, retired>>

ProcessorStep(p) ==
  \/ Capture(p) \/ ClaimObservation(p) \/ NotClaimed(p) \/ RecordResult(p) \/ RecordBundle(p) \/ CompleteObservation(p) \/ Retry(p)
  \/ StartSweep(p) \/ SweepNext(p) \/ RecoverStale(p) \/ SelectPending(p) \/ EndSweep(p)

OutboxNext ==
  \/ \E p \in Processors : Observe(p) \/ ProcessorStep(p) \/ RecordingFails(p) \/ StatementFails(p) \/ ReplicaDies(p)
  \/ \E o \in Observations : CaptureInvalid(o) \/ TimePasses(o)

\* Ticks start sweeps again and again, processors go on, and time passes.
OutboxFairness ==
  /\ \A p \in Processors : WF_outboxVars(ProcessorStep(p))
  /\ \A o \in Observations : WF_outboxVars(TimePasses(o))

OutboxSpec == OutboxInit /\ [][OutboxNext]_outboxVars /\ OutboxFairness

(***************************************************************************)
(* Properties                                                              *)
(***************************************************************************)
\* A row that says COMPLETED has its whole result: no processor, however late, completes a
\* row over a bundle that failed.
CompletedIsWhole == \A o \in Observations : outbox[o] = "COMPLETED" => Whole(o)

\* Whatever was captured, and every review that was committed even if nobody captured it, is
\* completed for good once errors and crashes stop; what cannot be processed is retired.
ObservationsEnd ==
  \A o \in Observations :
    outbox[o] # "none" \/ o \in reviewed
      ~> IF o \in Invalid THEN [](outbox[o] = "none" /\ o \in retired) ELSE [](outbox[o] = "COMPLETED")
=============================================================================
