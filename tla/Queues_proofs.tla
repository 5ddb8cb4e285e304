--------------------------- MODULE Queues_proofs ---------------------------
(***************************************************************************)
(* Theorems about ObservationOutbox, for any observations, processors and  *)
(* number of mishaps, and about the instance that joins it with the job    *)
(* queue.                                                                  *)
(***************************************************************************)
EXTENDS MCQueues, JobQueue_proofs, TLAPS

(***************************************************************************)
(* The outbox                                                              *)
(***************************************************************************)
\* A processor that works on a row knows which.
Occupied(p) == task[p].at \in {"capture", "claim", "record", "bundle", "complete", "retry"}
Named == \A p \in Processors : Occupied(p) => task[p].of \in Observations

LEMMA OutboxTypeInit == OutboxInit => OutboxTypeOK /\ Named
<1>. SUFFICES ASSUME OutboxInit PROVE OutboxTypeOK /\ Named OBVIOUS
<1>1. Waiting \in Task BY DEF Waiting, Task
<1>2. \A p \in Processors : task[p] = Waiting BY DEF OutboxInit
<1>3. Named BY <1>2 DEF Named, Occupied, Waiting
<1>4. mishaps \in 0..MaxMishaps BY OutboxAssumption DEF OutboxInit, OutboxAssumption
<1>. QED BY <1>1, <1>3, <1>4 DEF OutboxInit, OutboxTypeOK

\* A task that a step replaces by another task, naming its row if it works on one.
LEMMA TaskReplaced ==
  ASSUME OutboxTypeOK, Named, NEW p \in Processors, NEW t \in Task,
         t.at \in {"capture", "claim", "record", "bundle", "complete", "retry"} => t.of \in Observations,
         task' = [task EXCEPT ![p] = t]
  PROVE  task' \in [Processors -> Task] /\ Named'
BY DEF OutboxTypeOK, Named, Occupied

\* A task that only changes its step.
LEMMA TaskMoved ==
  ASSUME OutboxTypeOK, Named, NEW p \in Processors, NEW step,
         step \in {"waiting", "capture", "claim", "record", "bundle", "complete", "retry", "query", "select", "done"},
         step \in {"capture", "claim", "record", "bundle", "complete", "retry"} => Occupied(p),
         ProceedTo(p, step)
  PROVE  task' \in [Processors -> Task] /\ Named'
<1>. DEFINE t == [task[p] EXCEPT !.at = step]
<1>1. task[p] \in Task BY DEF OutboxTypeOK
<1>2. t \in Task /\ t.at = step /\ t.of = task[p].of BY <1>1 DEF Task
<1>3. task' = [task EXCEPT ![p] = t] BY DEF ProceedTo, OutboxTypeOK
<1>4. step \in {"capture", "claim", "record", "bundle", "complete", "retry"} => task[p].of \in Observations
  BY DEF Named
<1>. HIDE DEF t
<1>. QED BY <1>2, <1>3, <1>4, TaskReplaced

LEMMA TaskReturned ==
  ASSUME OutboxTypeOK, Named, NEW p \in Processors, Return(p)
  PROVE  task' \in [Processors -> Task] /\ Named'
BY TaskMoved DEF Return

LEMMA MishapTyped ==
  ASSUME OutboxTypeOK, Mishap
  PROVE  mishaps' \in 0..MaxMishaps
BY OutboxAssumption DEF OutboxTypeOK, Mishap, OutboxAssumption

\* The rows and results that every step leaves well typed.
Rest == /\ outbox \in [Observations -> {"none", "PENDING", "PROCESSING", "COMPLETED"}]
        /\ due \in [Observations -> BOOLEAN] /\ overtime \in [Observations -> BOOLEAN]
        /\ recorded \in [Observations -> SUBSET {"result", "evidence"}]
        /\ reviewed \subseteq Labels /\ retired \subseteq Observations

LEMMA TypeParts == OutboxTypeOK <=> Rest /\ task \in [Processors -> Task] /\ mishaps \in 0..MaxMishaps
BY DEF OutboxTypeOK, Rest

LEMMA TypeNext == OutboxTypeOK /\ Named /\ [OutboxNext]_outboxVars => OutboxTypeOK' /\ Named'
<1>. SUFFICES ASSUME OutboxTypeOK, Named, [OutboxNext]_outboxVars PROVE OutboxTypeOK' /\ Named' OBVIOUS
<1>0. Rest /\ task \in [Processors -> Task] /\ mishaps \in 0..MaxMishaps BY TypeParts
<1>. SUFFICES Rest' /\ task' \in [Processors -> Task] /\ mishaps' \in 0..MaxMishaps /\ Named'
  BY TypeParts DEF OutboxTypeOK, Rest
<1>1. ASSUME NEW p \in Processors, Observe(p) PROVE Rest' /\ task' \in [Processors -> Task] /\ mishaps' = mishaps /\ Named'
  <2>. DEFINE t == [task[p] EXCEPT !.at = "capture", !.of = Subject[p]]
  <2>1. Subject[p] \in Observations BY <1>1, OutboxAssumption DEF Observe, OutboxAssumption
  <2>2. t \in Task /\ t.of \in Observations BY <1>0, <2>1 DEF Task
  <2>3. task' = [task EXCEPT ![p] = t] BY <1>0, <1>1 DEF Observe
  <2>4. Rest' /\ mishaps' = mishaps BY <1>0, <1>1 DEF Observe, Rest
  <2>. HIDE DEF t
  <2>. QED BY <2>2, <2>3, <2>4, TaskReplaced
<1>2. ASSUME NEW p \in Processors, Capture(p) PROVE Rest' /\ task' \in [Processors -> Task] /\ mishaps' = mishaps /\ Named'
  <2>1. Rest' /\ mishaps' = mishaps BY <1>0, <1>2 DEF Capture, Rest
  <2>2. Occupied(p) BY <1>2 DEF Capture, At, Occupied
  <2>3. Return(p) \/ ProceedTo(p, "claim") BY <1>2 DEF Capture
  <2>. QED BY <2>1, <2>2, <2>3, TaskReturned, TaskMoved
<1>3. ASSUME NEW p \in Processors, ClaimObservation(p)
      PROVE  Rest' /\ task' \in [Processors -> Task] /\ mishaps' = mishaps /\ Named'
  <2>1. Occupied(p) BY <1>3 DEF ClaimObservation, At, Occupied
  <2>2. task[p].of \in Observations BY <2>1 DEF Named
  <2>. DEFINE o == task[p].of
  <2>3. /\ outbox' \in {[outbox EXCEPT ![o] = "none"], [outbox EXCEPT ![o] = "PROCESSING"]}
        /\ overtime' \in {overtime, [overtime EXCEPT ![o] = FALSE]}
        /\ retired' \in {retired, retired \cup {o}}
        /\ UNCHANGED <<due, recorded, reviewed, mishaps>>
    BY <1>3 DEF ClaimObservation
  <2>4. Rest' /\ mishaps' = mishaps BY <1>0, <2>2, <2>3 DEF Rest
  <2>5. Return(p) \/ ProceedTo(p, "record") BY <1>3 DEF ClaimObservation
  <2>. QED BY <2>1, <2>4, <2>5, TaskReturned, TaskMoved
<1>4. ASSUME NEW p \in Processors, NotClaimed(p) PROVE Rest' /\ task' \in [Processors -> Task] /\ mishaps' = mishaps /\ Named'
  BY <1>0, <1>4, TaskReturned DEF NotClaimed, Rest
<1>5. ASSUME NEW p \in Processors, RecordResult(p) PROVE Rest' /\ task' \in [Processors -> Task] /\ mishaps' = mishaps /\ Named'
  <2>1. Occupied(p) BY <1>5 DEF RecordResult, At, Occupied
  <2>2. Rest' /\ mishaps' = mishaps BY <1>0, <1>5 DEF RecordResult, Rest
  <2>3. ProceedTo(p, "bundle") \/ ProceedTo(p, "complete") BY <1>5 DEF RecordResult
  <2>. QED BY <2>1, <2>2, <2>3, TaskMoved
<1>6. ASSUME NEW p \in Processors, RecordBundle(p)
      PROVE  Rest' /\ task' \in [Processors -> Task] /\ mishaps' \in 0..MaxMishaps /\ Named'
  <2>1. Occupied(p) BY <1>6 DEF RecordBundle, At, Occupied
  <2>2. mishaps' \in 0..MaxMishaps BY <1>0, <1>6, MishapTyped DEF RecordBundle
  <2>3. Rest' BY <1>0, <1>6 DEF RecordBundle, AfterBundle, Rest
  <2>4. ProceedTo(p, "complete") \/ ProceedTo(p, "retry") BY <1>6 DEF RecordBundle, AfterBundle
  <2>. QED BY <2>1, <2>2, <2>3, <2>4, TaskMoved
<1>7. ASSUME NEW p \in Processors, CompleteObservation(p) \/ Retry(p)
      PROVE  Rest' /\ task' \in [Processors -> Task] /\ mishaps' = mishaps /\ Named'
  <2>1. Rest' /\ mishaps' = mishaps BY <1>0, <1>7 DEF CompleteObservation, Retry, Rest
  <2>. QED BY <1>7, <2>1, TaskReturned DEF CompleteObservation, Retry
<1>8. ASSUME NEW p \in Processors, StartSweep(p) \/ EndSweep(p)
      PROVE  Rest' /\ task' \in [Processors -> Task] /\ mishaps' = mishaps /\ Named'
  <2>. DEFINE t == [at |-> "select", of |-> NoObservation, todo |-> Unlabelled, phase |-> "labels"]
  <2>1. Unlabelled \subseteq Observations BY <1>0 DEF Unlabelled, Rest, Observations
  <2>2. t \in Task /\ Waiting \in Task BY <2>1 DEF Task, Waiting
  <2>3. task' = [task EXCEPT ![p] = t] \/ task' = [task EXCEPT ![p] = Waiting] BY <1>8 DEF StartSweep, EndSweep
  <2>4. t.at = "select" /\ Waiting.at = "waiting" BY DEF Waiting
  <2>5. Rest' /\ mishaps' = mishaps BY <1>0, <1>8 DEF StartSweep, EndSweep, Rest
  <2>. HIDE DEF t
  <2>. QED BY <2>2, <2>3, <2>4, <2>5, TaskReplaced
<1>9. ASSUME NEW p \in Processors, SweepNext(p) PROVE Rest' /\ task' \in [Processors -> Task] /\ mishaps' = mishaps /\ Named'
  <2>1. PICK o \in task[p].todo :
          task' = [task EXCEPT ![p].at = IF task[p].phase = "labels" THEN "capture" ELSE "claim",
                               ![p].of = o, ![p].todo = @ \ {o}]
    BY <1>9 DEF SweepNext
  <2>. DEFINE t == [task[p] EXCEPT !.at = IF task[p].phase = "labels" THEN "capture" ELSE "claim",
                                  !.of = o, !.todo = @ \ {o}]
  <2>2. task[p] \in Task /\ o \in Observations BY <1>0, <2>1 DEF Task
  <2>3. t \in Task /\ t.of \in Observations BY <2>2 DEF Task
  <2>4. task' = [task EXCEPT ![p] = t] BY <1>0, <2>1
  <2>5. Rest' /\ mishaps' = mishaps BY <1>0, <1>9 DEF SweepNext, Rest
  <2>. HIDE DEF t
  <2>. QED BY <2>3, <2>4, <2>5, TaskReplaced
<1>10. ASSUME NEW p \in Processors, RecoverStale(p) PROVE Rest' /\ task' \in [Processors -> Task] /\ mishaps' = mishaps /\ Named'
  <2>1. Rest' /\ mishaps' = mishaps BY <1>0, <1>10 DEF RecoverStale, Recovered, Rest
  <2>. QED BY <1>10, <2>1, TaskMoved DEF RecoverStale
<1>11. ASSUME NEW p \in Processors, SelectPending(p) PROVE Rest' /\ task' \in [Processors -> Task] /\ mishaps' = mishaps /\ Named'
  <2>. DEFINE pending == {o \in Observations : outbox[o] = "PENDING" /\ due[o]}
              t == [task[p] EXCEPT !.at = "select", !.phase = "pending", !.todo = pending]
  <2>1. t \in Task /\ t.at = "select" BY <1>0 DEF Task
  <2>2. task' = [task EXCEPT ![p] = t] BY <1>0, <1>11 DEF SelectPending
  <2>3. Rest' /\ mishaps' = mishaps BY <1>0, <1>11 DEF SelectPending, Rest
  <2>. HIDE DEF t
  <2>. QED BY <2>1, <2>2, <2>3, TaskReplaced
<1>12. ASSUME NEW p \in Processors, RecordingFails(p) PROVE Rest' /\ task' \in [Processors -> Task] /\ mishaps' \in 0..MaxMishaps /\ Named'
  <2>1. Occupied(p) BY <1>12 DEF RecordingFails, At, Occupied
  <2>2. Rest' BY <1>0, <1>12 DEF RecordingFails, Rest
  <2>. QED BY <1>12, <2>1, <2>2, TaskMoved, MishapTyped DEF RecordingFails
<1>13. ASSUME NEW p \in Processors, StatementFails(p)
       PROVE  Rest' /\ task' \in [Processors -> Task] /\ mishaps' \in 0..MaxMishaps /\ Named'
  BY <1>0, <1>13, TaskReturned, MishapTyped DEF StatementFails, Rest
<1>14. ASSUME NEW p \in Processors, ReplicaDies(p)
       PROVE  Rest' /\ task' \in [Processors -> Task] /\ mishaps' \in 0..MaxMishaps /\ Named'
  <2>1. /\ Waiting \in Task /\ [Waiting EXCEPT !.at = "done"] \in Task
        /\ Waiting.at = "waiting" /\ [Waiting EXCEPT !.at = "done"].at = "done"
    BY DEF Waiting, Task
  <2>2. task' = [task EXCEPT ![p] = Waiting] \/ task' = [task EXCEPT ![p] = [Waiting EXCEPT !.at = "done"]]
    BY <1>14 DEF ReplicaDies
  <2>3. Rest' BY <1>0, <1>14 DEF ReplicaDies, Rest
  <2>. QED BY <1>14, <2>1, <2>2, <2>3, TaskReplaced, MishapTyped DEF ReplicaDies
<1>15. ASSUME NEW o \in Observations, CaptureInvalid(o) \/ TimePasses(o)
       PROVE  Rest' /\ task' \in [Processors -> Task] /\ mishaps' = mishaps /\ Named'
  <2>1. Rest' BY <1>0, <1>15 DEF CaptureInvalid, TimePasses, BackoffOver, RunsOvertime, Rest
  <2>2. task' = task /\ mishaps' = mishaps BY <1>15 DEF CaptureInvalid, TimePasses, BackoffOver, RunsOvertime
  <2>. QED BY <1>0, <2>1, <2>2 DEF Named, Occupied
<1>16. CASE UNCHANGED outboxVars BY <1>0, <1>16 DEF outboxVars, Rest, Named, Occupied
<1>. QED
  BY <1>0, <1>1, <1>2, <1>3, <1>4, <1>5, <1>6, <1>7, <1>8, <1>9, <1>10, <1>11, <1>12, <1>13, <1>14, <1>15, <1>16
  DEF OutboxNext, ProcessorStep

\* Every reachable state of the outbox is well typed.
THEOREM OutboxTypeCorrect == OutboxSpec => []OutboxTypeOK
BY OutboxTypeInit, TypeNext, PTL DEF OutboxSpec

(***************************************************************************)
(* Completion.  A processor that is about to complete its row has stored   *)
(* the whole result, one that is about to store the bundle has the row of  *)
(* the diagnostic; and nothing that is stored is ever taken back, so a     *)
(* processor need not know what the others did with the row meanwhile.     *)
(***************************************************************************)
StoredBy(p) == /\ At(p, "bundle") => "result" \in recorded[task[p].of]
               /\ At(p, "complete") => Whole(task[p].of)
Stored == \A p \in Processors : StoredBy(p)
Completion == CompletedIsWhole /\ Stored

LEMMA CompletionInit == OutboxInit => Completion
BY DEF OutboxInit, Completion, CompletedIsWhole, Stored, StoredBy, At, Waiting

\* A step of p that completes nothing and leaves p neither storing nor completing.
LEMMA Elsewhere ==
  ASSUME OutboxTypeOK, Completion, NEW p \in Processors,
         \A q \in Processors \ {p} : task'[q] = task[q],
         task'[p].at \notin {"bundle", "complete"},
         \A o \in Observations : recorded[o] \subseteq recorded'[o],
         \A o \in Observations : outbox'[o] = "COMPLETED" => outbox[o] = "COMPLETED",
         Named
  PROVE  Completion'
<1>1. CompletedIsWhole' BY DEF Completion, CompletedIsWhole, Whole, Parts
<1>2. ASSUME NEW q \in Processors PROVE StoredBy(q)'
  <2>1. CASE q = p BY <2>1 DEF StoredBy, At
  <2>2. CASE q # p
    <3>1. task'[q] = task[q] BY <2>2
    <3>2. task[q].at \in {"bundle", "complete"} => task[q].of \in Observations BY DEF Named, Occupied
    <3>. QED BY <3>1, <3>2 DEF Completion, Stored, StoredBy, At, Whole, Parts
  <2>. QED BY <2>1, <2>2
<1>. QED BY <1>1, <1>2 DEF Completion, Stored

LEMMA CompletionNext ==
  OutboxTypeOK /\ Named /\ Completion /\ [OutboxNext]_outboxVars => Completion'
<1>. SUFFICES ASSUME OutboxTypeOK, Named, Completion, [OutboxNext]_outboxVars PROVE Completion' OBVIOUS
<1>0. /\ task \in [Processors -> Task]
      /\ outbox \in [Observations -> {"none", "PENDING", "PROCESSING", "COMPLETED"}]
      /\ recorded \in [Observations -> SUBSET {"result", "evidence"}]
  BY DEF OutboxTypeOK
<1>1. ASSUME NEW p \in Processors, Observe(p) \/ StartSweep(p) \/ EndSweep(p) \/ SweepNext(p) \/ SelectPending(p) \/ ReplicaDies(p)
      PROVE  Completion'
  <2>1. (\A q \in Processors \ {p} : task'[q] = task[q]) /\ task'[p].at \notin {"bundle", "complete"}
    <3>1. CASE Observe(p) BY <1>0, <3>1 DEF Observe, Task
    <3>2. CASE SelectPending(p) BY <1>0, <3>2 DEF SelectPending, Task
    <3>3. CASE SweepNext(p)
      <4>1. PICK o \in task[p].todo :
              task' = [task EXCEPT ![p].at = IF task[p].phase = "labels" THEN "capture" ELSE "claim",
                                   ![p].of = o, ![p].todo = @ \ {o}]
        BY <3>3 DEF SweepNext
      <4>. QED BY <1>0, <4>1 DEF Task
    <3>4. CASE StartSweep(p) BY <1>0, <3>4 DEF StartSweep
    <3>5. CASE EndSweep(p) BY <1>0, <3>5 DEF EndSweep, Waiting
    <3>6. CASE ReplicaDies(p) BY <1>0, <3>6 DEF ReplicaDies, Waiting
    <3>. QED BY <1>1, <3>1, <3>2, <3>3, <3>4, <3>5, <3>6
  <2>2. recorded' = recorded /\ outbox' = outbox
    BY <1>1 DEF Observe, StartSweep, EndSweep, SweepNext, SelectPending, ReplicaDies
  <2>. QED BY <1>0, <2>1, <2>2, Elsewhere
<1>2. ASSUME NEW p \in Processors, Capture(p) \/ ClaimObservation(p) \/ NotClaimed(p) \/ Retry(p) \/ StatementFails(p)
      PROVE  Completion'
  <2>1. /\ \A q \in Processors \ {p} : task'[q] = task[q]
        /\ task'[p].at \notin {"bundle", "complete"}
    BY <1>0, <1>2 DEF Capture, ClaimObservation, NotClaimed, Retry, StatementFails, Return, ProceedTo, Task
  <2>2. recorded' = recorded BY <1>2 DEF Capture, ClaimObservation, NotClaimed, Retry, StatementFails
  <2>3. \A o \in Observations : outbox'[o] = "COMPLETED" => outbox[o] = "COMPLETED"
    BY <1>0, <1>2 DEF Capture, ClaimObservation, NotClaimed, Retry, StatementFails
  <2>. QED BY <2>1, <2>2, <2>3, Elsewhere
<1>3. ASSUME NEW p \in Processors, RecoverStale(p) PROVE Completion'
  <2>1. /\ \A q \in Processors \ {p} : task'[q] = task[q]
        /\ task'[p].at \notin {"bundle", "complete"}
        /\ recorded' = recorded
    BY <1>0, <1>3 DEF RecoverStale, ProceedTo, Task
  <2>2. \A o \in Observations : outbox'[o] = "COMPLETED" => outbox[o] = "COMPLETED" BY <1>0, <1>3 DEF RecoverStale
  <2>. QED BY <2>1, <2>2, Elsewhere
<1>4. ASSUME NEW p \in Processors, RecordResult(p) PROVE Completion'
  <2>. DEFINE o == task[p].of
  <2>1. o \in Observations BY <1>4 DEF RecordResult, At, Named, Occupied
  <2>2. /\ recorded' = [recorded EXCEPT ![o] = @ \cup {"result"}] /\ outbox' = outbox
        /\ \A q \in Processors : task'[q].of = task[q].of
        /\ \A q \in Processors \ {p} : task'[q].at = task[q].at
        /\ task'[p].at = IF o \in Diagnostics THEN "bundle" ELSE "complete"
    BY <1>0, <1>4 DEF RecordResult, ProceedTo, Task
  <2>3. CompletedIsWhole' BY <1>0, <2>2 DEF Completion, CompletedIsWhole, Whole, Parts
  <2>4. "result" \in recorded'[o] BY <1>0, <2>1, <2>2
  <2>5. ASSUME NEW q \in Processors \ {p} PROVE StoredBy(q)'
    <3>1. task[q].at \in {"bundle", "complete"} => task[q].of \in Observations BY DEF Named, Occupied
    <3>2. \A x \in Observations : recorded[x] \subseteq recorded'[x] BY <1>0, <2>2
    <3>. QED BY <2>2, <3>1, <3>2 DEF Completion, Stored, StoredBy, At, Whole, Parts
  <2>6. StoredBy(p)' BY <2>2, <2>4 DEF StoredBy, At, Whole, Parts
  <2>. QED BY <2>3, <2>5, <2>6 DEF Completion, Stored
<1>5. ASSUME NEW p \in Processors, RecordBundle(p) PROVE Completion'
  <2>. DEFINE o == task[p].of
  <2>1. o \in Observations BY <1>5 DEF RecordBundle, At, Named, Occupied
  <2>2. CASE AfterBundle(p, FALSE)
    <3>1. /\ \A q \in Processors \ {p} : task'[q] = task[q]
          /\ task'[p].at \notin {"bundle", "complete"}
          /\ recorded' = recorded /\ outbox' = outbox
      BY <1>0, <1>5, <2>2 DEF RecordBundle, AfterBundle, ProceedTo, Task
    <3>. QED BY <3>1, Elsewhere
  <2>3. CASE AfterBundle(p, TRUE)
    <3>1. /\ recorded' = [recorded EXCEPT ![o] = @ \cup {"evidence"}] /\ outbox' = outbox
          /\ \A q \in Processors : task'[q].of = task[q].of
          /\ \A q \in Processors \ {p} : task'[q].at = task[q].at
          /\ task'[p].at = "complete"
      BY <1>0, <1>5, <2>3 DEF RecordBundle, AfterBundle, ProceedTo, Task
    <3>2. CompletedIsWhole' BY <1>0, <3>1 DEF Completion, CompletedIsWhole, Whole, Parts
    <3>3. "result" \in recorded[o] BY <1>5 DEF RecordBundle, Completion, Stored, StoredBy
    <3>4. Whole(o)' BY <1>0, <2>1, <3>1, <3>3 DEF Whole, Parts
    <3>5. ASSUME NEW q \in Processors \ {p} PROVE StoredBy(q)'
      <4>1. task[q].at \in {"bundle", "complete"} => task[q].of \in Observations BY DEF Named, Occupied
      <4>2. \A x \in Observations : recorded[x] \subseteq recorded'[x] BY <1>0, <3>1
      <4>. QED BY <3>1, <4>1, <4>2 DEF Completion, Stored, StoredBy, At, Whole, Parts
    <3>6. StoredBy(p)' BY <3>1, <3>4 DEF StoredBy, At, Whole, Parts
    <3>. QED BY <3>2, <3>5, <3>6 DEF Completion, Stored
  <2>. QED BY <1>5, <2>2, <2>3 DEF RecordBundle
<1>6. ASSUME NEW p \in Processors, CompleteObservation(p) \/ RecordingFails(p) PROVE Completion'
  <2>. DEFINE o == task[p].of
  <2>1. o \in Observations BY <1>6 DEF CompleteObservation, RecordingFails, At, Named, Occupied
  <2>2. /\ \A q \in Processors \ {p} : task'[q] = task[q]
        /\ task'[p].at \notin {"bundle", "complete"}
    BY <1>0, <1>6 DEF CompleteObservation, RecordingFails, Return, ProceedTo, Task
  <2>3. \A x \in Observations : recorded[x] \subseteq recorded'[x]
    BY <1>0, <1>6 DEF CompleteObservation, RecordingFails
  <2>4. CASE At(p, "complete")
    <3>1. Whole(o) BY <2>4 DEF Completion, Stored, StoredBy
    <3>2. \A x \in Observations \ {o} : outbox'[x] = outbox[x]
      BY <1>0, <1>6, <2>4 DEF CompleteObservation, RecordingFails
    <3>3. CompletedIsWhole' BY <2>3, <3>1, <3>2 DEF Completion, CompletedIsWhole, Whole, Parts
    <3>4. ASSUME NEW q \in Processors \ {p} PROVE StoredBy(q)'
      <4>1. task[q].at \in {"bundle", "complete"} => task[q].of \in Observations BY DEF Named, Occupied
      <4>. QED BY <2>2, <2>3, <4>1 DEF Completion, Stored, StoredBy, At, Whole, Parts
    <3>5. StoredBy(p)' BY <2>2 DEF StoredBy, At
    <3>. QED BY <3>3, <3>4, <3>5 DEF Completion, Stored
  <2>5. CASE At(p, "record")
    <3>1. outbox' = outbox BY <1>6, <2>5 DEF CompleteObservation, RecordingFails, At
    <3>. QED BY <2>2, <2>3, <3>1, Elsewhere
  <2>. QED BY <1>6, <2>4, <2>5 DEF CompleteObservation, RecordingFails
<1>7. ASSUME NEW o \in Observations, CaptureInvalid(o) \/ TimePasses(o) PROVE Completion'
  <2>1. task' = task /\ recorded' = recorded BY <1>7 DEF CaptureInvalid, TimePasses, BackoffOver, RunsOvertime
  <2>2. \A x \in Observations : outbox'[x] = "COMPLETED" => outbox[x] = "COMPLETED"
    BY <1>0, <1>7 DEF CaptureInvalid, TimePasses, BackoffOver, RunsOvertime
  <2>. QED BY <2>1, <2>2 DEF Completion, CompletedIsWhole, Stored, StoredBy, At, Whole, Parts
<1>8. CASE UNCHANGED outboxVars BY <1>8 DEF outboxVars, Completion, CompletedIsWhole, Stored, StoredBy, At, Whole, Parts
<1>. QED BY <1>1, <1>2, <1>3, <1>4, <1>5, <1>6, <1>7, <1>8 DEF OutboxNext, ProcessorStep

\* A COMPLETED row has its whole result, for any observations and processors, however often
\* a row is claimed, recovered or left behind, and whatever fails.
THEOREM CompletedWhole == OutboxSpec => []CompletedIsWhole
<1>1. OutboxInit => OutboxTypeOK /\ Named /\ Completion BY OutboxTypeInit, CompletionInit
<1>2. OutboxTypeOK /\ Named /\ Completion /\ [OutboxNext]_outboxVars => (OutboxTypeOK /\ Named /\ Completion)'
  BY TypeNext, CompletionNext
<1>3. Completion => CompletedIsWhole BY DEF Completion
<1>. QED BY <1>1, <1>2, <1>3, PTL DEF OutboxSpec

(***************************************************************************)
(* The instance                                                            *)
(***************************************************************************)
\* A step of the instance is a step of one queue, and leaves the rows of the other alone.
LEMMA QueuesParts ==
  [QueuesNext]_<<queue, vars, outboxVars>> => [Next]_vars /\ [OutboxNext]_outboxVars
<1>. SUFFICES ASSUME [QueuesNext]_<<queue, vars, outboxVars>>
             PROVE  [Next]_vars /\ [OutboxNext]_outboxVars
  OBVIOUS
<1>1. CASE queue = "jobs" /\ Next /\ UNCHANGED outboxVars BY <1>1
<1>2. CASE queue = "observations" /\ OutboxNext /\ UNCHANGED vars BY <1>2
<1>3. CASE UNCHANGED <<queue, vars, outboxVars>> BY <1>3
<1>. QED BY <1>1, <1>2, <1>3 DEF QueuesNext

\* What is proved of a queue without fairness holds of the instance: it is a behaviour of both.
THEOREM QueuesImplementsParts == QueuesSpec => Spec /\ OutboxInit /\ [][OutboxNext]_outboxVars
<1>1. QueuesInit => Init /\ OutboxInit BY DEF QueuesInit
<1>. QED BY <1>1, QueuesParts, PTL DEF QueuesSpec, Spec

\* The rows of the two queues, and the places of their workers and processors, have their
\* types: queueManager.ts and phaseBObservationOutbox.ts.
THEOREM QueuesTypeCorrect == QueuesSpec => []QueuesTypeOK
<1>1. OutboxInit => OutboxTypeOK /\ Named BY OutboxTypeInit
<1>2. OutboxTypeOK /\ Named /\ [OutboxNext]_outboxVars => (OutboxTypeOK /\ Named)' BY TypeNext
<1>3. QueuesSpec => []OutboxTypeOK BY <1>1, <1>2, QueuesImplementsParts, PTL
<1>4. QueuesSpec => []TypeOK BY QueuesImplementsParts, TypeCorrect, PTL
<1>5. QueuesTypeOK <=> TypeOK /\ OutboxTypeOK BY DEF QueuesTypeOK
<1>. QED BY <1>3, <1>4, <1>5, PTL
=============================================================================
