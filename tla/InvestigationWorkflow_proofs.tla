-------------------- MODULE InvestigationWorkflow_proofs --------------------
(* Theorems about InvestigationWorkflow, for every set of workers and       *)
(* actions and every value of its bounds.                                   *)
EXTENDS InvestigationWorkflow, TLAPS

(* What SMT needs to know of a sequence, and a function on its domain.      *)
LEMMA SeqFacts ==
    ASSUME NEW S, NEW q \in Seq(S)
    PROVE  /\ DOMAIN q = 1..Len(q)
           /\ Len(q) \in Nat
           /\ \A i \in DOMAIN q : q[i] \in S
  OBVIOUS

LEMMA SameDomainSeq ==
    ASSUME NEW S, NEW q \in Seq(S), NEW f \in [DOMAIN q -> S]
    PROVE  /\ f \in Seq(S)
           /\ Len(f) = Len(q)
           /\ DOMAIN f = DOMAIN q
<1>1. DOMAIN q = 1..Len(q) /\ Len(q) \in Nat
  BY SeqFacts
<1>2. f \in [1..Len(q) -> S]
  BY <1>1
<1> QED
  BY <1>1, <1>2

(* Replacing the element at s.                                              *)
LEMMA ReplaceInSeq ==
    ASSUME NEW S, NEW q \in Seq(S), NEW s \in DOMAIN q, NEW r \in S
    PROVE  /\ [q EXCEPT ![s] = r] \in Seq(S)
           /\ Len([q EXCEPT ![s] = r]) = Len(q)
           /\ DOMAIN [q EXCEPT ![s] = r] = DOMAIN q
           /\ [q EXCEPT ![s] = r][s] = r
           /\ \A t \in DOMAIN q : t # s => [q EXCEPT ![s] = r][t] = q[t]
<1>1. \A i \in DOMAIN q : q[i] \in S
  BY SeqFacts
<1>2. [q EXCEPT ![s] = r] \in [DOMAIN q -> S]
  BY <1>1
<1>3. /\ [q EXCEPT ![s] = r] \in Seq(S)
      /\ Len([q EXCEPT ![s] = r]) = Len(q)
      /\ DOMAIN [q EXCEPT ![s] = r] = DOMAIN q
  BY <1>2, SameDomainSeq
<1> QED
  BY <1>3

LEMMA AppendFacts ==
    ASSUME NEW S, NEW q \in Seq(S), NEW r \in S
    PROVE  /\ Append(q, r) \in Seq(S)
           /\ Len(Append(q, r)) = Len(q) + 1
           /\ DOMAIN q \subseteq DOMAIN Append(q, r)
           /\ DOMAIN Append(q, r) = DOMAIN q \cup {Len(q) + 1}
           /\ Append(q, r)[Len(q) + 1] = r
           /\ \A i \in DOMAIN q : Append(q, r)[i] = q[i]
  OBVIOUS
-----------------------------------------------------------------------------
(* An update of one row of a table, and what it leaves of the table.        *)
StepBecomes(s, r) == /\ step' \in Seq(Step)
                     /\ Len(step') = Len(step)
                     /\ DOMAIN step' = DOMAIN step
                     /\ step'[s] = r
                     /\ \A t \in DOMAIN step : t # s => step'[t] = step[t]

JobBecomes(s, r) == /\ job' \in Seq(Job)
                    /\ Len(job') = Len(job)
                    /\ DOMAIN job' = DOMAIN job
                    /\ job'[s] = r
                    /\ \A t \in DOMAIN job : t # s => job'[t] = job[t]

LEMMA SameLength ==
    ASSUME TypeOK
    PROVE  /\ DOMAIN step = 1..Len(step)
           /\ DOMAIN job = DOMAIN step
           /\ Len(step) \in Nat
           /\ \A s \in DOMAIN step : step[s] \in Step /\ job[s] \in Job
  BY SeqFacts DEF TypeOK

LEMMA AddStepType ==
    ASSUME TypeOK, NEW a \in Action, AddStep(a)
    PROVE  /\ step' \in Seq(Step)
           /\ job' \in Seq(Job)
           /\ Len(job') = Len(step')
           /\ DOMAIN step \subseteq DOMAIN step'
           /\ DOMAIN job' = DOMAIN step'
           /\ \A s \in DOMAIN step : step'[s] = step[s] /\ job'[s] = job[s]
           /\ \A s \in DOMAIN step' \ DOMAIN step :
                 step'[s] = NewStep(a) /\ job'[s] = NewJob
<1>1. NewStep(a) \in Step /\ NewJob \in Job
  BY DEF NewStep, NewJob, Step, Job, StepState, OpenState
<1>2. step \in Seq(Step) /\ job \in Seq(Job) /\ Len(job) = Len(step)
  BY DEF TypeOK
<1>3. CASE OpenStepsOf(a) # {}
  BY <1>2, <1>3, SameLength DEF AddStep
<1>4. CASE OpenStepsOf(a) = {}
  <2>1. step' = Append(step, NewStep(a)) /\ job' = Append(job, NewJob)
    BY <1>4 DEF AddStep
  <2> QED
    BY <2>1, <1>1, <1>2, AppendFacts, SameLength
<1> QED
  BY <1>3, <1>4

LEMMA StepUpdate ==
    ASSUME TypeOK, NEW s \in DOMAIN step, NEW r \in Step, step' = [step EXCEPT ![s] = r]
    PROVE  StepBecomes(s, r)
  BY ReplaceInSeq DEF TypeOK, StepBecomes

LEMMA JobUpdate ==
    ASSUME TypeOK, NEW s \in DOMAIN job, NEW r \in Job, job' = [job EXCEPT ![s] = r]
    PROVE  JobBecomes(s, r)
  BY ReplaceInSeq DEF TypeOK, JobBecomes
-----------------------------------------------------------------------------
(* The row each statement writes.                                           *)
Started(r, w)     == [r EXCEPT !.state = "RUNNING", !.worker = w, !.lease = "live"]
Completed(r, x)   == [r EXCEPT !.state = "COMPLETED", !.result = x, !.lease = "none"]
Failed(r, ends, c) == [r EXCEPT !.state = IF ends THEN "FAILED" ELSE "RETRYING",
                                !.class = c, !.lease = "none"]

LEMMA StartUpdate ==
    ASSUME TypeOK, NEW w \in Worker, StartStep(w)
    PROVE  /\ exec[w].step \in DOMAIN step
           /\ StepBecomes(exec[w].step, Started(step[exec[w].step], w))
<1> DEFINE s == exec[w].step
<1>1. s \in DOMAIN step /\ step[s] \in Step
  BY SameLength DEF TypeOK, StartStep, Idle
<1>2. Started(step[s], w) \in Step
  BY <1>1 DEF Started, Step, StepState, OpenState
<1>3. step' = [step EXCEPT ![s] = Started(step[s], w)]
  BY <1>1 DEF StartStep, Started
<1> QED
  BY <1>1, <1>2, <1>3, StepUpdate

LEMMA FailUpdate ==
    ASSUME TypeOK, NEW s \in DOMAIN step, NEW ends \in BOOLEAN,
           NEW c \in {"operational", "other"}, StepFails(s, ends, c)
    PROVE  IF step[s].state = "COMPLETED" THEN step' = step
           ELSE StepBecomes(s, Failed(step[s], ends, c))
<1>1. step[s] \in Step
  BY SameLength
<1>2. Failed(step[s], ends, c) \in Step
  BY <1>1 DEF Failed, Step, StepState, OpenState
<1>3. step[s].state # "COMPLETED" => step' = [step EXCEPT ![s] = Failed(step[s], ends, c)]
  BY <1>1 DEF StepFails, Failed
<1> QED
  BY <1>2, <1>3, StepUpdate DEF StepFails

LEMMA FinishUpdate ==
    ASSUME TypeOK, NEW s \in DOMAIN step, NEW x \in Result, FinishStep(s, x)
    PROVE  IF step[s].state = "COMPLETED" THEN UNCHANGED <<inv, step, job>>
           ELSE /\ inv' \in Investigation
                /\ inv'.state = OutcomeState(s, x)
                /\ StepBecomes(s, Completed(step[s], x))
                /\ JobCompleted(s)
<1>1. step[s] \in Step
  BY SameLength
<1>2. Completed(step[s], x) \in Step
  BY <1>1 DEF Completed, Step, StepState, OpenState
<1>3. step[s].state # "COMPLETED" =>
         /\ step' = [step EXCEPT ![s] = Completed(step[s], x)]
         /\ inv' = [inv EXCEPT !.state = OutcomeState(s, x)]
         /\ JobCompleted(s)
  BY <1>1 DEF FinishStep, Completed
<1>4. OutcomeState(s, x) \in InvState
  BY DEF OutcomeState, Result, InvState, Settled
<1>5. inv \in Investigation
  BY DEF TypeOK
<1>6. step[s].state # "COMPLETED" =>
         inv' \in Investigation /\ inv'.state = OutcomeState(s, x)
  BY <1>3, <1>4, <1>5 DEF Investigation
<1> QED
  BY <1>2, <1>3, <1>6, StepUpdate DEF FinishStep

LEMMA CloseUpdate ==
    ASSUME TypeOK, NEW s \in DOMAIN step, JobCompleted(s)
    PROVE  JobBecomes(s, [job[s] EXCEPT !.status = "COMPLETED", !.lockedBy = NoOne,
                                        !.stale = FALSE])
<1> DEFINE r == [job[s] EXCEPT !.status = "COMPLETED", !.lockedBy = NoOne, !.stale = FALSE]
<1>1. s \in DOMAIN job /\ job[s] \in Job
  BY SameLength
<1>2. r \in Job
  BY <1>1 DEF Job
<1>3. job' = [job EXCEPT ![s] = r]
  BY <1>1 DEF JobCompleted
<1> QED
  BY <1>1, <1>2, <1>3, JobUpdate
-----------------------------------------------------------------------------
(* Type correctness.  TablesOK and LoopsOK split TypeOK, so that an action  *)
(* says what it does to the tables and what to the worker loops.            *)
TablesOK ==
    /\ inv \in Investigation
    /\ step \in Seq(Step)
    /\ job \in Seq(Job)
    /\ Len(job) = Len(step)

LoopsOK ==
    /\ pc \in [Worker -> Control]
    /\ exec \in [Worker -> Exec]
    /\ \A w \in Worker : Busy(w) => exec[w].step \in DOMAIN step

LEMMA TypeParts ==
    TypeOK <=> /\ TablesOK
               /\ LoopsOK
               /\ sweep \subseteq DOMAIN step
               /\ orphan \in {"none", "selected", "adopted"}
               /\ claims \in Nat
  BY DEF TypeOK, TablesOK, LoopsOK, Busy

LEMMA TypeNext ==
    ASSUME TypeOK, TablesOK', LoopsOK', DOMAIN step \subseteq DOMAIN step',
           \/ UNCHANGED <<sweep, orphan, claims>>
           \/ /\ sweep' \subseteq DOMAIN step
              /\ orphan' \in {"none", "selected", "adopted"}
              /\ claims' \in Nat
    PROVE  TypeOK'
  BY DEF TypeOK, TablesOK, LoopsOK, Busy

LEMMA LoopStays ==
    ASSUME LoopsOK, UNCHANGED <<pc, exec>>, DOMAIN step \subseteq DOMAIN step'
    PROVE  LoopsOK'
  BY DEF LoopsOK, Busy

LEMMA LoopMoves ==
    ASSUME LoopsOK, NEW w \in Worker, NEW l \in Control, Goto(w, l), UNCHANGED exec,
           Busy(w) \/ l \in Idle, DOMAIN step \subseteq DOMAIN step'
    PROVE  LoopsOK'
  BY DEF LoopsOK, Busy, Goto

LEMMA LoopEnds ==
    ASSUME LoopsOK, NEW w \in Worker, BecomeIdle(w), DOMAIN step \subseteq DOMAIN step'
    PROVE  LoopsOK'
<1>1. NoExec \in Exec
  BY DEF NoExec, Exec, Failure
<1>2. pc' \in [Worker -> Control] /\ exec' \in [Worker -> Exec]
  BY <1>1 DEF LoopsOK, BecomeIdle, Goto, Control, Idle
<1>3. \A v \in Worker : Busy(v)' => v # w /\ Busy(v) /\ exec'[v] = exec[v]
  BY DEF LoopsOK, BecomeIdle, Goto, Busy, Idle
<1> QED
  BY <1>2, <1>3 DEF LoopsOK

LEMMA LoopThrows ==
    ASSUME TypeOK, NEW w \in Worker, Busy(w), NEW class \in Failure, Throw(w, class)
    PROVE  LoopsOK' /\ UNCHANGED <<inv, step, job, Reporting>>
<1>1. exec[w].step \in DOMAIN job /\ exec[w] \in Exec
  BY SameLength DEF TypeOK, Busy
<1>2. job[exec[w].step].attempts \in Nat
  BY <1>1, SameLength DEF Job
<1>3. exec' = [exec EXCEPT ![w] = [@ EXCEPT !.class = class,
                                           !.attempts = job[exec[w].step].attempts]]
  BY DEF Throw
<1>4. /\ exec' \in [Worker -> Exec]
      /\ exec'[w].step = exec[w].step
      /\ \A v \in Worker : v # w => exec'[v] = exec[v]
  BY <1>1, <1>2, <1>3 DEF TypeOK, Exec
<1>5. pc' \in [Worker -> Control] /\ \A v \in Worker : v # w => pc'[v] = pc[v]
  BY DEF Throw, Goto, TypeOK, Control
<1>6. \A v \in Worker : Busy(v)' => exec'[v].step \in DOMAIN step'
  BY <1>4, <1>5 DEF Throw, TypeOK, Busy
<1> QED
  BY <1>4, <1>5, <1>6 DEF LoopsOK, Throw, Reporting

LEMMA TypeInit == InvestigationAssumption /\ Init => TypeOK
<1> SUFFICES ASSUME InvestigationAssumption, Init PROVE TypeOK
  OBVIOUS
<1>1. inv \in Investigation
  BY DEF Init, Investigation, InvState
<1>2. step \in Seq(Step) /\ job \in Seq(Job) /\ Len(job) = Len(step)
  BY DEF Init
<1>3. pc \in [Worker -> Control] /\ \A w \in Worker : pc[w] \in Idle
  BY DEF Init, Control, Idle
<1>4. exec \in [Worker -> Exec]
  BY DEF Init, NoExec, Exec, Failure
<1> QED
  BY <1>1, <1>2, <1>3, <1>4 DEF Init, TypeOK

(* The job updates of single rows, and the row each one leaves.             *)
LEMMA JobRowUpdates ==
    ASSUME TypeOK, NEW s \in DOMAIN job
    PROVE  /\ \A w \in Worker :
                [job[s] EXCEPT !.status = "PROCESSING", !.lockedBy = w, !.stale = FALSE,
                               !.attempts = @ + 1] \in Job
           /\ \A b \in BOOLEAN : [job[s] EXCEPT !.stale = b] \in Job
           /\ [job[s] EXCEPT !.status = "PENDING", !.lockedBy = NoOne, !.stale = FALSE]
                  \in Job
           /\ [job[s] EXCEPT !.status = "FAILED", !.lockedBy = NoOne, !.stale = FALSE,
                             !.revivable = FALSE] \in Job
           /\ [job[s] EXCEPT !.status = "PENDING", !.lockedBy = NoOne, !.stale = FALSE,
                             !.attempts = IF @ > 0 THEN @ - 1 ELSE 0] \in Job
<1>1. job[s] \in Job
  BY SameLength
<1>2. job[s].attempts + 1 \in Nat /\ (IF job[s].attempts > 0 THEN job[s].attempts - 1 ELSE 0) \in Nat
  BY <1>1 DEF Job
<1> QED
  BY ZenonT(40), <1>1, <1>2 DEF Job

Taken(r, w) == [r EXCEPT !.status = "PROCESSING", !.lockedBy = w, !.stale = FALSE,
                         !.attempts = @ + 1]

LEMMA ClaimUpdate ==
    ASSUME TypeOK, NEW w \in Worker, NEW s \in DOMAIN job, Claim(w, s)
    PROVE  /\ JobBecomes(s, Taken(job[s], w))
           /\ LoopsOK'
           /\ pc' = [pc EXCEPT ![w] = "claimed"]
           /\ exec'[w].step = s
           /\ \A v \in Worker : v # w => exec'[v] = exec[v]
<1>1. job[s] \in Job /\ DOMAIN job = DOMAIN step /\ s \in Nat
  BY SameLength
<1>2. Taken(job[s], w) \in Job
  BY <1>1, JobRowUpdates DEF Taken
<1>3. job' = [job EXCEPT ![s] = Taken(job[s], w)]
  BY <1>1 DEF Claim, Taken
<1>4. JobBecomes(s, Taken(job[s], w))
  BY <1>2, <1>3, JobUpdate
<1>5. exec' = [exec EXCEPT ![w] = [@ EXCEPT !.step = s]]
  BY DEF Claim
<1>6. /\ exec' \in [Worker -> Exec]
      /\ exec'[w].step = s
      /\ \A v \in Worker : v # w => exec'[v] = exec[v]
  BY <1>1, <1>5 DEF TypeOK, Exec
<1>7. /\ pc' = [pc EXCEPT ![w] = "claimed"]
      /\ pc' \in [Worker -> Control]
      /\ \A v \in Worker : v # w => pc'[v] = pc[v]
  BY DEF Claim, Goto, TypeOK, Control
<1>8. \A v \in Worker : Busy(v)' => exec'[v].step \in DOMAIN step'
  BY <1>1, <1>6, <1>7 DEF Claim, TypeOK, Busy
<1> QED
  BY <1>4, <1>6, <1>7, <1>8 DEF LoopsOK

(* The row failJob writes.                                                  *)
Disposed(w, r) ==
    [r EXCEPT !.status = IF Ends(w) THEN "FAILED" ELSE "PENDING",
              !.lockedBy = NoOne, !.stale = FALSE,
              !.attempts = IF AttemptFree(w) /\ @ > 0 THEN @ - 1 ELSE @,
              !.revivable = exec[w].class = "exhausted"]

LEMMA FailJobUpdate ==
    ASSUME TypeOK, NEW w \in Worker, FailJob(w)
    PROVE  /\ exec[w].step \in DOMAIN job
           /\ \/ JobBecomes(exec[w].step, Disposed(w, job[exec[w].step]))
              \/ /\ job[exec[w].step].status \in {"COMPLETED", "FAILED"}
                 /\ ~Ends(w)
                 /\ UNCHANGED job
<1> DEFINE s == exec[w].step
           n == IF AttemptFree(w) /\ job[s].attempts > 0
                THEN job[s].attempts - 1 ELSE job[s].attempts
           st == IF Ends(w) THEN "FAILED" ELSE "PENDING"
           rv == exec[w].class = "exhausted"
<1>1. s \in DOMAIN job /\ job[s] \in Job
  BY SameLength DEF TypeOK, FailJob, Idle
<1>2. n \in Nat
  BY <1>1 DEF Job
<1>3. st \in {"PENDING", "FAILED"} /\ rv \in BOOLEAN
  OBVIOUS
<1>4. Disposed(w, job[s]) = [job[s] EXCEPT !.status = st, !.lockedBy = NoOne,
                                !.stale = FALSE, !.attempts = n, !.revivable = rv]
  BY <1>1 DEF Disposed
<1>5. Disposed(w, job[s]) \in Job
  <2> HIDE DEF n, st, rv
  <2> QED
    BY <1>1, <1>2, <1>3, <1>4 DEF Job
<1>6. \/ job' = [job EXCEPT ![s] = Disposed(w, job[s])]
      \/ job[s].status \in {"COMPLETED", "FAILED"} /\ ~Ends(w) /\ UNCHANGED job
  BY <1>1 DEF FailJob, Disposed
<1> QED
  BY <1>1, <1>5, <1>6, JobUpdate

LEMMA RecoverUpdate ==
    ASSUME TypeOK, NEW w \in Worker, RecoverStaleJobs(w)
    PROVE  /\ job' \in Seq(Job)
           /\ Len(job') = Len(job)
           /\ DOMAIN job' = DOMAIN job
           /\ \A s \in DOMAIN job :
                 \/ job'[s] = job[s]
                 \/ JobStuck(s) /\ job'[s].status = "PENDING"
<1>1. \A s \in DOMAIN job : job[s] \in Job
  BY SameLength
<1>2. job' \in [DOMAIN job -> Job]
  BY <1>1, JobRowUpdates DEF RecoverStaleJobs
<1>3. \A s \in DOMAIN job :
         \/ job'[s] = job[s]
         \/ JobStuck(s) /\ job'[s].status = "PENDING"
  BY <1>1 DEF RecoverStaleJobs, Job
<1> QED
  BY <1>2, <1>3, SameDomainSeq DEF TypeOK

LEMMA RejectUpdate ==
    ASSUME TypeOK, HumanReject
    PROVE  /\ job' \in Seq(Job)
           /\ Len(job') = Len(job)
           /\ DOMAIN job' = DOMAIN job
<1>1. \A s \in DOMAIN job : job[s] \in Job
  BY SameLength
<1>2. job' \in [DOMAIN job -> Job]
  BY <1>1, JobRowUpdates DEF HumanReject
<1> QED
  BY <1>2, SameDomainSeq DEF TypeOK
-----------------------------------------------------------------------------
LEMMA TypeStep == InvestigationAssumption /\ TypeOK /\ [Next]_vars => TypeOK'
<1> SUFFICES ASSUME InvestigationAssumption, TypeOK, [Next]_vars PROVE TypeOK'
  OBVIOUS
<1> USE DEF Reporting
<1>0. TablesOK /\ LoopsOK
  BY TypeParts
<1>a. DOMAIN job = DOMAIN step
  BY SameLength
<1>1. ASSUME NEW a \in Action, ScheduleRoot(a) PROVE TypeOK'
  <2>1. inv' \in Investigation
    BY <1>1, <1>0 DEF ScheduleRoot, TablesOK, Investigation, InvState
  <2>2. TablesOK' /\ DOMAIN step \subseteq DOMAIN step'
    BY <1>1, <2>1, AddStepType DEF ScheduleRoot, TablesOK
  <2> QED
    BY <1>0, <1>1, <2>2, LoopStays, TypeNext DEF ScheduleRoot, TypeOK
<1>2. CASE SelectOrphan
  BY <1>2, <1>0, LoopStays, TypeNext DEF SelectOrphan, TypeOK
<1>3. CASE AdoptOrphan
  <2>1. inv' \in Investigation
    BY <1>3, <1>0 DEF AdoptOrphan, TablesOK, Investigation, InvState
  <2>2. RootAction \in Action
    BY DEF InvestigationAssumption
  <2>3. TablesOK' /\ DOMAIN step \subseteq DOMAIN step'
    <3>1. CASE AddStep(RootAction)
      BY <3>1, <2>1, <2>2, AddStepType DEF TablesOK
    <3>2. CASE UNCHANGED <<step, job>>
      BY <3>2, <2>1, <1>0 DEF TablesOK
    <3> QED
      BY <3>1, <3>2, <1>3 DEF AdoptOrphan
  <2> QED
    BY <1>0, <1>3, <2>3, LoopStays, TypeNext DEF AdoptOrphan, TypeOK
<1>4. ASSUME NEW w \in Worker, Tick(w) PROVE TypeOK'
  <2>1. CASE RecoverStaleJobs(w)
    BY <1>0, <2>1, RecoverUpdate, LoopMoves, TypeNext
       DEF RecoverStaleJobs, Control, Idle, TablesOK, TypeOK
  <2>2. ASSUME NEW s \in DOMAIN job, Claim(w, s) PROVE TypeOK'
    <3>1. JobBecomes(s, Taken(job[s], w)) /\ LoopsOK'
      BY <2>2, ClaimUpdate
    <3> QED
      BY <1>0, <2>2, <3>1, TypeNext DEF Claim, JobBecomes, TablesOK, TypeOK
  <2>3. CASE NothingClaimed(w)
    BY <1>0, <2>3, LoopMoves, TypeNext DEF NothingClaimed, Control, Idle, TypeOK, TablesOK
  <2>4. CASE StepIsOver(w)
    BY <1>0, <2>4, LoopMoves, TypeNext
       DEF StepIsOver, Busy, Control, Idle, TypeOK, TablesOK
  <2>5. CASE StartStep(w)
    <3>1. inv' \in Investigation
      <4>1. inv.late \in BOOLEAN /\ (inv.late /\ inv.state # "ACTIVE") \in BOOLEAN
        BY <1>0 DEF TablesOK, Investigation
      <4> QED
        BY <4>1, <1>0, <2>5 DEF StartStep, TablesOK, Investigation
    <3>2. TablesOK' /\ DOMAIN step' = DOMAIN step
      BY <1>0, <2>5, <3>1, StartUpdate DEF StartStep, StepBecomes, TablesOK
    <3> QED
      BY <1>0, <2>5, <3>2, LoopMoves, TypeNext
         DEF StartStep, Busy, Control, Idle, Working, TypeOK
  <2>6. ASSUME NEW a \in Action, ScheduleSuccessor(w, a) PROVE TypeOK'
    <3>1. TablesOK' /\ DOMAIN step \subseteq DOMAIN step'
      BY <1>0, <2>6, AddStepType DEF ScheduleSuccessor, TablesOK
    <3> QED
      BY <1>0, <2>6, <3>1, LoopMoves, TypeNext
         DEF ScheduleSuccessor, Busy, Control, Idle, Working, TypeOK
  <2>7. ASSUME NEW r \in Result, CompleteStep(w, r) PROVE TypeOK'
    <3>1. Busy(w) /\ exec[w].step \in DOMAIN step
      BY <2>7, <1>0 DEF CompleteStep, Busy, Idle, LoopsOK
    <3>2. FinishStep(exec[w].step, r)
      BY <2>7 DEF CompleteStep
    <3>3. TablesOK' /\ DOMAIN step' = DOMAIN step
      <4>1. CASE step[exec[w].step].state = "COMPLETED"
        BY <1>0, <3>1, <3>2, <4>1, FinishUpdate DEF TablesOK
      <4>2. CASE step[exec[w].step].state # "COMPLETED"
        BY <1>0, <1>a, <3>1, <3>2, <4>2, FinishUpdate, CloseUpdate
           DEF TablesOK, StepBecomes, JobBecomes
      <4> QED
        BY <4>1, <4>2
    <3>4. LoopsOK'
      <4>1. CASE BecomeIdle(w)
        BY <1>0, <3>3, <4>1, LoopEnds
      <4>2. CASE Goto(w, "closing") /\ UNCHANGED exec
        BY <1>0, <3>1, <3>3, <4>2, LoopMoves DEF Control
      <4> QED
        BY <4>1, <4>2, <2>7 DEF CompleteStep
    <3> QED
      BY <2>7, <3>3, <3>4, TypeNext DEF CompleteStep, TypeOK
  <2>8. CASE CloseJob(w)
    <3>1. exec[w].step \in DOMAIN step
      BY <2>8, <1>0 DEF CloseJob, Busy, Idle, LoopsOK
    <3>2. TablesOK' /\ DOMAIN step' = DOMAIN step
      BY <1>0, <2>8, <3>1, CloseUpdate DEF CloseJob, JobBecomes, TablesOK
    <3> QED
      BY <1>0, <2>8, <3>2, LoopEnds, TypeNext DEF CloseJob, TypeOK
  <2>9. ASSUME NEW class \in Failure, Throw(w, class), Busy(w) PROVE TypeOK'
    BY <1>0, <2>9, LoopThrows, TypeNext DEF TablesOK, TypeOK
  <2>10. ASSUME NEW class \in Failures, HandlerFails(w, class) PROVE TypeOK'
    BY <2>9, <2>10 DEF HandlerFails, Busy, Idle, Working, InvestigationAssumption
  <2>11. CASE DeadlineExceeded(w)
    BY <2>9, <2>11 DEF DeadlineExceeded, Busy, Idle, Failure
  <2>12. CASE SuccessorRefused(w)
    BY <2>9, <2>12 DEF SuccessorRefused, Busy, Idle, Failure
  <2>13. CASE FailJob(w)
    <3>1. TablesOK' /\ DOMAIN step' = DOMAIN step
      BY <1>0, <2>13, FailJobUpdate DEF FailJob, JobBecomes, TablesOK
    <3> QED
      BY <1>0, <2>13, <3>1, LoopMoves, TypeNext
         DEF FailJob, Busy, Control, Idle, TypeOK
  <2>14. CASE FailStep(w)
    <3> DEFINE c == IF exec[w].class \in {"operational", "exhausted"}
                    THEN "operational" ELSE "other"
    <3>1. exec[w].step \in DOMAIN step /\ Ends(w) \in BOOLEAN
      BY <2>14, <1>0 DEF FailStep, Busy, Idle, LoopsOK, Ends
    <3>2. StepFails(exec[w].step, Ends(w), c) /\ c \in {"operational", "other"}
      BY <2>14 DEF FailStep
    <3>3. step' \in Seq(Step) /\ Len(step') = Len(step) /\ DOMAIN step' = DOMAIN step
      <4> HIDE DEF c
      <4> QED
        BY <1>0, <3>1, <3>2, FailUpdate DEF StepBecomes, TablesOK
    <3>4. inv' \in Investigation
      BY <1>0, <3>2 DEF StepFails, TablesOK, Investigation, InvState, Settled
    <3>5. TablesOK'
      BY <1>0, <2>14, <3>3, <3>4 DEF FailStep, TablesOK
    <3> QED
      BY <1>0, <2>14, <3>3, <3>5, LoopEnds, TypeNext DEF FailStep, TypeOK
  <2> QED
    BY <1>4, <2>1, <2>2, <2>3, <2>4, <2>5, <2>6, <2>7, <2>8, <2>10, <2>11, <2>12,
       <2>13, <2>14 DEF Tick
<1>5. ASSUME NEW w \in Worker, HeartbeatJob(w) PROVE TypeOK'
  <2> DEFINE s == exec[w].step
  <2>1. s \in DOMAIN job /\ job' = [job EXCEPT ![s] = [job[s] EXCEPT !.stale = FALSE]]
    BY <1>0, <1>a, <1>5 DEF HeartbeatJob, LoopsOK
  <2>2. TablesOK'
    BY <1>0, <1>5, <2>1, JobRowUpdates, JobUpdate DEF HeartbeatJob, JobBecomes, TablesOK
  <2> QED
    BY <1>0, <1>5, <2>2, LoopStays, TypeNext DEF HeartbeatJob, TypeOK
<1>6. ASSUME NEW w \in Worker, HeartbeatStep(w) PROVE TypeOK'
  <2> DEFINE s == exec[w].step
             r == [step[s] EXCEPT !.lease = "live"]
  <2>1. s \in DOMAIN step /\ step' = [step EXCEPT ![s] = r]
    BY <1>0, <1>6 DEF HeartbeatStep, LoopsOK
  <2>2. r \in Step
    BY <2>1, SameLength DEF Step
  <2>3. TablesOK' /\ DOMAIN step' = DOMAIN step
    BY <1>0, <1>6, <2>1, <2>2, StepUpdate DEF HeartbeatStep, StepBecomes, TablesOK
  <2> QED
    BY <1>0, <1>6, <2>3, LoopStays, TypeNext DEF HeartbeatStep, TypeOK
<1>7. ASSUME NEW w \in Worker, Crash(w) PROVE TypeOK'
  BY <1>0, <1>7, LoopEnds, TypeNext DEF Crash, TablesOK, TypeOK
<1>8. CASE SweepSelect
  BY <1>0, <1>8, LoopStays, TypeNext DEF SweepSelect, TablesOK, TypeOK
<1>9. ASSUME NEW s \in DOMAIN step, SweepRecover(s) PROVE TypeOK'
  <2>1. StepFails(s, FALSE, "other")
    BY <1>9 DEF SweepRecover
  <2>2. inv' = inv
    BY <2>1 DEF StepFails
  <2>3. TablesOK' /\ DOMAIN step' = DOMAIN step
    BY <1>0, <1>9, <2>1, <2>2, FailUpdate DEF SweepRecover, StepBecomes, TablesOK
  <2> QED
    BY <1>0, <1>9, <2>3, LoopStays, TypeNext DEF SweepRecover, TypeOK
<1>10. ASSUME NEW s \in DOMAIN step, ReviveJob(s) PROVE TypeOK'
  <2> DEFINE r == [job[s] EXCEPT !.status = "PENDING", !.lockedBy = NoOne, !.stale = FALSE,
                                 !.attempts = IF @ > 0 THEN @ - 1 ELSE 0]
  <2>1. r \in Job /\ s \in DOMAIN job
    BY <1>a, JobRowUpdates
  <2>2. job' = [job EXCEPT ![s] = r]
    BY <1>10, <2>1 DEF ReviveJob
  <2>3. JobBecomes(s, r)
    BY <2>1, <2>2, JobUpdate
  <2> QED
    BY SMTT(40), <1>0, <1>10, <2>3, LoopStays, TypeNext DEF ReviveJob, JobBecomes, TablesOK, TypeOK
<1>11. ASSUME NEW s \in DOMAIN step, JobLeaseExpires(s) PROVE TypeOK'
  <2>1. job' = [job EXCEPT ![s] = [job[s] EXCEPT !.stale = TRUE]] /\ s \in DOMAIN job
    BY <1>11, <1>a DEF JobLeaseExpires
  <2>2. JobBecomes(s, [job[s] EXCEPT !.stale = TRUE])
    BY <2>1, JobRowUpdates, JobUpdate
  <2> QED
    BY <1>0, <1>11, <2>2, LoopStays, TypeNext
       DEF JobLeaseExpires, JobBecomes, TablesOK, TypeOK
<1>12. ASSUME NEW s \in DOMAIN step, StepLeaseExpires(s) PROVE TypeOK'
  <2> DEFINE r == [step[s] EXCEPT !.lease = "expired"]
  <2>1. step' = [step EXCEPT ![s] = r] /\ r \in Step
    BY <1>12, SameLength DEF StepLeaseExpires, Step
  <2>2. StepBecomes(s, r)
    BY <2>1, StepUpdate
  <2> QED
    BY <1>0, <1>12, <2>2, LoopStays, TypeNext
       DEF StepLeaseExpires, StepBecomes, TablesOK, TypeOK
<1>13. CASE HumanReject
  BY <1>0, <1>13, RejectUpdate, LoopStays, TypeNext DEF HumanReject, TablesOK, TypeOK
<1>14. CASE RepairProjection
  <2>1. RepairedState \in InvState
    BY DEF RepairedState, InvState, Settled
  <2>2. TablesOK'
    BY <1>0, <1>14, <2>1 DEF RepairProjection, TablesOK, Investigation
  <2> QED
    BY <1>0, <1>14, <2>2, LoopStays, TypeNext DEF RepairProjection, TypeOK
<1>15. CASE DeadlinePasses
  <2>1. TablesOK'
    BY <1>0, <1>15 DEF DeadlinePasses, TablesOK, Investigation
  <2> QED
    BY <1>0, <1>15, <2>1, LoopStays, TypeNext DEF DeadlinePasses, TypeOK
<1>16. CASE UNCHANGED vars
  BY <1>16 DEF vars, TypeOK
<1> QED
  BY <1>1, <1>2, <1>3, <1>4, <1>5, <1>6, <1>7, <1>8, <1>9, <1>10, <1>11, <1>12, <1>13,
     <1>14, <1>15, <1>16 DEF Next, Sweep

(* Every reachable state of the workflow is well typed; in particular each  *)
(* step has its job, and a busy worker works on a step that exists.         *)
THEOREM TypeCorrect == Spec => []TypeOK
<1> USE InvestigationAssumption
<1>1. Init => TypeOK
  BY TypeInit
<1>2. TypeOK /\ [Next]_vars => TypeOK'
  BY TypeStep
<1> QED
  BY <1>1, <1>2, PTL DEF Spec
-----------------------------------------------------------------------------
(* How one step of the workflow may change a row of investigation_steps:    *)
(* not at all, or a row that is not COMPLETED is closed together with a     *)
(* decision on the investigation, or it is open afterwards.                 *)
RowsKept == \A s \in DOMAIN step : s \in DOMAIN step' /\ step'[s] = step[s]

Completes(s) ==
    /\ step[s].state # "COMPLETED"
    /\ \E x \in Result : /\ inv'.state = OutcomeState(s, x)
                         /\ StepBecomes(s, Completed(step[s], x))

Changes(s) ==
    /\ step[s].state # "COMPLETED"
    /\ \E r \in Step : StepBecomes(s, r)
    /\ \/ inv'.state # "ACTIVE"
       \/ inv'.state = inv.state /\ step'[s].state \in OpenState

LEMMA FailChanges ==
    ASSUME TypeOK, NEW s \in DOMAIN step, NEW ends \in BOOLEAN,
           NEW c \in {"operational", "other"}, StepFails(s, ends, c)
    PROVE  \/ step' = step /\ (inv' = inv \/ inv'.state # "ACTIVE")
           \/ Changes(s)
<1>1. inv' = inv \/ inv'.state # "ACTIVE"
  BY DEF StepFails, TypeOK, Investigation
<1>2. ~ends => inv' = inv
  BY DEF StepFails
<1>3. ends => inv'.state # "ACTIVE"
  BY DEF StepFails, TypeOK, Investigation
<1>4. CASE step[s].state = "COMPLETED"
  BY <1>1, <1>4, FailUpdate
<1>5. CASE step[s].state # "COMPLETED"
  <2>1. StepBecomes(s, Failed(step[s], ends, c)) /\ Failed(step[s], ends, c) \in Step
    <3>1. Failed(step[s], ends, c) \in Step
      BY SameLength DEF Failed, Step, StepState, OpenState
    <3> QED
      BY <1>5, <3>1, FailUpdate
  <2>2. step'[s].state = IF ends THEN "FAILED" ELSE "RETRYING"
    BY <2>1, SameLength DEF StepBecomes, Failed, Step
  <2> QED
    BY <1>2, <1>3, <1>5, <2>1, <2>2 DEF Changes, OpenState
<1> QED
  BY <1>4, <1>5

(* Every step of the workflow keeps all rows, and then makes no             *)
(* investigation ACTIVE that has no open step, or completes or changes one. *)
LEMMA RowSteps ==
    ASSUME InvestigationAssumption, TypeOK, [Next]_vars
    PROVE  \/ /\ RowsKept
              /\ \/ inv'.state \in {inv.state} \cup Settled
                 \/ \E s \in DOMAIN step' : step'[s].state \in OpenState
           \/ \E s \in DOMAIN step : Completes(s) \/ Changes(s)
<1> DEFINE Goal == \/ /\ RowsKept
                      /\ \/ inv'.state \in {inv.state} \cup Settled
                         \/ \E s \in DOMAIN step' : step'[s].state \in OpenState
                   \/ \E s \in DOMAIN step : Completes(s) \/ Changes(s)
<1> USE DEF Reporting
<1>1. UNCHANGED <<inv, step>> => Goal
  BY DEF RowsKept
<1>2. ASSUME NEW a \in Action, AddStep(a) PROVE
        /\ RowsKept
        /\ \E s \in DOMAIN step' : step'[s].state \in OpenState
  <2>1. RowsKept
    BY <1>2, AddStepType DEF RowsKept
  <2>2. CASE OpenStepsOf(a) # {}
    BY <1>2, <2>1, <2>2 DEF AddStep, OpenStepsOf, IsOpen
  <2>3. CASE OpenStepsOf(a) = {}
    <3>1. step' = Append(step, NewStep(a)) /\ Len(step) \in Nat
      BY <1>2, <2>3, SameLength DEF AddStep
    <3>2. NewStep(a) \in Step /\ step \in Seq(Step)
      BY DEF NewStep, Step, StepState, OpenState, TypeOK
    <3>3. Len(step) + 1 \in DOMAIN step' /\ step'[Len(step) + 1] = NewStep(a)
      BY <3>1, <3>2, AppendFacts
    <3> QED
      BY <2>1, <3>3 DEF NewStep, OpenState
  <2> QED
    BY <2>1, <2>2, <2>3
<1>3. ASSUME NEW w \in Worker, StartStep(w) PROVE Goal
  <2> DEFINE s == exec[w].step
  <2>1. s \in DOMAIN step /\ StepBecomes(s, Started(step[s], w))
    BY <1>3, StartUpdate
  <2>2. Started(step[s], w) \in Step /\ step'[s].state = "RUNNING"
    BY <2>1, SameLength DEF StepBecomes, Started, Step, StepState, OpenState
  <2>3. inv'.state = inv.state /\ step[s].state # "COMPLETED"
    BY <1>3 DEF StartStep, TypeOK, Investigation, IsOpen, OpenState
  <2> QED
    BY <2>1, <2>2, <2>3 DEF Changes, OpenState
<1>4. ASSUME NEW w \in Worker, NEW x \in Result, CompleteStep(w, x) PROVE Goal
  <2> DEFINE s == exec[w].step
  <2>1. s \in DOMAIN step /\ FinishStep(s, x)
    BY <1>4 DEF CompleteStep, TypeOK, Idle
  <2>2. \/ UNCHANGED <<inv, step, job>>
        \/ Completes(s)
    BY <2>1, FinishUpdate DEF Completes
  <2> QED
    BY <1>1, <2>1, <2>2
<1>5. ASSUME NEW s \in DOMAIN step, NEW ends \in BOOLEAN,
             NEW c \in {"operational", "other"}, StepFails(s, ends, c) PROVE Goal
  <2>1. CASE Changes(s)
    BY <2>1
  <2>2. CASE step' = step /\ (inv' = inv \/ inv'.state # "ACTIVE")
    <3>1. inv' = inv \/ inv'.state \in Settled
      BY <1>5, <2>2 DEF StepFails, TypeOK, Investigation, Settled
    <3> QED
      BY <2>2, <3>1 DEF RowsKept
  <2> QED
    BY <1>5, <2>1, <2>2, FailChanges
<1>6. ASSUME NEW w \in Worker, FailStep(w) PROVE Goal
  <2>1. exec[w].step \in DOMAIN step /\ Ends(w) \in BOOLEAN
    BY <1>6 DEF FailStep, TypeOK, Idle, Ends
  <2> QED
    BY <1>5, <1>6, <2>1 DEF FailStep
<1>7. ASSUME NEW w \in Worker, HeartbeatStep(w) PROVE Goal
  <2> DEFINE s == exec[w].step
             r == [step[s] EXCEPT !.lease = "live"]
  <2>1. s \in DOMAIN step /\ step' = [step EXCEPT ![s] = r]
    BY <1>7 DEF HeartbeatStep, TypeOK, Busy
  <2>2. r \in Step /\ r.state = "RUNNING"
    BY <1>7, <2>1, SameLength DEF Step, HeartbeatStep
  <2>3. StepBecomes(s, r)
    BY <2>1, <2>2, StepUpdate
  <2> QED
    BY <1>7, <2>1, <2>2, <2>3 DEF HeartbeatStep, Changes, StepBecomes, OpenState
<1>8. ASSUME NEW s \in DOMAIN step, StepLeaseExpires(s) PROVE Goal
  <2> DEFINE r == [step[s] EXCEPT !.lease = "expired"]
  <2>1. step' = [step EXCEPT ![s] = r] /\ r \in Step /\ r.state = "RUNNING"
    BY <1>8, SameLength DEF StepLeaseExpires, Step
  <2>2. StepBecomes(s, r)
    BY <2>1, StepUpdate
  <2> QED
    BY <1>8, <2>1, <2>2 DEF StepLeaseExpires, Changes, StepBecomes, OpenState
<1>9. CASE RepairProjection
  <2>1. RepairedState = "ACTIVE" => \E s \in DOMAIN step : IsOpen(s)
    BY DEF RepairedState
  <2>2. RepairedState \in InvState /\ RepairedState # "ABSENT"
    BY DEF RepairedState, InvState, Settled
  <2>3. inv'.state = RepairedState /\ step' = step
    BY <1>9 DEF RepairProjection, TypeOK, Investigation
  <2> QED
    BY <2>1, <2>2, <2>3 DEF RowsKept, InvState, IsOpen
<1>10. ASSUME NEW a \in Action, ScheduleRoot(a) PROVE Goal
  BY <1>2, <1>10 DEF ScheduleRoot
<1>11. CASE AdoptOrphan
  <2>1. RootAction \in Action
    BY DEF InvestigationAssumption
  <2> QED
    BY <1>1, <1>2, <1>11, <2>1 DEF AdoptOrphan
<1>12. ASSUME NEW w \in Worker, NEW a \in Action, ScheduleSuccessor(w, a) PROVE Goal
  BY <1>2, <1>12 DEF ScheduleSuccessor
<1>13. CASE DeadlinePasses
  BY <1>13 DEF DeadlinePasses, RowsKept, TypeOK, Investigation
<1>14. ASSUME NEW w \in Worker, Tick(w) PROVE Goal
  <2>1. \/ UNCHANGED <<inv, step>>
        \/ StartStep(w)
        \/ \E a \in Action : ScheduleSuccessor(w, a)
        \/ \E x \in Result : CompleteStep(w, x)
        \/ FailStep(w)
    BY <1>14 DEF Tick, RecoverStaleJobs, Claim, NothingClaimed, StepIsOver, CloseJob,
                 HandlerFails, DeadlineExceeded, SuccessorRefused, Throw, FailJob
  <2> QED
    BY SMTT(40), <1>1, <1>3, <1>4, <1>6, <1>12, <2>1
<1>15. CASE Sweep
  BY <1>1, <1>5, <1>15 DEF Sweep, SweepSelect, SweepRecover
<1>16. ASSUME \/ SelectOrphan \/ HumanReject
              \/ \E w \in Worker : HeartbeatJob(w) \/ Crash(w)
              \/ \E s \in DOMAIN step : ReviveJob(s) \/ JobLeaseExpires(s)
       PROVE  Goal
  BY <1>1, <1>16 DEF SelectOrphan, HumanReject, HeartbeatJob, Crash, ReviveJob,
                     JobLeaseExpires
<1>17. CASE UNCHANGED vars
  BY <1>1, <1>17 DEF vars
<1> QED
  BY <1>7, <1>8, <1>9, <1>10, <1>11, <1>13, <1>14, <1>15, <1>16, <1>17 DEF Next

(* ActiveHasOpenStep is inductive on top of the types: the transaction that *)
(* closes the last open step also decides what becomes of the               *)
(* investigation.                                                           *)
LEMMA ActiveStep ==
    ASSUME InvestigationAssumption, TypeOK, ActiveHasOpenStep, [Next]_vars
    PROVE  ActiveHasOpenStep'
<1> SUFFICES ASSUME inv'.state = "ACTIVE"
             PROVE  \E s \in DOMAIN step' : step'[s].state \in OpenState
  BY DEF ActiveHasOpenStep, IsOpen
<1>1. CASE RowsKept /\ inv'.state \in {inv.state} \cup Settled
  BY <1>1 DEF RowsKept, Settled, ActiveHasOpenStep, IsOpen
<1>2. ASSUME NEW s \in DOMAIN step, Completes(s)
      PROVE  \E t \in DOMAIN step' : step'[t].state \in OpenState
  <2>1. PICK x \in Result : /\ inv'.state = OutcomeState(s, x)
                            /\ StepBecomes(s, Completed(step[s], x))
    BY <1>2 DEF Completes
  <2>2. LaterOpenSteps(s) # {}
    BY <2>1 DEF OutcomeState, Result
  <2>3. PICK t \in DOMAIN step : t > s /\ IsOpen(t)
    BY <2>2 DEF LaterOpenSteps
  <2>4. t # s /\ t \in DOMAIN step'
    BY <2>1, <2>3, SameLength DEF StepBecomes
  <2> QED
    BY <2>1, <2>3, <2>4 DEF StepBecomes, IsOpen
<1>3. ASSUME NEW s \in DOMAIN step, Changes(s)
      PROVE  \E t \in DOMAIN step' : step'[t].state \in OpenState
  BY <1>3 DEF Changes, StepBecomes
<1> QED
  BY <1>1, <1>2, <1>3, RowSteps

(* Whatever is lost, repaired or raced, an ACTIVE investigation has an open *)
(* step: no disturbance and no order of completions, failures and sweeps    *)
(* leaves it ACTIVE with nothing to wait for.                               *)
THEOREM ActiveInvestigationHasOpenStep == Spec => []ActiveHasOpenStep
<1> USE InvestigationAssumption
<1>1. Init => TypeOK /\ ActiveHasOpenStep
  BY TypeInit DEF Init, ActiveHasOpenStep
<1>2. TypeOK /\ ActiveHasOpenStep /\ [Next]_vars => TypeOK' /\ ActiveHasOpenStep'
  BY TypeStep, ActiveStep
<1> QED
  BY <1>1, <1>2, PTL DEF Spec

(* No late failure, sweep, second completion or revived job changes the row *)
(* of a completed step, whatever disturbances occur.                        *)
THEOREM CompletedStepsStay == Spec => CompletedStepFinal
<1> USE InvestigationAssumption
<1>1. TypeOK /\ [Next]_vars =>
         [\A s \in DOMAIN step :
            step[s].state = "COMPLETED" => s \in DOMAIN step' /\ step'[s] = step[s]]_vars
  <2> SUFFICES ASSUME TypeOK, [Next]_vars, NEW s \in DOMAIN step,
                      step[s].state = "COMPLETED"
               PROVE  s \in DOMAIN step' /\ step'[s] = step[s]
    OBVIOUS
  <2>1. CASE RowsKept
    BY <2>1 DEF RowsKept
  <2>2. ASSUME NEW t \in DOMAIN step, Completes(t) \/ Changes(t)
        PROVE  s \in DOMAIN step' /\ step'[s] = step[s]
    BY <2>2 DEF Completes, Changes, StepBecomes
  <2> QED
    BY <2>1, <2>2, RowSteps
<1>2. Spec => []TypeOK
  BY TypeCorrect
<1> QED
  BY <1>1, <1>2, PTL DEF Spec, CompletedStepFinal
-----------------------------------------------------------------------------
(* Ownership, when nothing disturbs the jobs: no worker loses the lease of  *)
(* its job, no completeJob fails, no reviewer rejects and no sweep revives. *)
(* Leases of steps may be lost, and operators may repair the projection.    *)
Undisturbed == Disturbances \subseteq {"stepLeaseLoss", "operatorRepair"}

(* A worker holds the job of its step from the claim to the transaction     *)
(* that gives it up; what it still does afterwards cannot hurt a successor, *)
(* because a terminal failure has left the job FAILED, where no one claims  *)
(* it.                                                                      *)
Owns(w) == LET r == job[exec[w].step]
           IN  r.status = "PROCESSING" /\ r.lockedBy = w /\ ~r.stale

LoopInv(w) ==
    LET s == exec[w].step
    IN  /\ pc[w] \in Working \cup {"claimed", "failing"} => Owns(w)
        /\ pc[w] = "closing" => Owns(w) \/ job[s].status = "COMPLETED"
        /\ pc[w] \in Working => step[s].worker = w /\ step[s].state \in OpenState
        /\ pc[w] = "failed" /\ Ends(w) => job[s].status = "FAILED"

OwnInv == FinishedTogether /\ \A w \in Worker : LoopInv(w)

SameLoop(v) == pc'[v] = pc[v] /\ exec'[v] = exec[v]

LEMMA LoopFrame ==
    ASSUME NEW v \in Worker, LoopInv(v), SameLoop(v),
           Busy(v) => job'[exec[v].step] = job[exec[v].step],
           pc[v] \in Working => /\ step'[exec[v].step].worker = v
                               /\ step'[exec[v].step].state \in OpenState
    PROVE  LoopInv(v)'
  BY DEF LoopInv, SameLoop, Owns, Ends, Busy, Idle, Working

LEMMA OtherLoops ==
    ASSUME TypeOK, NEW w \in Worker
    PROVE  /\ \A l : Goto(w, l) /\ UNCHANGED exec =>
                 /\ pc'[w] = l /\ exec'[w] = exec[w]
                 /\ \A v \in Worker \ {w} : SameLoop(v)
           /\ BecomeIdle(w) => /\ pc'[w] = "idle"
                              /\ \A v \in Worker \ {w} : SameLoop(v)
           /\ \A class \in Failure : Throw(w, class) =>
                 /\ pc'[w] = "failing" /\ exec'[w].step = exec[w].step
                 /\ \A v \in Worker \ {w} : SameLoop(v)
  BY DEF TypeOK, Goto, BecomeIdle, Throw, SameLoop, Exec

LEMMA IdleLoop == ASSUME NEW w \in Worker, pc'[w] \in Idle PROVE LoopInv(w)'
  BY DEF LoopInv, Idle, Working

(* A worker has nothing to lose with step s: it works on another step, or   *)
(* is past the point where it held the job of s.                            *)
ClearOf(v, s) ==
    \/ exec[v].step # s
    \/ /\ pc[v] \notin Working \cup {"claimed", "failing", "closing"}
       /\ ~(pc[v] = "failed" /\ Ends(v))

LEMMA Clear ==
    ASSUME NEW v \in Worker, NEW s, LoopInv(v),
           \/ job[s].status = "PENDING"
           \/ job[s].status = "PROCESSING" /\ job[s].lockedBy # v
    PROVE  ClearOf(v, s)
  BY DEF LoopInv, Owns, ClearOf

LEMMA ClearFrame ==
    ASSUME NEW v \in Worker, LoopInv(v), SameLoop(v), NEW s, ClearOf(v, s),
           Busy(v) /\ exec[v].step # s => /\ job'[exec[v].step] = job[exec[v].step]
                                         /\ step'[exec[v].step] = step[exec[v].step]
    PROVE  LoopInv(v)'
  BY DEF LoopInv, SameLoop, Owns, Ends, Busy, Idle, Working, ClearOf

LEMMA OwnInit == Init => OwnInv
  BY DEF Init, OwnInv, FinishedTogether, LoopInv, Working

(* An action that leaves the loops alone, and rewrites the job and step of  *)
(* no worker that has something to lose with them.                          *)
LEMMA LoopsFrame ==
    ASSUME TypeOK, OwnInv, UNCHANGED <<pc, exec>>,
           \A v \in Worker : Busy(v) =>
              /\ job'[exec[v].step] = job[exec[v].step]
              /\ step'[exec[v].step].worker = step[exec[v].step].worker
              /\ step[exec[v].step].state \in OpenState =>
                    step'[exec[v].step].state \in OpenState
    PROVE  \A v \in Worker : LoopInv(v)'
<1> TAKE v \in Worker
<1>1. LoopInv(v) /\ SameLoop(v)
  BY DEF OwnInv, SameLoop
<1>2. Busy(v) => job'[exec[v].step] = job[exec[v].step]
  OBVIOUS
<1>3. pc[v] \in Working => /\ step'[exec[v].step].worker = v
                          /\ step'[exec[v].step].state \in OpenState
  BY <1>1 DEF LoopInv, Working, Busy, Idle
<1> QED
  BY <1>1, <1>2, <1>3, LoopFrame

LEMMA FailEffect ==
    ASSUME TypeOK, NEW s \in DOMAIN step, NEW ends \in BOOLEAN,
           NEW c \in {"operational", "other"}, StepFails(s, ends, c)
    PROVE  /\ DOMAIN step' = DOMAIN step
           /\ \A t \in DOMAIN step : t # s => step'[t] = step[t]
           /\ step'[s].worker = step[s].worker
           /\ \/ step' = step
              \/ step'[s].state = IF ends THEN "FAILED" ELSE "RETRYING"
<1>1. CASE step' = step
  BY <1>1
<1>2. CASE StepBecomes(s, Failed(step[s], ends, c))
  <2>1. /\ Failed(step[s], ends, c).worker = step[s].worker
        /\ Failed(step[s], ends, c).state = IF ends THEN "FAILED" ELSE "RETRYING"
    BY SameLength DEF Failed, Step
  <2> QED
    BY <1>2, <2>1 DEF StepBecomes
<1> QED
  BY <1>1, <1>2, FailUpdate

LEMMA TickOwns ==
    ASSUME InvestigationAssumption, Undisturbed, TypeOK, OwnInv,
           NEW w \in Worker, Tick(w)
    PROVE  OwnInv'
<1> DEFINE s == exec[w].step
<1> USE DEF Reporting
<1>0. /\ DOMAIN job = DOMAIN step
      /\ \A v \in Worker : Busy(v) => exec[v].step \in DOMAIN step
      /\ \A v \in Worker : LoopInv(v)
      /\ FinishedTogether
  BY SameLength, TypeParts DEF LoopsOK, OwnInv
<1>1. CASE RecoverStaleJobs(w)
  <2>1. SameLoop(w) \/ pc'[w] \in Idle
    BY <1>1, OtherLoops DEF RecoverStaleJobs, Idle
  <2>2. ASSUME NEW v \in Worker \ {w} PROVE LoopInv(v)'
    <3>1. SameLoop(v) /\ step' = step
      BY <1>1, OtherLoops DEF RecoverStaleJobs
    <3>2. Busy(v) => \/ job'[exec[v].step] = job[exec[v].step]
                     \/ JobStuck(exec[v].step)
      BY <1>0, <1>1, RecoverUpdate
    <3>3. JobStuck(exec[v].step) => ClearOf(v, exec[v].step)
      BY <1>0 DEF JobStuck, ClearOf, LoopInv, Owns
    <3>4. CASE Busy(v) => job'[exec[v].step] = job[exec[v].step]
      BY <1>0, <3>1, <3>4, LoopFrame DEF LoopInv
    <3>5. CASE ClearOf(v, exec[v].step)
      BY <1>0, <3>1, <3>5, ClearFrame
    <3> QED
      BY <3>2, <3>3, <3>4, <3>5
  <2>3. pc'[w] \in Idle
    BY <1>1, OtherLoops DEF RecoverStaleJobs, Idle
  <2>4. FinishedTogether'
    BY <1>0, <1>1, RecoverUpdate DEF RecoverStaleJobs, FinishedTogether, JobStuck
  <2> QED
    BY <2>2, <2>3, <2>4, IdleLoop DEF OwnInv
<1>2. ASSUME NEW t \in DOMAIN job, Claim(w, t) PROVE OwnInv'
  <2>1. /\ JobBecomes(t, Taken(job[t], w)) /\ pc'[w] = "claimed" /\ exec'[w].step = t
        /\ step' = step
        /\ \A v \in Worker \ {w} : SameLoop(v)
    <3>1. /\ pc' = [pc EXCEPT ![w] = "claimed"] /\ exec' = [exec EXCEPT ![w].step = t]
          /\ step' = step
      BY <1>2 DEF Claim, Goto
    <3>2. pc \in [Worker -> Control] /\ exec \in [Worker -> Exec]
      BY DEF TypeOK
    <3>3. pc'[w] = "claimed" /\ exec'[w].step = t
      BY <3>1, <3>2 DEF Exec
    <3>4. \A v \in Worker \ {w} : SameLoop(v)
      BY <3>1, <3>2 DEF SameLoop
    <3> QED
      BY <1>2, <3>1, <3>3, <3>4, ClaimUpdate
  <2>2. job'[t].status = "PROCESSING" /\ job'[t].lockedBy = w /\ ~job'[t].stale
    BY <2>1, SameLength DEF JobBecomes, Taken, Job
  <2>3. LoopInv(w)'
    BY <2>1, <2>2 DEF LoopInv, Owns, Working
  <2>4. ASSUME NEW v \in Worker \ {w} PROVE LoopInv(v)'
    <3>1. ClearOf(v, t)
      BY <1>0, <1>2, Clear DEF Claim
    <3> QED
      BY <1>0, <2>1, <3>1, ClearFrame DEF JobBecomes
  <2>5. FinishedTogether'
    BY <1>0, <1>2, <2>1 DEF FinishedTogether, Claim, JobBecomes
  <2> QED
    BY <2>3, <2>4, <2>5 DEF OwnInv
<1>3. CASE NothingClaimed(w)
  <2>1. pc'[w] \in Idle /\ UNCHANGED <<step, job>> /\ \A v \in Worker \ {w} : SameLoop(v)
    BY <1>3, OtherLoops DEF NothingClaimed, Idle
  <2> QED
    BY <1>0, <2>1, IdleLoop, LoopFrame DEF OwnInv, FinishedTogether, LoopInv
<1>4. CASE StepIsOver(w)
  <2>1. /\ pc'[w] = "closing" /\ exec'[w] = exec[w] /\ UNCHANGED <<step, job>>
        /\ \A v \in Worker \ {w} : SameLoop(v)
    BY <1>4, OtherLoops DEF StepIsOver
  <2>2. LoopInv(w)'
    BY <1>0, <1>4, <2>1 DEF LoopInv, Owns, StepIsOver, Working
  <2> QED
    BY <1>0, <2>1, <2>2, LoopFrame DEF OwnInv, FinishedTogether, LoopInv
<1>5. CASE StartStep(w)
  <2>1. /\ pc'[w] = "running" /\ exec'[w] = exec[w] /\ job' = job
        /\ \A v \in Worker \ {w} : SameLoop(v)
    BY <1>5, OtherLoops DEF StartStep
  <2>2. s \in DOMAIN step /\ StepBecomes(s, Started(step[s], w))
    BY <1>5, StartUpdate
  <2>3. step'[s].state = "RUNNING" /\ step'[s].worker = w
    BY <2>2, SameLength DEF StepBecomes, Started, Step
  <2>4. Owns(w)
    BY <1>0, <1>5 DEF StartStep, LoopInv
  <2>5. LoopInv(w)'
    BY <2>1, <2>3, <2>4 DEF LoopInv, Owns, Working, OpenState
  <2>6. ASSUME NEW v \in Worker \ {w} PROVE LoopInv(v)'
    <3>1. ClearOf(v, s)
      BY <1>0, <2>4, Clear DEF Owns
    <3> QED
      BY <1>0, <2>1, <2>2, <3>1, ClearFrame DEF StepBecomes
  <2>7. FinishedTogether'
    BY <1>0, <2>1, <2>2, <2>3 DEF FinishedTogether, StepBecomes
  <2> QED
    BY <2>5, <2>6, <2>7 DEF OwnInv
<1>6. ASSUME NEW a \in Action, ScheduleSuccessor(w, a) PROVE OwnInv'
  <2>1. /\ pc[w] = "running" /\ pc'[w] = "scheduled" /\ exec'[w] = exec[w]
        /\ \A v \in Worker \ {w} : SameLoop(v)
    BY <1>6, OtherLoops DEF ScheduleSuccessor
  <2>2. /\ DOMAIN job' = DOMAIN step'
        /\ \A t \in DOMAIN step : step'[t] = step[t] /\ job'[t] = job[t]
        /\ \A t \in DOMAIN step' \ DOMAIN step : step'[t] = NewStep(a)
    BY <1>6, AddStepType DEF ScheduleSuccessor
  <2>3. LoopInv(w)'
    BY <1>0, <2>1, <2>2 DEF LoopInv, Owns, Working, Busy, Idle
  <2>4. ASSUME NEW v \in Worker \ {w} PROVE LoopInv(v)'
    BY <1>0, <2>1, <2>2, LoopFrame DEF LoopInv, Busy, Idle, Working
  <2>5. FinishedTogether'
    BY <1>0, <2>2 DEF FinishedTogether, NewStep
  <2> QED
    BY <2>3, <2>4, <2>5 DEF OwnInv
<1>7. ASSUME NEW r \in Result, CompleteStep(w, r) PROVE OwnInv'
  <2>1. /\ pc[w] \in Working /\ s \in DOMAIN step /\ FinishStep(s, r)
        /\ step[s].state # "COMPLETED" /\ Owns(w)
    BY <1>0, <1>7 DEF CompleteStep, Busy, Idle, Working, LoopInv, OpenState
  <2>2. \/ pc'[w] = "idle"
        \/ pc'[w] = "closing" /\ exec'[w] = exec[w]
    BY <1>7, OtherLoops DEF CompleteStep
  <2>3. \A v \in Worker \ {w} : SameLoop(v)
    BY <1>7, OtherLoops DEF CompleteStep
  <2>4. StepBecomes(s, Completed(step[s], r)) /\ JobCompleted(s)
    BY <2>1, FinishUpdate
  <2>5. /\ \A t \in DOMAIN step : t # s => step'[t] = step[t] /\ job'[t] = job[t]
        /\ DOMAIN step' = DOMAIN step
        /\ job'[s].status = "COMPLETED"
    <3>1. JobBecomes(s, [job[s] EXCEPT !.status = "COMPLETED", !.lockedBy = NoOne,
                                       !.stale = FALSE])
      BY <1>0, <2>1, <2>4, CloseUpdate
    <3>2. job'[s].status = "COMPLETED" /\ \A t \in DOMAIN step : t # s => job'[t] = job[t]
      BY <1>0, <2>1, <3>1, SameLength DEF JobBecomes, Job
    <3>3. DOMAIN step' = DOMAIN step /\ \A t \in DOMAIN step : t # s => step'[t] = step[t]
      BY <2>4 DEF StepBecomes
    <3> QED
      BY <3>2, <3>3
  <2>6. LoopInv(w)'
    BY <2>2, <2>5 DEF LoopInv, Working
  <2>7. ASSUME NEW v \in Worker \ {w} PROVE LoopInv(v)'
    <3>1. ClearOf(v, s)
      BY <1>0, <2>1, Clear DEF Owns
    <3> QED
      BY <1>0, <2>3, <2>5, <3>1, ClearFrame
  <2>8. FinishedTogether'
    BY <1>0, <2>5 DEF FinishedTogether
  <2> QED
    BY <2>6, <2>7, <2>8 DEF OwnInv
<1>8. CASE CloseJob(w)
  <2>1. /\ s \in DOMAIN step /\ pc'[w] \in Idle /\ step' = step
        /\ \A v \in Worker \ {w} : SameLoop(v)
    BY <1>0, <1>8, OtherLoops DEF CloseJob, Busy, Idle
  <2>2. /\ \A t \in DOMAIN step : t # s => job'[t] = job[t]
        /\ job'[s].status = "COMPLETED"
    BY <1>0, <1>8, <2>1, CloseUpdate, SameLength DEF CloseJob, JobBecomes, Job
  <2>3. ASSUME NEW v \in Worker \ {w} PROVE LoopInv(v)'
    <3>1. CASE Owns(w)
      BY <1>0, <2>1, <2>2, <3>1, Clear, ClearFrame DEF Owns
    <3>2. CASE job[s].status = "COMPLETED"
      BY <1>0, <2>1, <2>2, <3>2 DEF LoopInv, Owns, SameLoop, Ends, Working, Busy, Idle
    <3> QED
      BY <1>0, <1>8, <3>1, <3>2 DEF LoopInv, CloseJob
  <2>4. FinishedTogether'
    BY <1>0, <2>1, <2>2 DEF FinishedTogether
  <2> QED
    BY <2>1, <2>3, <2>4, IdleLoop DEF OwnInv
<1>9. ASSUME NEW class \in Failure, Throw(w, class),
             pc[w] \in Working \cup {"claimed"} PROVE OwnInv'
  <2>1. /\ pc'[w] = "failing" /\ exec'[w].step = s /\ UNCHANGED <<step, job>>
        /\ \A v \in Worker \ {w} : SameLoop(v)
    BY <1>9, OtherLoops DEF Throw
  <2>2. Owns(w)
    BY <1>0, <1>9 DEF LoopInv
  <2>3. LoopInv(w)'
    BY <2>1, <2>2 DEF LoopInv, Owns, Working
  <2> QED
    BY <1>0, <2>1, <2>3, LoopFrame DEF OwnInv, FinishedTogether, LoopInv
<1>10. ASSUME NEW class \in Failures, HandlerFails(w, class) PROVE OwnInv'
  BY <1>9, <1>10 DEF HandlerFails, InvestigationAssumption, Undisturbed
<1>11. CASE DeadlineExceeded(w)
  BY <1>9, <1>11 DEF DeadlineExceeded, Failure, Working
<1>12. CASE SuccessorRefused(w)
  BY <1>9, <1>12 DEF SuccessorRefused, Failure, Working
<1>13. CASE FailJob(w)
  <2>1. /\ pc'[w] = "failed" /\ exec'[w] = exec[w] /\ step' = step
        /\ \A v \in Worker \ {w} : SameLoop(v)
    BY <1>13, OtherLoops DEF FailJob
  <2>2. Owns(w) /\ s \in DOMAIN step
    BY <1>0, <1>13 DEF FailJob, LoopInv, Busy, Idle
  <2>3. JobBecomes(s, Disposed(w, job[s]))
    BY <1>13, <2>2, FailJobUpdate DEF Owns
  <2>4. Ends(w) => job'[s].status = "FAILED"
    BY <1>0, <2>2, <2>3, SameLength DEF JobBecomes, Disposed, Job
  <2>5. LoopInv(w)'
    BY <2>1, <2>4 DEF LoopInv, Ends, Working
  <2>6. ASSUME NEW v \in Worker \ {w} PROVE LoopInv(v)'
    <3>1. ClearOf(v, s)
      BY <1>0, <2>2, Clear DEF Owns
    <3> QED
      BY <1>0, <2>1, <2>3, <3>1, ClearFrame DEF JobBecomes
  <2>7. FinishedTogether'
    BY <1>0, <2>1, <2>2, <2>3 DEF FinishedTogether, JobBecomes, Owns
  <2> QED
    BY <2>5, <2>6, <2>7 DEF OwnInv
<1>14. CASE FailStep(w)
  <2> DEFINE c == IF exec[w].class \in {"operational", "exhausted"}
                  THEN "operational" ELSE "other"
  <2>1. /\ s \in DOMAIN step /\ pc'[w] \in Idle /\ job' = job
        /\ \A v \in Worker \ {w} : SameLoop(v)
    BY <1>0, <1>14, OtherLoops DEF FailStep, Busy, Idle
  <2>2. StepFails(s, Ends(w), c) /\ c \in {"operational", "other"} /\ Ends(w) \in BOOLEAN
    BY <1>14 DEF FailStep, Ends
  <2>3. /\ DOMAIN step' = DOMAIN step
        /\ \A t \in DOMAIN step : t # s => step'[t] = step[t]
        /\ step'[s].worker = step[s].worker
        /\ \/ step' = step
           \/ step'[s].state = IF Ends(w) THEN "FAILED" ELSE "RETRYING"
    <3> HIDE DEF c
    <3> QED
      BY <2>1, <2>2, FailEffect
  <2>4. Ends(w) => job[s].status = "FAILED"
    BY <1>0, <1>14 DEF FailStep, LoopInv
  <2>5. ASSUME NEW v \in Worker \ {w} PROVE LoopInv(v)'
    <3>1. pc[v] \in Working => /\ step'[exec[v].step].worker = v
                              /\ step'[exec[v].step].state \in OpenState
      BY <1>0, <2>3, <2>4 DEF LoopInv, Owns, Working, Busy, Idle, OpenState
    <3> QED
      BY <1>0, <2>1, <3>1, LoopFrame
  <2>6. FinishedTogether'
    BY <1>0, <2>1, <2>3 DEF FinishedTogether
  <2> QED
    BY <2>1, <2>5, <2>6, IdleLoop DEF OwnInv
<1> QED
  BY <1>1, <1>2, <1>3, <1>4, <1>5, <1>6, <1>7, <1>8, <1>10, <1>11, <1>12, <1>13, <1>14
     DEF Tick

LEMMA OwnStep ==
    ASSUME InvestigationAssumption, Undisturbed, TypeOK, OwnInv, [Next]_vars
    PROVE  OwnInv'
<1> USE DEF Reporting
<1>0. /\ DOMAIN job = DOMAIN step
      /\ \A v \in Worker : Busy(v) => exec[v].step \in DOMAIN step
      /\ \A v \in Worker : LoopInv(v)
      /\ FinishedTogether
  BY SameLength, TypeParts DEF LoopsOK, OwnInv
<1>1. ASSUME UNCHANGED <<step, job, pc, exec>> PROVE OwnInv'
  BY <1>0, <1>1, LoopsFrame DEF OwnInv, FinishedTogether
<1>2. ASSUME NEW a \in Action, AddStep(a), UNCHANGED <<pc, exec>> PROVE OwnInv'
  <2>1. /\ DOMAIN job' = DOMAIN step'
        /\ \A t \in DOMAIN step : step'[t] = step[t] /\ job'[t] = job[t]
        /\ \A t \in DOMAIN step' \ DOMAIN step : step'[t] = NewStep(a)
    BY <1>2, AddStepType
  <2>2. FinishedTogether'
    BY <1>0, <2>1 DEF FinishedTogether, NewStep
  <2>3. \A v \in Worker : Busy(v) => /\ job'[exec[v].step] = job[exec[v].step]
                                   /\ step'[exec[v].step] = step[exec[v].step]
    BY <1>0, <2>1
  <2>4. \A v \in Worker : LoopInv(v)'
    BY <1>2, <2>3, LoopsFrame
  <2> QED
    BY <2>2, <2>4 DEF OwnInv
<1>3. ASSUME NEW a \in Action, ScheduleRoot(a) PROVE OwnInv'
  BY <1>2, <1>3 DEF ScheduleRoot
<1>4. CASE AdoptOrphan
  <2>1. RootAction \in Action
    BY DEF InvestigationAssumption
  <2> QED
    BY <1>1, <1>2, <1>4, <2>1 DEF AdoptOrphan
<1>5. ASSUME NEW w \in Worker, HeartbeatJob(w) PROVE OwnInv'
  <2> DEFINE s == exec[w].step
             r == [job[s] EXCEPT !.stale = FALSE]
  <2>1. /\ s \in DOMAIN job /\ job' = [job EXCEPT ![s] = r]
        /\ UNCHANGED <<step, pc, exec>>
        /\ job[s].status = "PROCESSING" /\ job[s].stale
    BY <1>0, <1>5 DEF HeartbeatJob
  <2>2. JobBecomes(s, r) /\ r.status = "PROCESSING"
    <3>1. r \in Job
      BY <2>1, JobRowUpdates
    <3>2. r.status = "PROCESSING"
      BY <2>1, SameLength DEF Job
    <3> QED
      BY <2>1, <3>1, <3>2, JobUpdate
  <2>3. ASSUME NEW v \in Worker PROVE LoopInv(v)'
    <3>1. ClearOf(v, s)
      BY <1>0, <2>1 DEF LoopInv, Owns, ClearOf
    <3> QED
      BY <1>0, <2>1, <2>2, <3>1, ClearFrame DEF JobBecomes, SameLoop
  <2>4. FinishedTogether'
    BY <1>0, <2>1, <2>2 DEF FinishedTogether, JobBecomes
  <2> QED
    BY <2>3, <2>4 DEF OwnInv
<1>6. ASSUME NEW s \in DOMAIN step, NEW l \in {"live", "expired"},
             step[s].state = "RUNNING", step' = [step EXCEPT ![s].lease = l],
             UNCHANGED <<job, pc, exec>>
      PROVE  OwnInv'
  <2> DEFINE r == [step[s] EXCEPT !.lease = l]
  <2>1. r \in Step /\ r.state = "RUNNING" /\ r.worker = step[s].worker
    BY <1>6, SameLength DEF Step
  <2>2. StepBecomes(s, r)
    BY <1>6, <2>1, StepUpdate
  <2>3. FinishedTogether'
    BY <1>0, <1>6, <2>1, <2>2 DEF FinishedTogether, StepBecomes
  <2>4. /\ \A t \in DOMAIN step : t # s => step'[t] = step[t]
        /\ step'[s].worker = step[s].worker /\ step'[s].state = step[s].state
    BY <1>6, <2>1, <2>2 DEF StepBecomes
  <2>5. \A v \in Worker : Busy(v) =>
           /\ job'[exec[v].step] = job[exec[v].step]
           /\ step'[exec[v].step].worker = step[exec[v].step].worker
           /\ step'[exec[v].step].state = step[exec[v].step].state
    BY <1>0, <1>6, <2>4
  <2>6. \A v \in Worker : LoopInv(v)'
    BY <1>6, <2>5, LoopsFrame
  <2> QED
    BY <2>3, <2>6 DEF OwnInv
<1>7. ASSUME NEW w \in Worker, HeartbeatStep(w) PROVE OwnInv'
  BY <1>0, <1>6, <1>7 DEF HeartbeatStep
<1>8. ASSUME NEW w \in Worker, Crash(w) PROVE OwnInv'
  <2>1. /\ pc'[w] \in Idle /\ UNCHANGED <<step, job>>
        /\ \A v \in Worker \ {w} : SameLoop(v)
    BY <1>8, OtherLoops DEF Crash, Idle
  <2> QED
    BY <1>0, <2>1, IdleLoop, LoopFrame DEF OwnInv, FinishedTogether, LoopInv
<1>9. ASSUME NEW s \in DOMAIN step, SweepRecover(s) PROVE OwnInv'
  <2>1. StepFails(s, FALSE, "other") /\ UNCHANGED <<job, pc, exec>>
    BY <1>9 DEF SweepRecover
  <2>2. /\ DOMAIN step' = DOMAIN step
        /\ \A t \in DOMAIN step : t # s => step'[t] = step[t]
        /\ step'[s].worker = step[s].worker
        /\ step' = step \/ step'[s].state = "RETRYING"
    BY <1>9, <2>1, FailEffect
  <2>3. FinishedTogether'
    BY <1>0, <2>1, <2>2 DEF FinishedTogether
  <2> QED
    BY <1>0, <2>1, <2>2, <2>3, LoopsFrame DEF OwnInv, OpenState
<1>10. ASSUME NEW s \in DOMAIN step, JobLeaseExpires(s) PROVE OwnInv'
  <2> DEFINE r == [job[s] EXCEPT !.stale = TRUE]
  <2>1. /\ s \in DOMAIN job /\ job' = [job EXCEPT ![s] = r]
        /\ UNCHANGED <<step, pc, exec>>
        /\ job[s].status = "PROCESSING"
    BY <1>0, <1>10 DEF JobLeaseExpires
  <2>2. JobBecomes(s, r) /\ r.status = "PROCESSING"
    <3>1. r \in Job
      BY <2>1, JobRowUpdates
    <3>2. r.status = "PROCESSING"
      BY <2>1, SameLength DEF Job
    <3> QED
      BY <2>1, <3>1, <3>2, JobUpdate
  <2>3. ASSUME NEW v \in Worker PROVE LoopInv(v)'
    <3>1. ClearOf(v, s)
      BY <1>0, <1>10 DEF JobLeaseExpires, LoopInv, Owns, ClearOf, Busy, Idle, Working,
                         Undisturbed
    <3> QED
      BY <1>0, <2>1, <2>2, <3>1, ClearFrame DEF JobBecomes, SameLoop
  <2>4. FinishedTogether'
    BY <1>0, <2>1, <2>2 DEF FinishedTogether, JobBecomes
  <2> QED
    BY <2>3, <2>4 DEF OwnInv
<1>11. ASSUME NEW s \in DOMAIN step, StepLeaseExpires(s) PROVE OwnInv'
  BY <1>6, <1>11 DEF StepLeaseExpires
<1>12. ASSUME \/ SelectOrphan \/ SweepSelect \/ RepairProjection \/ DeadlinePasses
              \/ HumanReject \/ \E s \in DOMAIN step : ReviveJob(s)
       PROVE  OwnInv'
  BY <1>1, <1>12 DEF SelectOrphan, SweepSelect, RepairProjection, DeadlinePasses,
                     HumanReject, ReviveJob, Undisturbed
<1>13. CASE UNCHANGED vars
  BY <1>1, <1>13 DEF vars
<1> QED
  BY <1>3, <1>4, <1>5, <1>7, <1>8, <1>9, <1>10, <1>11, <1>12, <1>13, TickOwns
     DEF Next, Sweep

LEMMA OwnershipInvariant == ASSUME Undisturbed PROVE Spec => [](TypeOK /\ OwnInv)
<1> USE InvestigationAssumption
<1>1. Init => TypeOK /\ OwnInv
  BY TypeInit, OwnInit
<1>2. TypeOK /\ OwnInv /\ [Next]_vars => TypeOK' /\ OwnInv'
  BY TypeStep, OwnStep
<1> QED
  BY <1>1, <1>2, PTL DEF Spec

(* Without job lease loss and human rejection a worker that works on a step *)
(* holds its job, and the step is open and names it: two workers never work *)
(* on one step, though sweeps, retries and late catch blocks interleave.    *)
THEOREM StepOwnership == ASSUME Undisturbed PROVE Spec => []WorkerOwnsStep
<1>1. TypeOK /\ OwnInv => WorkerOwnsStep
  BY DEF OwnInv, LoopInv, Owns, WorkerOwnsStep, Working, IsOpen
<1> QED
  BY <1>1, OwnershipInvariant, PTL

(* Under the same conditions a completed step has a completed job: no later *)
(* statement puts the job of finished work back where it may be claimed.    *)
THEOREM StepAndJobFinishTogether == ASSUME Undisturbed PROVE Spec => []FinishedTogether
<1>1. TypeOK /\ OwnInv => FinishedTogether
  BY DEF OwnInv
<1> QED
  BY <1>1, OwnershipInvariant, PTL
-----------------------------------------------------------------------------
(* One runnable step per action.  A job that is over stays over, while      *)
(* nothing revives it: failJob writes by id, but only its owner gets there. *)
Over(s) == job[s].status \in {"COMPLETED", "FAILED"}

LEMMA OverStays ==
    ASSUME InvestigationAssumption, Undisturbed, TypeOK, OwnInv, [Next]_vars,
           NEW s \in DOMAIN job, Over(s)
    PROVE  s \in DOMAIN job' /\ Over(s)'
<1> USE DEF Reporting
<1>0. /\ DOMAIN job = DOMAIN step
      /\ \A v \in Worker : Busy(v) => exec[v].step \in DOMAIN job
      /\ \A v \in Worker : LoopInv(v)
  BY SameLength, TypeParts DEF LoopsOK, OwnInv
<1>1. job' = job => s \in DOMAIN job' /\ Over(s)'
  BY DEF Over
<1>2. ASSUME NEW t \in DOMAIN job, NEW r, JobBecomes(t, r),
             t # s \/ r.status \in {"COMPLETED", "FAILED"}
      PROVE  s \in DOMAIN job' /\ Over(s)'
  BY <1>2 DEF JobBecomes, Over
<1>3. ASSUME NEW a \in Action, AddStep(a) PROVE s \in DOMAIN job' /\ Over(s)'
  BY <1>0, <1>3, AddStepType DEF Over
<1>4. ASSUME NEW w \in Worker, Tick(w) PROVE s \in DOMAIN job' /\ Over(s)'
  <2>1. CASE RecoverStaleJobs(w)
    BY <2>1, RecoverUpdate DEF Over, JobStuck
  <2>2. ASSUME NEW t \in DOMAIN job, Claim(w, t) PROVE s \in DOMAIN job' /\ Over(s)'
    BY <1>2, <2>2, ClaimUpdate DEF Claim, Over
  <2>3. ASSUME JobCompleted(exec[w].step), Busy(w) PROVE s \in DOMAIN job' /\ Over(s)'
    <3> DEFINE r == [job[exec[w].step] EXCEPT !.status = "COMPLETED", !.lockedBy = NoOne,
                                              !.stale = FALSE]
    <3>1. JobBecomes(exec[w].step, r)
      BY <1>0, <2>3, CloseUpdate
    <3>2. r.status = "COMPLETED"
      BY <1>0, <2>3, SameLength DEF Job
    <3> QED
      BY <1>0, <1>2, <2>3, <3>1, <3>2
  <2>4. ASSUME NEW x \in Result, CompleteStep(w, x) PROVE s \in DOMAIN job' /\ Over(s)'
    BY <1>1, <2>3, <2>4 DEF CompleteStep, FinishStep, Busy, Idle
  <2>5. CASE CloseJob(w)
    BY <2>3, <2>5 DEF CloseJob, Busy, Idle
  <2>6. CASE FailJob(w)
    <3>1. Owns(w)
      BY <1>0, <2>6 DEF FailJob, LoopInv
    <3>2. exec[w].step # s
      BY <3>1 DEF Owns, Over
    <3>3. exec[w].step \in DOMAIN job
      BY <1>0, <2>6 DEF FailJob, Busy, Idle
    <3> QED
      BY <1>1, <1>2, <2>6, <3>2, <3>3, FailJobUpdate
  <2>7. ASSUME NEW a \in Action, ScheduleSuccessor(w, a) PROVE s \in DOMAIN job' /\ Over(s)'
    BY <1>3, <2>7 DEF ScheduleSuccessor
  <2>8. \/ UNCHANGED job
        \/ RecoverStaleJobs(w)
        \/ \E t \in DOMAIN job : Claim(w, t)
        \/ \E a \in Action : ScheduleSuccessor(w, a)
        \/ \E x \in Result : CompleteStep(w, x)
        \/ CloseJob(w)
        \/ FailJob(w)
    BY <1>4 DEF Tick, NothingClaimed, StepIsOver, StartStep, HandlerFails,
                DeadlineExceeded, SuccessorRefused, Throw, FailStep
  <2> QED
    BY <1>1, <2>1, <2>2, <2>4, <2>5, <2>6, <2>7, <2>8
<1>5. ASSUME NEW a \in Action, ScheduleRoot(a) PROVE s \in DOMAIN job' /\ Over(s)'
  BY <1>3, <1>5 DEF ScheduleRoot
<1>6. CASE AdoptOrphan
  <2>1. RootAction \in Action
    BY DEF InvestigationAssumption
  <2> QED
    BY <1>1, <1>3, <1>6, <2>1 DEF AdoptOrphan
<1>7. ASSUME NEW w \in Worker, HeartbeatJob(w) PROVE s \in DOMAIN job' /\ Over(s)'
  BY <1>0, <1>7 DEF HeartbeatJob, Over
<1>8. ASSUME NEW t \in DOMAIN step, JobLeaseExpires(t) PROVE s \in DOMAIN job' /\ Over(s)'
  BY <1>0, <1>8 DEF JobLeaseExpires, Over
<1>9. ASSUME \/ SelectOrphan \/ Sweep \/ RepairProjection \/ DeadlinePasses \/ HumanReject
             \/ \E w \in Worker : HeartbeatStep(w) \/ Crash(w)
             \/ \E t \in DOMAIN step : ReviveJob(t) \/ StepLeaseExpires(t)
             \/ UNCHANGED vars
      PROVE  s \in DOMAIN job' /\ Over(s)'
  BY <1>1, <1>9 DEF SelectOrphan, Sweep, SweepSelect, SweepRecover, RepairProjection,
                    DeadlinePasses, HumanReject, HeartbeatStep, Crash, ReviveJob,
                    StepLeaseExpires, vars, Undisturbed
<1> QED
  BY <1>4, <1>5, <1>6, <1>7, <1>8, <1>9 DEF Next

(* What a step of the workflow does to the rows of investigation_steps: an  *)
(* old row keeps its action, and becomes FAILED only when its worker has    *)
(* failed the job for good; a new row is the first open one of its action.  *)
LEMMA OldAndNewRows ==
    ASSUME InvestigationAssumption, TypeOK, OwnInv, [Next]_vars
    PROVE  /\ \A s \in DOMAIN step :
                /\ s \in DOMAIN step'
                /\ step'[s].action = step[s].action
                /\ step'[s].state = "FAILED" => step[s].state = "FAILED" \/ Over(s)
           /\ \A s \in DOMAIN step' \ DOMAIN step :
                /\ step'[s].state # "FAILED"
                /\ OpenStepsOf(step'[s].action) = {}
                /\ \A t \in DOMAIN step : step'[t] = step[t]
                /\ DOMAIN step' = DOMAIN step \cup {s}
<1> DEFINE Kept(s) == /\ s \in DOMAIN step'
                      /\ step'[s].action = step[s].action
                      /\ step'[s].state = "FAILED" => step[s].state = "FAILED" \/ Over(s)
           First(s) == /\ step'[s].state # "FAILED"
                       /\ OpenStepsOf(step'[s].action) = {}
                       /\ \A t \in DOMAIN step : step'[t] = step[t]
                       /\ DOMAIN step' = DOMAIN step \cup {s}
           Goal == /\ \A s \in DOMAIN step : Kept(s)
                   /\ \A s \in DOMAIN step' \ DOMAIN step : First(s)
<1> USE DEF Reporting
<1>1. step' = step => Goal
  OBVIOUS
<1>2. ASSUME NEW a \in Action, AddStep(a) PROVE Goal
  <2>1. NewStep(a) \in Step /\ step \in Seq(Step)
    BY DEF NewStep, Step, StepState, OpenState, TypeOK
  <2>2. CASE OpenStepsOf(a) # {}
    BY <1>1, <1>2, <2>2 DEF AddStep
  <2>3. CASE OpenStepsOf(a) = {}
    <3>1. step' = Append(step, NewStep(a))
      BY <1>2, <2>3 DEF AddStep
    <3>2. /\ \A t \in DOMAIN step : t \in DOMAIN step' /\ step'[t] = step[t]
          /\ DOMAIN step' = DOMAIN step \cup {Len(step) + 1}
          /\ step'[Len(step) + 1] = NewStep(a)
      BY <2>1, <3>1, AppendFacts
    <3>3. NewStep(a).action = a /\ NewStep(a).state = "PENDING"
      BY DEF NewStep
    <3> QED
      BY <2>3, <3>2, <3>3
  <2> QED
    BY <2>2, <2>3
<1>3. ASSUME NEW s \in DOMAIN step, NEW r, StepBecomes(s, r), r.action = step[s].action,
             r.state = "FAILED" => step[s].state = "FAILED" \/ Over(s)
      PROVE  Goal
  BY <1>3 DEF StepBecomes
<1>4. ASSUME NEW s \in DOMAIN step, NEW l \in {"live", "expired"},
             step[s].state = "RUNNING", step' = [step EXCEPT ![s].lease = l]
      PROVE  Goal
  <2> DEFINE r == [step[s] EXCEPT !.lease = l]
  <2>1. r \in Step /\ r.state = "RUNNING" /\ r.action = step[s].action
    BY <1>4, SameLength DEF Step
  <2>2. StepBecomes(s, r)
    BY <1>4, <2>1, StepUpdate
  <2> HIDE DEF r
  <2> QED
    BY <1>3, <2>1, <2>2
<1>5. ASSUME NEW s \in DOMAIN step, NEW ends \in BOOLEAN, ends => Over(s),
             NEW c \in {"operational", "other"}, StepFails(s, ends, c) PROVE Goal
  <2> DEFINE r == Failed(step[s], ends, c)
  <2>1. r.action = step[s].action /\ (r.state = "FAILED" => ends)
    BY SameLength DEF Failed, Step
  <2>2. step' = step \/ StepBecomes(s, r)
    BY <1>5, FailUpdate
  <2> HIDE DEF r
  <2> QED
    BY <1>1, <1>3, <1>5, <2>1, <2>2
<1>6. ASSUME NEW w \in Worker, Tick(w) PROVE Goal
  <2> DEFINE s == exec[w].step
  <2>1. Busy(w) => s \in DOMAIN step
    BY DEF TypeOK, Busy
  <2>2. CASE StartStep(w)
    <3>1. StepBecomes(s, Started(step[s], w)) /\ s \in DOMAIN step
      BY <2>2, StartUpdate
    <3>2. Started(step[s], w).action = step[s].action /\ Started(step[s], w).state = "RUNNING"
      BY <3>1, SameLength DEF Started, Step
    <3> QED
      BY <1>3, <3>1, <3>2
  <2>3. ASSUME NEW a \in Action, ScheduleSuccessor(w, a) PROVE Goal
    BY <1>2, <2>3 DEF ScheduleSuccessor
  <2>4. ASSUME NEW x \in Result, CompleteStep(w, x) PROVE Goal
    <3>1. s \in DOMAIN step /\ FinishStep(s, x)
      BY <2>1, <2>4 DEF CompleteStep, Busy, Idle
    <3>2. /\ Completed(step[s], x).action = step[s].action
          /\ Completed(step[s], x).state = "COMPLETED"
      BY <3>1, SameLength DEF Completed, Step
    <3> QED
      BY <1>1, <1>3, <3>1, <3>2, FinishUpdate
  <2>5. CASE FailStep(w)
    <3>1. /\ s \in DOMAIN step /\ Ends(w) \in BOOLEAN
          /\ Ends(w) => Over(s)
      BY <2>1, <2>5 DEF FailStep, Busy, Idle, Ends, OwnInv, LoopInv, Over
    <3> QED
      BY <1>5, <2>5, <3>1 DEF FailStep
  <2>6. \/ UNCHANGED step
        \/ StartStep(w)
        \/ \E a \in Action : ScheduleSuccessor(w, a)
        \/ \E x \in Result : CompleteStep(w, x)
        \/ FailStep(w)
    BY <1>6 DEF Tick, RecoverStaleJobs, Claim, NothingClaimed, StepIsOver, CloseJob,
                HandlerFails, DeadlineExceeded, SuccessorRefused, Throw, FailJob
  <2> QED
    BY <1>1, <2>2, <2>3, <2>4, <2>5, <2>6
<1>7. ASSUME NEW w \in Worker, HeartbeatStep(w) PROVE Goal
  BY <1>4, <1>7 DEF HeartbeatStep, TypeOK, Busy
<1>8. ASSUME NEW s \in DOMAIN step, StepLeaseExpires(s) PROVE Goal
  BY <1>4, <1>8 DEF StepLeaseExpires
<1>9. CASE Sweep
  BY <1>1, <1>5, <1>9 DEF Sweep, SweepSelect, SweepRecover
<1>10. ASSUME NEW a \in Action, ScheduleRoot(a) PROVE Goal
  BY <1>2, <1>10 DEF ScheduleRoot
<1>11. CASE AdoptOrphan
  <2>1. RootAction \in Action
    BY DEF InvestigationAssumption
  <2> QED
    BY <1>1, <1>2, <1>11, <2>1 DEF AdoptOrphan
<1>12. ASSUME \/ SelectOrphan \/ HumanReject \/ RepairProjection \/ DeadlinePasses
              \/ \E w \in Worker : HeartbeatJob(w) \/ Crash(w)
              \/ \E s \in DOMAIN step : ReviveJob(s) \/ JobLeaseExpires(s)
              \/ UNCHANGED vars
       PROVE  Goal
  BY <1>1, <1>12 DEF SelectOrphan, HumanReject, RepairProjection, DeadlinePasses,
                     HeartbeatJob, Crash, ReviveJob, JobLeaseExpires, vars
<1> QED
  BY <1>6, <1>7, <1>8, <1>9, <1>10, <1>11, <1>12 DEF Next

(* A step that has failed has a job that is over.                           *)
FailedIsOver == \A s \in DOMAIN step : step[s].state = "FAILED" => Over(s)

LEMMA ClosedIsOver ==
    ASSUME TypeOK, OwnInv, FailedIsOver, NEW s \in DOMAIN step, ~IsOpen(s)
    PROVE  Over(s)
  BY SameLength DEF OwnInv, FinishedTogether, FailedIsOver, IsOpen, Step, StepState, Over

LEMMA RunnableStep ==
    ASSUME InvestigationAssumption, Undisturbed, TypeOK, OwnInv, TypeOK',
           FailedIsOver, OneRunnableStepPerAction, [Next]_vars
    PROVE  FailedIsOver' /\ OneRunnableStepPerAction'
<1>0. DOMAIN job = DOMAIN step
  BY SameLength
<1>1. \A s \in DOMAIN step : Over(s) => Over(s)'
  BY <1>0, OverStays
<1>2. FailedIsOver'
  BY <1>1, OldAndNewRows DEF FailedIsOver
<1>3. ASSUME NEW s \in DOMAIN step, Runnable(s)' PROVE Runnable(s)
  <2>1. ~Over(s)
    BY <1>1, <1>3 DEF Runnable, Over
  <2>2. IsOpen(s)
    BY <2>1, ClosedIsOver
  <2> QED
    BY <1>0, <2>1, <2>2, SameLength DEF Runnable, Over, Job
<1>4. ASSUME NEW s \in DOMAIN step', NEW t \in DOMAIN step',
             Runnable(s)', Runnable(t)', step'[s].action = step'[t].action
      PROVE  s = t
  <2>1. CASE s \in DOMAIN step /\ t \in DOMAIN step
    BY <1>3, <1>4, <2>1, OldAndNewRows DEF OneRunnableStepPerAction
  <2>2. ASSUME NEW x \in DOMAIN step' \ DOMAIN step, NEW y \in DOMAIN step,
               Runnable(y)', step'[y].action = step'[x].action
        PROVE  FALSE
    <3>1. OpenStepsOf(step'[x].action) = {} /\ step'[y] = step[y]
      BY <2>2, OldAndNewRows
    <3>2. IsOpen(y)
      BY <1>3, <2>2 DEF Runnable
    <3> QED
      BY <2>2, <3>1, <3>2 DEF OpenStepsOf
  <2>3. CASE s \notin DOMAIN step /\ t \notin DOMAIN step
    BY <1>4, <2>3, OldAndNewRows
  <2> QED
    BY <1>4, <2>1, <2>2, <2>3
<1> QED
  BY <1>2, <1>4 DEF OneRunnableStepPerAction

(* While no job lease is lost and nothing revives or rejects, an action has *)
(* at most one step that is open and whose job may still run, though sweeps *)
(* and late failures put closed steps back to RETRYING and the orphan       *)
(* reconciliation schedules meanwhile: no two workers investigate it.       *)
THEOREM OneRunnableStep == ASSUME Undisturbed PROVE Spec => []OneRunnableStepPerAction
<1> USE InvestigationAssumption
<1>1. Init => FailedIsOver /\ OneRunnableStepPerAction
  BY DEF Init, FailedIsOver, OneRunnableStepPerAction
<1>2. TypeOK /\ OwnInv /\ TypeOK' /\ FailedIsOver /\ OneRunnableStepPerAction /\ [Next]_vars
        => FailedIsOver' /\ OneRunnableStepPerAction'
  BY RunnableStep
<1>3. Spec => [](TypeOK /\ OwnInv)
  BY OwnershipInvariant
<1> QED
  BY <1>1, <1>2, <1>3, PTL DEF Spec
=============================================================================
