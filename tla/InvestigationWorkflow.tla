----------------------- MODULE InvestigationWorkflow -----------------------
(***************************************************************************)
(* One resumable investigation of a channel: a row of investigations, its  *)
(* investigation_steps, and the job that carries each step.  A step and its *)
(* job are created together; workers claim the job, start the step, may     *)
(* schedule a successor step, and complete or fail both.  A maintenance     *)
(* loop recovers steps whose lease expired and adopts orphaned channels.    *)
(* One action is one transaction or one autocommitted statement.            *)
(*                                                                          *)
(* The job is what JobQueue models in detail; here it keeps the columns the *)
(* workflow depends on.  Each step has a job of its own (job_id is UNIQUE). *)
(* Left out: checksums, snapshots and the event log, which no code reads    *)
(* back, and the other investigations of the channel.                       *)
(***************************************************************************)
EXTENDS Naturals, Sequences, FiniteSets

CONSTANTS
    Worker,       \* worker slots, with distinct worker ids
    NoOne,        \* locked_by IS NULL, worker_id IS NULL
    Action,       \* evidence actions (action_type)
    RootAction,   \* the action the orphan reconciliation schedules
    MaxAttempts,  \* jobs.max_attempts
    MaxSteps,     \* model bound: steps of the investigation
    MaxClaims,    \* model bound: claims in one behaviour
    Disturbances, \* which of DisturbanceKinds may happen
    Failures      \* which classes of failure, of those in Failure, may happen

(* jobLeaseLoss and stepLeaseLoss: the heartbeats of a live worker do not   *)
(* arrive in time, on jobs or on investigation_steps.  statementFault: the  *)
(* completeJob that follows a finished step fails.  humanReject: a reviewer *)
(* rejects the channel.  revive: the capacity sweep revives a failed job.   *)
(* operatorRepair: an operator asks for repairInvestigationProjection.      *)
DisturbanceKinds == {"jobLeaseLoss", "stepLeaseLoss", "statementFault",
                     "humanReject", "revive", "operatorRepair"}

(* operational: attempt-free, and lets the step refresh the deadline;       *)
(* exhausted: the same past its retry age, so terminal, but revivable;      *)
(* deferred: attempt-free provider or policy waits; terminal: the deadline, *)
(* the quota fence, permanent input; ordinary: counts against max_attempts. *)
Failure == {"operational", "exhausted", "deferred", "ordinary", "terminal"}

ASSUME InvestigationAssumption ==
    /\ NoOne \notin Worker
    /\ RootAction \in Action
    /\ MaxAttempts \in Nat \ {0}
    /\ MaxSteps \in Nat \ {0}
    /\ MaxClaims \in Nat
    /\ Disturbances \subseteq DisturbanceKinds
    /\ Failures \subseteq Failure

VARIABLES
    inv,    \* the row of investigations
    step,   \* the rows of investigation_steps, by sequence_number
    job,    \* the row of jobs of each step
    pc,     \* where each worker loop is
    exec,   \* what a busy worker works on
    sweep,  \* steps recoverStaleInvestigationSteps has selected and not yet failed
    orphan, \* what the orphan reconciliation does with the channel
    claims  \* number of claims so far

vars == <<inv, step, job, pc, exec, sweep, orphan, claims>>
-----------------------------------------------------------------------------
Settled  == {"COMPLETED", "NEEDS_REVIEW", "UNRESOLVED", "OPERATIONALLY_BLOCKED",
             "SUPERSEDED"}
InvState == {"ABSENT", "ACTIVE"} \cup Settled
OpenState == {"PENDING", "RUNNING", "RETRYING"}
StepState == OpenState \cup {"COMPLETED", "FAILED"}

(* resulting_status: the trading status is confirmed either way, needs a    *)
(* review, was rejected by policy, or is still open.                        *)
Result == {"confirmed", "review", "rejected", "open"}

(* late: deadline_at has passed.                                            *)
Investigation == [state: InvState, late: BOOLEAN]

(* lease: lease_expires_at is NULL, in the future, or past.  class: whether *)
(* failure_class is one that shouldRefreshOperationalRetryDeadline accepts. *)
Step == [action: Action, state: StepState, class: {"none", "operational", "other"},
         lease: {"none", "live", "expired"}, worker: Worker \cup {NoOne},
         result: Result \cup {"none"}]

(* stale: locked_at is past the stale threshold.  revivable: FAILED with    *)
(* the mark of the operational block.                                       *)
Job == [status: {"PENDING", "PROCESSING", "COMPLETED", "FAILED"}, attempts: Nat,
        lockedBy: Worker \cup {NoOne}, stale: BOOLEAN, revivable: BOOLEAN]

Idle    == {"idle", "polled"}
Working == {"running", "scheduled"}
Control == Idle \cup Working \cup {"claimed", "closing", "failing", "failed"}

(* The claimed step, and, once the handler threw, the class of the failure  *)
(* and the attempts failJob read.                                           *)
Exec   == [step: Nat, class: Failure, attempts: Nat]
NoExec == [step |-> 0, class |-> "terminal", attempts |-> 0]

TypeOK ==
    /\ inv \in Investigation
    /\ step \in Seq(Step)
    /\ job \in Seq(Job)
    /\ Len(job) = Len(step)
    /\ pc \in [Worker -> Control]
    /\ exec \in [Worker -> Exec]
    /\ \A w \in Worker : pc[w] \notin Idle => exec[w].step \in DOMAIN step
    /\ sweep \subseteq DOMAIN step
    /\ orphan \in {"none", "selected", "adopted"}
    /\ claims \in Nat

Busy(w)   == pc[w] \notin Idle
IsOpen(s) == step[s].state \in OpenState
Reporting == <<sweep, orphan, claims>>

Goto(w, l) == pc' = [pc EXCEPT ![w] = l]

BecomeIdle(w) ==
    /\ Goto(w, "idle")
    /\ exec' = [exec EXCEPT ![w] = NoExec]
-----------------------------------------------------------------------------
(* scheduleInvestigationStep on an ACTIVE investigation before its          *)
(* deadline: nothing new when the same action has an open step already,     *)
(* else a step and its job, with a fresh idempotency key.                   *)
NewStep(a) == [action |-> a, state |-> "PENDING", class |-> "none",
               lease |-> "none", worker |-> NoOne, result |-> "none"]
NewJob == [status |-> "PENDING", attempts |-> 0, lockedBy |-> NoOne,
           stale |-> FALSE, revivable |-> FALSE]

OpenStepsOf_NotRetrying(a) ==
    {s \in DOMAIN step : step[s].action = a /\ step[s].state \in {"PENDING", "RUNNING"}}

OpenStepsOf(a) == {s \in DOMAIN step : step[s].action = a /\ IsOpen(s)}

AddStep(a) ==
    IF OpenStepsOf(a) # {}
    THEN UNCHANGED <<step, job>>
    ELSE /\ Len(step) < MaxSteps
         /\ step' = Append(step, NewStep(a))
         /\ job' = Append(job, NewJob)

(* The pipeline starts the investigation of a classified channel.           *)
ScheduleRoot(a) ==
    /\ inv.state = "ABSENT"
    /\ inv' = [inv EXCEPT !.state = "ACTIVE"]
    /\ AddStep(a)
    /\ UNCHANGED <<pc, exec, Reporting>>

(* reconcileOrphanInvestigations reads the channels that wait without an    *)
(* active investigation or job, then schedules them one by one.  The key of *)
(* the investigation and of the job contain the diagnostic: it finds the    *)
(* investigation that exists by then, which refuses when it is settled or   *)
(* late, and its job can be created only once.                              *)
SelectOrphan ==
    /\ orphan = "none"
    /\ inv.state # "ACTIVE"
    /\ \A s \in DOMAIN job : job[s].status \notin {"PENDING", "PROCESSING"}
    /\ orphan' = "selected"
    /\ UNCHANGED <<inv, step, job, pc, exec, sweep, claims>>

AdoptOrphan ==
    /\ orphan = "selected"
    /\ \/ /\ inv.state = "ABSENT"
          /\ inv' = [inv EXCEPT !.state = "ACTIVE"]
          /\ AddStep(RootAction)
          /\ orphan' = "adopted"
       \/ /\ inv.state = "ACTIVE" /\ ~inv.late
          /\ AddStep(RootAction)
          /\ UNCHANGED inv
          /\ orphan' = "adopted"
       \/ /\ inv.state \in Settled \/ inv.late
          /\ orphan' = "none"
          /\ UNCHANGED <<inv, step, job>>
    /\ UNCHANGED <<pc, exec, sweep, claims>>
-----------------------------------------------------------------------------
(* Every poll begins with recoverStaleJobs, over all jobs.                  *)
JobStuck_AnyLease(s) == job[s].status = "PROCESSING"
JobStuck(s)          == job[s].status = "PROCESSING" /\ job[s].stale

RecoverStaleJobs(w) ==
    /\ pc[w] = "idle"
    /\ job' = [s \in DOMAIN job |->
                  IF JobStuck(s)
                  THEN [job[s] EXCEPT !.status = "PENDING", !.lockedBy = NoOne,
                                      !.stale = FALSE]
                  ELSE job[s]]
    /\ Goto(w, "polled")
    /\ UNCHANGED <<inv, step, exec, Reporting>>

Claim(w, s) ==
    /\ pc[w] = "polled"
    /\ job[s].status = "PENDING"
    /\ claims < MaxClaims
    /\ claims' = claims + 1
    /\ job' = [job EXCEPT ![s].status = "PROCESSING", ![s].lockedBy = w,
                          ![s].stale = FALSE, ![s].attempts = @ + 1]
    /\ exec' = [exec EXCEPT ![w].step = s]
    /\ Goto(w, "claimed")
    /\ UNCHANGED <<inv, step, sweep, orphan>>

NothingClaimed(w) ==
    /\ pc[w] = "polled"
    /\ Goto(w, "idle")
    /\ UNCHANGED <<inv, step, job, exec, Reporting>>

(* startInvestigationStep.  A step that is over makes it return false, and  *)
(* the worker only closes the job.                                          *)
StepIsOver(w) ==
    /\ pc[w] = "claimed"
    /\ ~IsOpen(exec[w].step)
    /\ Goto(w, "closing")
    /\ UNCHANGED <<inv, step, job, exec, Reporting>>

(* After the deadline only a step that waits for an operational retry may   *)
(* go on, and renews the deadline of an investigation that is ACTIVE.       *)
MayRefreshDeadline(s) == step[s].state = "RETRYING" /\ step[s].class = "operational"

StartStep(w) ==
    LET s == exec[w].step
    IN  /\ pc[w] = "claimed"
        /\ IsOpen(s)
        /\ inv.late => MayRefreshDeadline(s)
        /\ inv' = [inv EXCEPT !.late = @ /\ inv.state # "ACTIVE"]
        /\ step' = [step EXCEPT ![s].state = "RUNNING", ![s].worker = w,
                                ![s].lease = "live"]
        /\ Goto(w, "running")
        /\ UNCHANGED <<job, exec, Reporting>>

(* One timer sends both heartbeats; each is fenced by the worker's id.      *)
HeartbeatJob(w) ==
    LET s == exec[w].step
    IN  /\ Busy(w)
        /\ job[s].status = "PROCESSING" /\ job[s].lockedBy = w /\ job[s].stale
        /\ job' = [job EXCEPT ![s].stale = FALSE]
        /\ UNCHANGED <<inv, step, pc, exec, Reporting>>

HeartbeatStep(w) ==
    LET s == exec[w].step
    IN  /\ Busy(w)
        /\ step[s].state = "RUNNING" /\ step[s].worker = w /\ step[s].lease = "expired"
        /\ step' = [step EXCEPT ![s].lease = "live"]
        /\ UNCHANGED <<inv, job, pc, exec, Reporting>>

(* The pipeline finds the evidence uncertain and schedules a successor.  It *)
(* may ask for the very action it is running, whose open step it is itself. *)
ScheduleSuccessor(w, a) ==
    /\ pc[w] = "running"
    /\ inv.state = "ACTIVE" /\ ~inv.late
    /\ AddStep(a)
    /\ Goto(w, "scheduled")
    /\ UNCHANGED <<inv, exec, Reporting>>
-----------------------------------------------------------------------------
(* completeInvestigationStep: step, job and investigation in one            *)
(* transaction.  It asks neither who holds the job nor what state the       *)
(* investigation is in.                                                     *)
LaterOpenSteps_Itself(s) == {t \in DOMAIN step : t >= s /\ IsOpen(t)}
LaterOpenSteps(s)        == {t \in DOMAIN step : t > s /\ IsOpen(t)}

OutcomeState(s, r) ==
    CASE r = "rejected"  -> "SUPERSEDED"
      [] r = "confirmed" -> "COMPLETED"
      [] r = "review"    -> "NEEDS_REVIEW"
      [] r = "open"      -> IF LaterOpenSteps(s) # {} THEN "ACTIVE" ELSE "UNRESOLVED"

JobCompleted(s) ==
    job' = [job EXCEPT ![s].status = "COMPLETED", ![s].lockedBy = NoOne,
                       ![s].stale = FALSE]

FinishStep_JobLeftOpen(s, r) ==
    IF step[s].state = "COMPLETED"
    THEN UNCHANGED <<inv, step, job>>
    ELSE /\ inv' = [inv EXCEPT !.state = OutcomeState(s, r)]
         /\ step' = [step EXCEPT ![s].state = "COMPLETED", ![s].result = r,
                                 ![s].lease = "none"]
         /\ UNCHANGED job

FinishStep(s, r) ==
    IF step[s].state = "COMPLETED"
    THEN UNCHANGED <<inv, step, job>>
    ELSE /\ inv' = [inv EXCEPT !.state = OutcomeState(s, r)]
         /\ step' = [step EXCEPT ![s].state = "COMPLETED", ![s].result = r,
                                 ![s].lease = "none"]
         /\ JobCompleted(s)

(* A worker that scheduled a successor reports the status the pipeline left *)
(* open.  A case that is no longer eligible is completed and then goes      *)
(* through completeJob once more.                                           *)
CompleteStep(w, r) ==
    /\ \/ pc[w] = "running" /\ BecomeIdle(w)
       \/ pc[w] = "running" /\ Goto(w, "closing") /\ UNCHANGED exec
       \/ pc[w] = "scheduled" /\ r = "open" /\ BecomeIdle(w)
    /\ FinishStep(exec[w].step, r)
    /\ UNCHANGED Reporting

CloseJob(w) ==
    /\ pc[w] = "closing"
    /\ JobCompleted(exec[w].step)
    /\ BecomeIdle(w)
    /\ UNCHANGED <<inv, step, Reporting>>
-----------------------------------------------------------------------------
(* The catch block: failJob reads the job and decides, updates it by id,    *)
(* and failInvestigationStep follows in a transaction of its own.           *)
Throw(w, class) ==
    /\ exec' = [exec EXCEPT ![w].class = class,
                            ![w].attempts = job[exec[w].step].attempts]
    /\ Goto(w, "failing")
    /\ UNCHANGED <<inv, step, job, Reporting>>

HandlerFails(w, class) ==
    /\ \/ pc[w] \in {"claimed"} \cup Working
       \/ /\ pc[w] = "closing"
          /\ "statementFault" \in Disturbances
          /\ class \in {"operational", "ordinary"}
    /\ Throw(w, class)

(* A step that starts, or schedules a successor, after the deadline; and a  *)
(* successor on an investigation that was settled meanwhile.                *)
DeadlineExceeded(w) ==
    /\ inv.late
    /\ \/ pc[w] = "claimed" /\ IsOpen(exec[w].step) /\ ~MayRefreshDeadline(exec[w].step)
       \/ pc[w] = "running" /\ inv.state = "ACTIVE"
    /\ Throw(w, "terminal")

SuccessorRefused(w) ==
    /\ pc[w] = "running"
    /\ inv.state # "ACTIVE"
    /\ Throw(w, "ordinary")

Ends(w) ==
    \/ exec[w].class \in {"exhausted", "terminal"}
    \/ exec[w].class = "ordinary" /\ exec[w].attempts >= MaxAttempts

AttemptFree(w) == exec[w].class \in {"operational", "deferred"}

(* An UPDATE by id.  Where it would take a finished job back to PENDING,    *)
(* the trigger on jobs may suppress it.                                     *)
FailJob(w) ==
    LET s == exec[w].step
        r == [job[s] EXCEPT
                 !.status = IF Ends(w) THEN "FAILED" ELSE "PENDING",
                 !.lockedBy = NoOne, !.stale = FALSE,
                 !.attempts = IF AttemptFree(w) /\ @ > 0 THEN @ - 1 ELSE @,
                 !.revivable = exec[w].class = "exhausted"]
    IN  /\ pc[w] = "failing"
        /\ \/ job' = [job EXCEPT ![s] = r]
           \/ /\ job[s].status \in {"COMPLETED", "FAILED"}
              /\ ~Ends(w)
              /\ UNCHANGED job
        /\ Goto(w, "failed")
        /\ UNCHANGED <<inv, step, exec, Reporting>>

(* failInvestigationStep: a completed step keeps its state, but a terminal  *)
(* failure blocks an ACTIVE investigation in any case.                      *)
StepFails_Unguarded(s, ends, class) ==
    /\ step' = [step EXCEPT ![s].state = IF ends THEN "FAILED" ELSE "RETRYING",
                            ![s].class = class, ![s].lease = "none"]
    /\ inv' = IF ends /\ inv.state = "ACTIVE"
              THEN [inv EXCEPT !.state = "OPERATIONALLY_BLOCKED"] ELSE inv

StepFails(s, ends, class) ==
    /\ step' = IF step[s].state = "COMPLETED" THEN step
               ELSE [step EXCEPT ![s].state = IF ends THEN "FAILED" ELSE "RETRYING",
                                 ![s].class = class, ![s].lease = "none"]
    /\ inv' = IF ends /\ inv.state = "ACTIVE"
              THEN [inv EXCEPT !.state = "OPERATIONALLY_BLOCKED"] ELSE inv

FailStep(w) ==
    /\ pc[w] = "failed"
    /\ StepFails(exec[w].step, Ends(w),
                 IF exec[w].class \in {"operational", "exhausted"}
                 THEN "operational" ELSE "other")
    /\ BecomeIdle(w)
    /\ UNCHANGED <<job, Reporting>>

(* The process dies, or a statement of the catch block throws.              *)
Crash(w) ==
    /\ Busy(w)
    /\ BecomeIdle(w)
    /\ UNCHANGED <<inv, step, job, Reporting>>
-----------------------------------------------------------------------------
(* recoverStaleInvestigationSteps: the SELECT ... FOR UPDATE is a statement *)
(* of its own, so its locks are gone when the rows are failed one by one.   *)
Recoverable_Both(s) ==
    /\ step[s].state = "RUNNING"
    /\ step[s].lease = "expired" /\ job[s].status = "PENDING"

Recoverable(s) ==
    /\ step[s].state = "RUNNING"
    /\ step[s].lease = "expired" \/ job[s].status = "PENDING"

SweepSelect ==
    /\ sweep = {}
    /\ \E s \in DOMAIN step : Recoverable(s)
    /\ sweep' = {s \in DOMAIN step : Recoverable(s)}
    /\ UNCHANGED <<inv, step, job, pc, exec, orphan, claims>>

SweepRecover(s) ==
    /\ s \in sweep
    /\ StepFails(s, FALSE, "other")
    /\ sweep' = sweep \ {s}
    /\ UNCHANGED <<job, pc, exec, orphan, claims>>

(* reconcileCommunityAcquisitionRecovery revives a job that ended in the    *)
(* operational block; its step stays as it is.                              *)
ReviveJob(s) ==
    /\ "revive" \in Disturbances
    /\ job[s].status = "FAILED" /\ job[s].revivable
    /\ job' = [job EXCEPT ![s].status = "PENDING", ![s].lockedBy = NoOne,
                          ![s].stale = FALSE,
                          ![s].attempts = IF @ > 0 THEN @ - 1 ELSE 0]
    /\ UNCHANGED <<inv, step, pc, exec, Reporting>>

(* A rejection fails the channel's active jobs; the steps stay as they are. *)
HumanReject ==
    /\ "humanReject" \in Disturbances
    /\ \E s \in DOMAIN job : job[s].status \in {"PENDING", "PROCESSING"}
    /\ job' = [s \in DOMAIN job |->
                  IF job[s].status \in {"PENDING", "PROCESSING"}
                  THEN [job[s] EXCEPT !.status = "FAILED", !.lockedBy = NoOne,
                                      !.stale = FALSE, !.revivable = FALSE]
                  ELSE job[s]]
    /\ UNCHANGED <<inv, step, pc, exec, Reporting>>

(* repairInvestigationProjection recomputes the state from the steps.       *)
RepairedState ==
    LET latest == step[Len(step)]
    IN  CASE \E s \in DOMAIN step : IsOpen(s) -> "ACTIVE"
          [] OTHER -> CASE latest.result = "rejected"  -> "SUPERSEDED"
                        [] latest.result = "confirmed" -> "COMPLETED"
                        [] latest.state = "FAILED"     -> "OPERATIONALLY_BLOCKED"
                        [] latest.result = "review"    -> "NEEDS_REVIEW"
                        [] OTHER                       -> "UNRESOLVED"

RepairProjection ==
    /\ "operatorRepair" \in Disturbances
    /\ inv.state # "ABSENT"
    /\ inv' = [inv EXCEPT !.state = RepairedState]
    /\ UNCHANGED <<step, job, pc, exec, Reporting>>

(* Time: a lease gets old, unless its worker lives and beats; the deadline. *)
JobLeaseExpires(s) ==
    /\ job[s].status = "PROCESSING" /\ ~job[s].stale
    /\ (\E w \in Worker : Busy(w) /\ exec[w].step = s /\ job[s].lockedBy = w)
          => "jobLeaseLoss" \in Disturbances
    /\ job' = [job EXCEPT ![s].stale = TRUE]
    /\ UNCHANGED <<inv, step, pc, exec, Reporting>>

StepLeaseExpires(s) ==
    /\ step[s].state = "RUNNING" /\ step[s].lease = "live"
    /\ (\E w \in Worker : Busy(w) /\ exec[w].step = s /\ step[s].worker = w)
          => "stepLeaseLoss" \in Disturbances
    /\ step' = [step EXCEPT ![s].lease = "expired"]
    /\ UNCHANGED <<inv, job, pc, exec, Reporting>>

DeadlinePasses ==
    /\ inv.state # "ABSENT" /\ ~inv.late
    /\ inv' = [inv EXCEPT !.late = TRUE]
    /\ UNCHANGED <<step, job, pc, exec, Reporting>>
-----------------------------------------------------------------------------
Init ==
    /\ inv = [state |-> "ABSENT", late |-> FALSE]
    /\ step = <<>>
    /\ job = <<>>
    /\ pc = [w \in Worker |-> "idle"]
    /\ exec = [w \in Worker |-> NoExec]
    /\ sweep = {}
    /\ orphan = "none"
    /\ claims = 0

(* What a worker loop does by itself, as long as its process lives.         *)
Tick(w) ==
    \/ RecoverStaleJobs(w)
    \/ \E s \in DOMAIN job : Claim(w, s)
    \/ NothingClaimed(w)
    \/ StepIsOver(w)
    \/ StartStep(w)
    \/ \E a \in Action : ScheduleSuccessor(w, a)
    \/ \E r \in Result : CompleteStep(w, r)
    \/ CloseJob(w)
    \/ \E class \in Failures : HandlerFails(w, class)
    \/ DeadlineExceeded(w)
    \/ SuccessorRefused(w)
    \/ FailJob(w)
    \/ FailStep(w)

(* The maintenance loop's sweep over the steps.                             *)
Sweep == SweepSelect \/ \E s \in DOMAIN step : SweepRecover(s)

Next ==
    \/ \E a \in Action : ScheduleRoot(a)
    \/ SelectOrphan
    \/ AdoptOrphan
    \/ \E w \in Worker : Tick(w) \/ HeartbeatJob(w) \/ HeartbeatStep(w) \/ Crash(w)
    \/ Sweep
    \/ \E s \in DOMAIN step : ReviveJob(s) \/ JobLeaseExpires(s) \/ StepLeaseExpires(s)
    \/ HumanReject
    \/ RepairProjection
    \/ DeadlinePasses

Spec == Init /\ [][Next]_vars

(* A worker loop whose process lives goes on, the maintenance loop sweeps   *)
(* again and again, and the clock makes abandoned leases old.  Nothing is   *)
(* assumed of heartbeats, crashes, reviewers, operators or revivals.        *)
Fairness ==
    /\ \A w \in Worker : WF_vars(Tick(w))
    /\ WF_vars(SweepSelect)
    /\ \A s \in 1..MaxSteps : /\ WF_vars(s \in DOMAIN step /\ SweepRecover(s))
                              /\ WF_vars(s \in DOMAIN step /\ StepLeaseExpires(s))
                              /\ WF_vars(s \in DOMAIN job /\ JobLeaseExpires(s))

FairSpec == Spec /\ Fairness
-----------------------------------------------------------------------------
(* An ACTIVE investigation has an open step, whatever was lost, repaired or *)
(* raced: an investigation is never left ACTIVE with nothing to wait for.   *)
(* (completeInvestigationStep looks for a successor, failInvestigationStep  *)
(* blocks the investigation, in the transaction that closes the step.)      *)
ActiveHasOpenStep == inv.state = "ACTIVE" => \E s \in DOMAIN step : IsOpen(s)

(* A completed step is final: no late failure, sweep, second completion or  *)
(* revived job changes its state, its result or its lease.                  *)
CompletedStepFinal ==
    [][\A s \in DOMAIN step :
          step[s].state = "COMPLETED" => s \in DOMAIN step' /\ step'[s] = step[s]]_vars

(* A step completes together with its job: no completed step has a job that *)
(* may still be claimed.  Holds unless a completeJob fails (statementFault).*)
FinishedTogether ==
    \A s \in DOMAIN step : step[s].state = "COMPLETED" => job[s].status = "COMPLETED"

(* At most one step of an action is open with a job that may still run,     *)
(* also when a sweep or a late failure works from an old snapshot and the   *)
(* orphan reconciliation schedules at the same time.  A second open step is *)
(* possible, because both put a FAILED step back to RETRYING, but its job   *)
(* has failed for good: no worker runs an action twice.                     *)
Runnable(s) == IsOpen(s) /\ job[s].status \in {"PENDING", "PROCESSING"}

OneRunnableStepPerAction ==
    \A s, t \in DOMAIN step :
        Runnable(s) /\ Runnable(t) /\ step[s].action = step[t].action => s = t

(* A worker that works on a step holds its job, and the step names it as    *)
(* its worker and is open, without lease loss and human rejection: so no    *)
(* two workers work on one step.                                            *)
WorkerOwnsStep ==
    \A w \in Worker :
        pc[w] \in Working =>
            LET s == exec[w].step
            IN  /\ job[s].status = "PROCESSING" /\ job[s].lockedBy = w
                /\ step[s].worker = w
                /\ IsOpen(s)

(* A step does not stay RUNNING for ever: its worker ends it, or, when the  *)
(* worker died or lost its lease, a sweep does.                             *)
StepsLeaveRunning ==
    \A s \in 1..MaxSteps :
        (s \in DOMAIN step /\ step[s].state = "RUNNING")
            ~> (s \in DOMAIN step /\ step[s].state # "RUNNING")
-----------------------------------------------------------------------------
(* What tests and documents of the repository say, and the code does not    *)
(* keep.                                                                    *)

(* An investigation that is settled stays as it is; reduceInvestigation     *)
(* returns such a projection unchanged for every event but SUPERSEDE.       *)
SettledIsFinal ==
    [][inv.state \in Settled => inv'.state \in {inv.state, "SUPERSEDED"}]_vars

(* An ACTIVE investigation none of whose open steps has a job that is going *)
(* to run, and that no worker is about to settle, is recovered in the end.  *)
Stranded ==
    /\ inv.state = "ACTIVE"
    /\ \A s \in DOMAIN step : IsOpen(s) => job[s].status \in {"COMPLETED", "FAILED"}
    /\ \A w \in Worker : ~Busy(w)

StrandedIsRecovered == Stranded ~> ~Stranded
=============================================================================
