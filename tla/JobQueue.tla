------------------------------ MODULE JobQueue ------------------------------
(***************************************************************************)
(* The durable job queue: the tables jobs and job_attempts, the trigger on  *)
(* jobs that guards reopens (migration 165), and the worker loops that      *)
(* claim, heartbeat, complete, fail and recover jobs.  One action is one    *)
(* transaction, or one autocommitted statement, of the code: what the code  *)
(* does in two statements is two actions here and other workers may run in  *)
(* between.                                                                 *)
(*                                                                          *)
(* Abstracted: run_after, priority, pauses and budget guards only decide    *)
(* which PENDING rows a poll may take, and when; a poll here takes any      *)
(* PENDING row or none.  (FOR UPDATE SKIP LOCKED makes the same choice: the *)
(* first row may be held by another transaction.)  Payloads, errors and     *)
(* telemetry are left out.                                                  *)
(***************************************************************************)
EXTENDS Naturals, Sequences, FiniteSets

CONSTANTS
    Job,          \* idempotency keys; each owns at most one row of jobs
    Worker,       \* worker slots, with distinct worker ids
    NoOne,        \* locked_by IS NULL
    RetryJob,     \* jobs of type RETRY_COMMUNITY_ACQUISITION
    CanaryJob,    \* jobs of type RELATIONSHIP_CANARY_EXPANSION
    EnrichJob,    \* jobs of type ENRICH_CHANNEL
    Scope,        \* pairs (channel, job type), by which reopens are counted
    ScopeOf,      \* the scope a job belongs to
    GuardEnabled, \* job_reopen_guard_config.enabled
    MaxReopens,   \* job_reopen_guard_config.max_reopens_per_30d
    MaxAttempts,  \* jobs.max_attempts
    MaxClaims,    \* model bound: claims in one behaviour
    MaxGen,       \* model bound: generations that sweeps and enqueues open
    Faults,       \* which of the disturbances in FaultKinds may happen
    Failures      \* which classes of failure, of those in Failure, may happen

(* leaseLoss: a live worker's heartbeats stop for longer than the stale     *)
(* threshold.  statementFault: the second statement of completeJob, or the  *)
(* SELECT with which failJob looks for its attempt row, fails.              *)
(* humanReject: a reviewer rejects the job's channel.                       *)
FaultKinds == {"leaseLoss", "statementFault", "humanReject"}

(* What decideJobFailure tells apart: terminal (quota fence, permanent      *)
(* input, deadline), policy and probe waits, of which only the probe also   *)
(* looks like an infrastructure failure, a bounded provider cooldown, any   *)
(* other infrastructure failure (transient), and the rest (ordinary).       *)
Failure == {"terminal", "policy", "probe", "transient", "cooldown", "ordinary"}

ASSUME JobQueueAssumption ==
    /\ NoOne \notin Worker
    /\ NoOne \notin Job
    /\ RetryJob \subseteq Job
    /\ CanaryJob \subseteq Job
    /\ RetryJob \cap CanaryJob = {}
    /\ EnrichJob \subseteq Job
    /\ EnrichJob \cap (RetryJob \cup CanaryJob) = {}
    /\ ScopeOf \in [Job -> Scope]
    /\ \A i, j \in Job :  \* one job type per scope
          ScopeOf[i] = ScopeOf[j] => /\ i \in RetryJob <=> j \in RetryJob
                                     /\ i \in EnrichJob <=> j \in EnrichJob
    /\ GuardEnabled \in BOOLEAN
    /\ MaxReopens \in Nat \ {0}
    /\ MaxAttempts \in Nat \ {0}
    /\ MaxClaims \in Nat
    /\ MaxGen \in Nat
    /\ Faults \subseteq FaultKinds
    /\ Failures \subseteq Failure

VARIABLES
    job,     \* the rows of jobs
    attempt, \* the rows of job_attempts, in the order of their insertion
    recent,  \* REOPENED events of each scope in the rolling 30-day window
    pc,      \* where each worker loop is
    exec,    \* the claim a busy worker works on, as it read it at the claim
    fail     \* the locals of failJob

vars == <<job, attempt, recent, pc, exec, fail>>
-----------------------------------------------------------------------------
Terminal == {"COMPLETED", "FAILED"}
Status   == {"ABSENT", "PENDING", "PROCESSING"} \cup Terminal
(* first_transient_failure_at: NULL, or within the six-hour budget, or past *)
Anchor   == {"none", "recent", "aged"}
Idle     == {"idle", "polled"}
(* A worker executes a job from its claim to the statement that releases    *)
(* the jobs row; "completing" and "finalizing" come after that statement.   *)
Owning   == {"running", "inspecting", "deciding", "captured"}
Control  == Idle \cup Owning \cup {"completing", "finalizing"}

(* stale: locked_at is older than the stale threshold.  blocked: last_error *)
(* has the mark OPERATIONALLY_BLOCKED_RETRY_REQUIRED.  The history field    *)
(* recovered counts stale recoveries since attempts was last set to zero.   *)
JobRow == [status: Status, attempts: Nat, lockedBy: Worker \cup {NoOne},
           stale: BOOLEAN, anchor: Anchor, blocked: BOOLEAN, gen: Nat,
           recovered: Nat]

(* finished_at IS NULL exactly while status is PROCESSING.                  *)
AttemptRow == [job: Job, number: Nat, gen: Nat,
               status: {"PROCESSING", "COMPLETED", "FAILED"}, marked: BOOLEAN]

(* row is a history field: the index of the attempt row the claim inserted. *)
Claim   == [job: Job \cup {NoOne}, number: Nat, gen: Nat, row: Nat]
NoClaim == [job |-> NoOne, number |-> 0, gen |-> 0, row |-> 0]

(* captured is the index of an attempt row, or 0 when the SELECT found none. *)
FailLocals == [class: Failure, attempts: Nat, anchor: Anchor, captured: Nat]
NoFailure  == [class |-> "terminal", attempts |-> 0, anchor |-> "none",
               captured |-> 0]

TypeOK ==
    /\ job \in [Job -> JobRow]
    /\ attempt \in Seq(AttemptRow)
    /\ recent \in [Scope -> Nat]
    /\ pc \in [Worker -> Control]
    /\ exec \in [Worker -> Claim]
    /\ fail \in [Worker -> FailLocals]

Busy(w)         == pc[w] \notin Idle
Executing(w, j) == pc[w] \in Owning /\ exec[w].job = j
Open(n)         == attempt[n].status = "PROCESSING"
RowsOf(j)       == {n \in DOMAIN attempt : attempt[n].job = j}
OpenRowsOf(j)   == {n \in RowsOf(j) : Open(n)}
IsNewest(n, S)  == n \in S /\ \A m \in S : m <= n
-----------------------------------------------------------------------------
(* The jobs row r after the statement that takes it out of PROCESSING.      *)
Released(r, s) == [r EXCEPT !.status = s, !.lockedBy = NoOne, !.stale = FALSE]

ReopenBlocked_OffByOne(j) ==
    /\ GuardEnabled
    /\ j \in RetryJob \cup EnrichJob
    /\ recent[ScopeOf[j]] > MaxReopens

ReopenBlocked(j) ==
    /\ GuardEnabled
    /\ j \in RetryJob \cup EnrichJob
    /\ recent[ScopeOf[j]] >= MaxReopens

UpdateJob_MissesCompleted(j, r) ==
    IF job[j].status = "FAILED" /\ r.status = "PENDING"
    THEN IF ReopenBlocked(j)
         THEN UNCHANGED <<job, recent>>
         ELSE /\ job' = [job EXCEPT ![j] = [r EXCEPT !.gen = @ + 1]]
              /\ recent' = [recent EXCEPT ![ScopeOf[j]] = @ + 1]
    ELSE /\ job' = [job EXCEPT ![j] = r]
         /\ UNCHANGED recent

(* An UPDATE that sets the jobs row of j to r, with its BEFORE trigger: a   *)
(* step from a terminal status to PENDING is a reopen, which the trigger    *)
(* counts and numbers, or suppresses when the scope has used up its cap.    *)
UpdateJob(j, r) ==
    IF job[j].status \in Terminal /\ r.status = "PENDING"
    THEN IF ReopenBlocked(j)
         THEN UNCHANGED <<job, recent>>
         ELSE /\ job' = [job EXCEPT ![j] = [r EXCEPT !.gen = @ + 1]]
              /\ recent' = [recent EXCEPT ![ScopeOf[j]] = @ + 1]
    ELSE /\ job' = [job EXCEPT ![j] = r]
         /\ UNCHANGED recent

(* UPDATE job_attempts SET status = s, finished_at = now() for the rows S.  *)
Finish(S, s) ==
    attempt' = [n \in DOMAIN attempt |->
                    IF n \in S THEN [attempt[n] EXCEPT !.status = s] ELSE attempt[n]]

BecomeIdle(w) ==
    /\ pc' = [pc EXCEPT ![w] = "idle"]
    /\ exec' = [exec EXCEPT ![w] = NoClaim]
    /\ fail' = [fail EXCEPT ![w] = NoFailure]

Goto(w, s) == pc' = [pc EXCEPT ![w] = s]
-----------------------------------------------------------------------------
(* enqueueJob: insert, or reopen the terminal row of the same key.  A row   *)
(* that is PENDING or PROCESSING absorbs the enqueue unchanged.  The anchor *)
(* of a reopened row is not reset.                                          *)
FreshJob == [status |-> "PENDING", attempts |-> 0, lockedBy |-> NoOne,
             stale |-> FALSE, anchor |-> "none", blocked |-> FALSE, gen |-> 0,
             recovered |-> 0]

Reopenable_Active(j) == job[j].status \notin {"ABSENT", "PENDING"}
Reopenable(j)        == job[j].status \in Terminal

Enqueue(j) ==
    /\ \/ /\ job[j].status = "ABSENT"
          /\ UpdateJob(j, FreshJob)
       \/ /\ Reopenable(j)
          /\ job[j].gen < MaxGen
          /\ UpdateJob(j, [Released(job[j], "PENDING") EXCEPT
                              !.attempts = 0, !.blocked = FALSE, !.recovered = 0])
    /\ UNCHANGED <<attempt, pc, exec, fail>>

(* The enrichment sweep enqueues and then starts a new transient-failure    *)
(* epoch, in a second statement that only requires the row to be PENDING.   *)
ResetAnchor(j) ==
    /\ j \in EnrichJob
    /\ job[j].status = "PENDING"
    /\ job[j].anchor # "none"
    /\ job' = [job EXCEPT ![j].anchor = "none"]
    /\ UNCHANGED <<attempt, recent, pc, exec, fail>>

(* A reviewer rejects the channel: its active jobs are cancelled, whoever   *)
(* works on them.  Their attempt rows stay open.                            *)
CancelByHumanRejection(j) ==
    /\ "humanReject" \in Faults
    /\ job[j].status \in {"PENDING", "PROCESSING"}
    /\ job' = [job EXCEPT ![j] = [Released(@, "FAILED") EXCEPT !.blocked = FALSE]]
    /\ UNCHANGED <<attempt, recent, pc, exec, fail>>

(* The capacity sweep revives an enrichment that ended in the operational   *)
(* block, with one attempt given back and the anchor left as it is.         *)
LessOneAttempt(n) == IF n = 0 THEN 0 ELSE n - 1

RepairCapacityFailure(j) ==
    /\ j \in EnrichJob
    /\ job[j].status = "FAILED"
    /\ job[j].blocked
    /\ job[j].gen < MaxGen
    /\ UpdateJob(j, [Released(job[j], "PENDING") EXCEPT !.attempts = LessOneAttempt(@)])
    /\ UNCHANGED <<attempt, pc, exec, fail>>
-----------------------------------------------------------------------------
(* Every poll begins with recoverStaleJobs, one transaction over all jobs.  *)
Stuck_AnyLease(j)    == job[j].status = "PROCESSING"
Stuck_AttemptLeft(j) ==
    job[j].status = "PROCESSING" /\ job[j].stale /\ job[j].attempts < MaxAttempts
Stuck(j)             == job[j].status = "PROCESSING" /\ job[j].stale

RecoverStaleJobs(w) ==
    /\ pc[w] = "idle"
    /\ job' = [j \in Job |->
                  IF Stuck(j)
                  THEN [Released(job[j], "PENDING") EXCEPT !.recovered = @ + 1]
                  ELSE job[j]]
    /\ Finish({n \in DOMAIN attempt : Open(n) /\ Stuck(attempt[n].job)}, "FAILED")
    /\ Goto(w, "polled")
    /\ UNCHANGED <<recent, exec, fail>>

(* claimNextJob: take a PENDING row and record the claim, one transaction.  *)
(* Nothing here compares attempts with max_attempts.                        *)
ClaimRow(j) ==
    [job |-> j, number |-> job[j].attempts + 1, gen |-> job[j].gen,
     status |-> "PROCESSING", marked |-> FALSE]

ClaimNextJob(w, j) ==
    /\ pc[w] = "polled"
    /\ job[j].status = "PENDING"
    /\ Len(attempt) < MaxClaims
    /\ job' = [job EXCEPT ![j].status = "PROCESSING", ![j].lockedBy = w,
                          ![j].stale = FALSE, ![j].attempts = @ + 1]
    /\ attempt' = Append(attempt, ClaimRow(j))
    /\ exec' = [exec EXCEPT ![w] =
                   [job |-> j, number |-> job[j].attempts + 1,
                    gen |-> job[j].gen, row |-> Len(attempt) + 1]]
    /\ Goto(w, "running")
    /\ UNCHANGED <<recent, fail>>

NothingClaimed(w) ==
    /\ pc[w] = "polled"
    /\ Goto(w, "idle")
    /\ UNCHANGED <<job, attempt, recent, exec, fail>>

(* heartbeatJob, every 60 s from the claim until the tick ends.             *)
Heartbeat_Retakes(w) ==
    LET j == exec[w].job
    IN  /\ Busy(w)
        /\ job[j].status = "PROCESSING"
        /\ job' = [job EXCEPT ![j].stale = FALSE, ![j].lockedBy = w]
        /\ UNCHANGED <<attempt, recent, pc, exec, fail>>

Heartbeat(w) ==
    LET j == exec[w].job
    IN  /\ Busy(w)
        /\ job[j].status = "PROCESSING"
        /\ job[j].lockedBy = w
        /\ job[j].stale
        /\ job' = [job EXCEPT ![j].stale = FALSE]
        /\ UNCHANGED <<attempt, recent, pc, exec, fail>>
-----------------------------------------------------------------------------
(* markCommunityInspectionStarted: every open row that matches the claim's  *)
(* number and generation; no row makes it throw (HandlerFails below).       *)
MarkableRows_AnyNumber(w) ==
    {n \in OpenRowsOf(exec[w].job) : attempt[n].gen = exec[w].gen}

MarkableRows(w) ==
    {n \in OpenRowsOf(exec[w].job) : /\ attempt[n].number = exec[w].number
                                     /\ attempt[n].gen = exec[w].gen}

MarkInspectionStarted(w) ==
    /\ pc[w] = "running"
    /\ exec[w].job \in RetryJob
    /\ MarkableRows(w) # {}
    /\ attempt' = [n \in DOMAIN attempt |->
                      IF n \in MarkableRows(w)
                      THEN [attempt[n] EXCEPT !.marked = TRUE] ELSE attempt[n]]
    /\ Goto(w, "inspecting")
    /\ UNCHANGED <<job, recent, exec, fail>>

(* completeJob is two statements and neither looks at who holds the job.    *)
CompleteJobRow(w) ==
    /\ pc[w] \in {"running", "inspecting"}
    /\ exec[w].job \notin CanaryJob
    /\ job' = [job EXCEPT ![exec[w].job] = Released(@, "COMPLETED")]
    /\ Goto(w, "completing")
    /\ UNCHANGED <<attempt, recent, exec, fail>>

CompleteAttempts(w) ==
    /\ pc[w] = "completing"
    /\ Finish(OpenRowsOf(exec[w].job), "COMPLETED")
    /\ BecomeIdle(w)
    /\ UNCHANGED <<job, recent>>

(* completeRelationshipCanaryAttempt: one transaction, fenced by status,    *)
(* attempt number and lock holder; a worker that lost the job stops.        *)
OwnsCanary_AnyLock(w) ==
    /\ job[exec[w].job].status = "PROCESSING"
    /\ job[exec[w].job].attempts = exec[w].number

OwnsCanary(w) ==
    /\ job[exec[w].job].status = "PROCESSING"
    /\ job[exec[w].job].attempts = exec[w].number
    /\ job[exec[w].job].lockedBy = w

CompleteCanary(w) ==
    LET j == exec[w].job
    IN  /\ pc[w] = "running"
        /\ j \in CanaryJob
        /\ IF OwnsCanary(w)
           THEN /\ job' = [job EXCEPT ![j] = Released(@, "COMPLETED")]
                /\ Finish({n \in OpenRowsOf(j) : attempt[n].number = exec[w].number},
                          "COMPLETED")
           ELSE UNCHANGED <<job, attempt>>
        /\ BecomeIdle(w)
        /\ UNCHANGED recent
-----------------------------------------------------------------------------
(* failJob, statement by statement.  It starts from the catch block of the  *)
(* tick: the handler threw, or the second statement of completeJob did.     *)
HandlerFails(w, class) ==
    /\ \/ pc[w] \in {"running", "inspecting"}
       \/ /\ pc[w] = "completing"
          /\ "statementFault" \in Faults
          /\ class \in {"transient", "ordinary"}
    /\ Goto(w, "deciding")
    /\ fail' = [fail EXCEPT ![w] =
                   [class |-> class, attempts |-> job[exec[w].job].attempts,
                    anchor |-> job[exec[w].job].anchor, captured |-> 0]]
    /\ UNCHANGED <<job, attempt, recent, exec>>

(* The newest open row of the job, taken for the row of this execution; a   *)
(* SELECT that fails counts as one that finds nothing.                      *)
CaptureOpenAttempt(w) ==
    LET S == OpenRowsOf(exec[w].job)
    IN  /\ pc[w] = "deciding"
        /\ \/ \E n \in S :
                 /\ IsNewest(n, S)
                 /\ fail' = [fail EXCEPT ![w].captured = n]
           \/ /\ S = {} \/ "statementFault" \in Faults
              /\ UNCHANGED fail
        /\ Goto(w, "captured")
        /\ UNCHANGED <<job, attempt, recent, exec>>

(* decideJobFailure, from the values read at the start of failJob.          *)
Retryable(f) == f.class \in {"probe", "transient", "cooldown"}

Exhausted_OffByOne(f) ==
    \/ f.class = "terminal"
    \/ f.class \in {"transient", "cooldown"} /\ f.anchor = "aged"
    \/ f.class \in {"cooldown", "ordinary"} /\ f.attempts > MaxAttempts

Exhausted(f) ==
    \/ f.class = "terminal"
    \/ f.class \in {"transient", "cooldown"} /\ f.anchor = "aged"
    \/ f.class \in {"cooldown", "ordinary"} /\ f.attempts >= MaxAttempts

(* COALESCE(first_transient_failure_at, anchor resolved by this failure)    *)
AnchorAfter(r, f) ==
    IF r.anchor = "none" /\ Retryable(f)
    THEN IF f.anchor = "none" THEN "recent" ELSE f.anchor
    ELSE r.anchor

(* The jobs row r after the disposition of failure f; the UPDATE names the  *)
(* job by id only.                                                          *)
Disposed_WritesDisposition(r, f) ==
    IF Exhausted(f) THEN Released(r, "FAILED") ELSE Released(r, "RETRYING")

Disposed(r, f) ==
    IF Exhausted(f)
    THEN [Released(r, "FAILED") EXCEPT
             !.anchor = AnchorAfter(r, f), !.blocked = Retryable(f)]
    ELSE IF f.class = "ordinary"
    THEN [Released(r, "PENDING") EXCEPT !.anchor = "none", !.blocked = FALSE]
    ELSE [Released(r, "PENDING") EXCEPT
             !.attempts = LessOneAttempt(@), !.blocked = FALSE,
             !.anchor = AnchorAfter(r, f)]

FailTransition(w) ==
    /\ pc[w] = "captured"
    /\ UpdateJob(exec[w].job, Disposed(job[exec[w].job], fail[w]))
    /\ Goto(w, "finalizing")
    /\ UNCHANGED <<attempt, exec, fail>>

(* The captured row if it is still open; without one, every open row.       *)
FinalizedRows(w) ==
    IF fail[w].captured = 0
    THEN OpenRowsOf(exec[w].job)
    ELSE OpenRowsOf(exec[w].job) \cap {fail[w].captured}

FinalizeFailedAttempt(w) ==
    /\ pc[w] = "finalizing"
    /\ Finish(FinalizedRows(w), "FAILED")
    /\ BecomeIdle(w)
    /\ UNCHANGED <<job, recent>>
-----------------------------------------------------------------------------
(* The process dies, or a statement of failJob throws out of the catch      *)
(* block: the tick is over and the database stays as it is.                 *)
Crash(w) ==
    /\ Busy(w)
    /\ BecomeIdle(w)
    /\ UNCHANGED <<job, attempt, recent>>

(* locked_at passes the stale threshold.  A live owner beats long before.   *)
HasLiveOwner(j) == \E w \in Worker : Busy(w) /\ exec[w].job = j /\ job[j].lockedBy = w

LeaseExpires(j) ==
    /\ job[j].status = "PROCESSING"
    /\ ~job[j].stale
    /\ HasLiveOwner(j) => "leaseLoss" \in Faults
    /\ job' = [job EXCEPT ![j].stale = TRUE]
    /\ UNCHANGED <<attempt, recent, pc, exec, fail>>

(* Six hours pass since the first transient failure.                        *)
AnchorAges(j) ==
    /\ job[j].anchor = "recent"
    /\ job' = [job EXCEPT ![j].anchor = "aged"]
    /\ UNCHANGED <<attempt, recent, pc, exec, fail>>

(* A REOPENED event leaves the rolling window.                              *)
ReopenEventAges(s) ==
    /\ recent[s] > 0
    /\ recent' = [recent EXCEPT ![s] = @ - 1]
    /\ UNCHANGED <<job, attempt, pc, exec, fail>>
-----------------------------------------------------------------------------
Init ==
    /\ job = [j \in Job |-> [FreshJob EXCEPT !.status = "ABSENT"]]
    /\ attempt = <<>>
    /\ recent = [s \in Scope |-> 0]
    /\ pc = [w \in Worker |-> "idle"]
    /\ exec = [w \in Worker |-> NoClaim]
    /\ fail = [w \in Worker |-> NoFailure]

(* What a worker loop does by itself, as long as its process lives.         *)
Tick(w) ==
    \/ RecoverStaleJobs(w)
    \/ \E j \in Job : ClaimNextJob(w, j)
    \/ NothingClaimed(w)
    \/ MarkInspectionStarted(w)
    \/ CompleteJobRow(w)
    \/ CompleteAttempts(w)
    \/ CompleteCanary(w)
    \/ \E class \in Failures : HandlerFails(w, class)
    \/ CaptureOpenAttempt(w)
    \/ FailTransition(w)
    \/ FinalizeFailedAttempt(w)

Next ==
    \/ \E w \in Worker : Tick(w) \/ Heartbeat(w) \/ Crash(w)
    \/ \E j \in Job :
          \/ Enqueue(j)
          \/ ResetAnchor(j)
          \/ CancelByHumanRejection(j)
          \/ RepairCapacityFailure(j)
          \/ LeaseExpires(j)
          \/ AnchorAges(j)
    \/ \E s \in Scope : ReopenEventAges(s)

Spec == Init /\ [][Next]_vars
-----------------------------------------------------------------------------
(* Safety.  ExclusiveExecution, AttemptsWithinRecoveries and the refinement  *)
(* of JobLease hold without leaseLoss, statementFault and humanReject.       *)
(* MarksNoNewerAttempt survives these faults as long as no failure gives its *)
(* attempt back.  The rest hold under every fault.                           *)

(* While a worker executes a job, the job is PROCESSING, locked by that     *)
(* worker and not stale: so no two workers execute one job, and no poll     *)
(* recovers a job that is being executed.  (claimNextJob, heartbeatJob and  *)
(* recoverStaleJobs against the unfenced updates of completeJob, failJob.)  *)
ExclusiveExecution ==
    \A w \in Worker, j \in Job :
        Executing(w, j) => /\ job[j].status = "PROCESSING"
                           /\ job[j].lockedBy = w
                           /\ ~job[j].stale

(* attempts passes max_attempts by at most the number of stale recoveries,  *)
(* and a job that waits has an attempt left in that sense: decideJobFailure *)
(* is the only place that compares the two, recoverStaleJobs is not.        *)
AttemptsWithinRecoveries ==
    \A j \in Job :
        LET limit == MaxAttempts + job[j].recovered
        IN  /\ job[j].attempts <= limit
            /\ job[j].status = "PENDING" => job[j].attempts < limit

(* The inspection marker never lands on an attempt newer than the claim of  *)
(* the worker that writes it.                                               *)
MarksNoNewerAttempt ==
    [][\A w \in Worker :
          pc[w] = "running" /\ pc'[w] = "inspecting" =>
              \A n \in DOMAIN attempt :
                  attempt'[n].marked /\ ~attempt[n].marked => n <= exec[w].row]_vars

(* The claim a PROCESSING job is in is on record, as the newest attempt row *)
(* with the job's attempt number and generation, and locked_by identifies   *)
(* it: the worker it names, if busy with the job, is in that very claim.    *)
(* This is what the fences of heartbeatJob and                              *)
(* completeRelationshipCanaryAttempt rely on.                               *)
LeaseNamesNewestClaim ==
    \A j \in Job :
        job[j].status = "PROCESSING" =>
            \E n \in RowsOf(j) :
                /\ IsNewest(n, RowsOf(j))
                /\ attempt[n].number = job[j].attempts
                /\ attempt[n].gen = job[j].gen
                /\ \A w \in Worker :
                       Busy(w) /\ exec[w].job = j /\ job[j].lockedBy = w => exec[w].row = n

(* A canary job is completed by the claim it is in, and that step finishes  *)
(* no attempt newer than the claim, whatever leases were lost before.       *)
CanaryCompletedByItsClaim ==
    [][\A j \in CanaryJob :
          job[j].status # "COMPLETED" /\ job'[j].status = "COMPLETED" =>
              \E w \in Worker : /\ exec[w].job = j
                                /\ job[j].lockedBy = w
                                /\ IsNewest(exec[w].row, RowsOf(j))]_vars

(* A guarded scope sees at most MaxReopens reopens in the window, whether   *)
(* they come from enqueueJob, the capacity sweep or a failJob that strikes  *)
(* a finished job, and from whichever job of the scope.                     *)
ReopensWithinCap ==
    GuardEnabled =>
        \A j \in RetryJob \cup EnrichJob : recent[ScopeOf[j]] <= MaxReopens

(* A reopen opens a new generation, and nothing else does: a step takes a   *)
(* job out of a terminal status exactly when its generation goes up by one. *)
GenerationPerReopen ==
    [][\A j \in Job :
          /\ job'[j].gen \in {job[j].gen, job[j].gen + 1}
          /\ job'[j].gen > job[j].gen <=>
                job[j].status \in Terminal /\ job'[j].status \notin Terminal]_vars

(* The queue as its callers see it, without the table's columns: a lease    *)
(* per job.  A job is held while a worker executes it and lost when its     *)
(* worker died; without leaseLoss, statementFault and humanReject the code  *)
(* implements that specification.                                           *)
Holders(j) == {w \in Worker : Executing(w, j)}

Phase(j) ==
    CASE job[j].status = "ABSENT"     -> "absent"
      [] job[j].status = "PENDING"    -> "waiting"
      [] job[j].status \in Terminal   -> "settled"
      [] job[j].status = "PROCESSING" -> IF Holders(j) = {} THEN "lost" ELSE "held"

Lease == INSTANCE JobLease WITH
             phase   <- [j \in Job |-> Phase(j)],
             holders <- [j \in Job |-> Holders(j)]

ImplementsLease == Lease!Spec
-----------------------------------------------------------------------------
(* Liveness.  A worker loop whose process lives goes on: it polls every few *)
(* seconds, and a handler's calls all have timeouts.  The clock goes on, so *)
(* an abandoned lease gets old; nothing is assumed of enqueues, heartbeats, *)
(* crashes or sweeps.                                                       *)
Fairness ==
    /\ \A w \in Worker : WF_vars(Tick(w))
    /\ \A j \in Job : WF_vars(LeaseExpires(j))

FairSpec == Spec /\ Fairness

(* A claim does not last forever: a job that is PROCESSING leaves that      *)
(* status, by its worker or, when the worker died, by a stale recovery.     *)
ClaimsEnd == \A j \in Job : job[j].status = "PROCESSING" ~> job[j].status # "PROCESSING"
=============================================================================
