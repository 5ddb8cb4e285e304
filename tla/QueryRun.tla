------------------------------ MODULE QueryRun ------------------------------
(***************************************************************************)
(* One autonomous search: a chain of query runs, each a sequence of        *)
(* provider pages, one durable job per page.  The rows are in              *)
(* src/server/dbCore.ts and autonomousPageStore.ts; the workers that fetch *)
(* pages and the sweep that resumes orphaned runs in queueManager.ts.      *)
(*                                                                         *)
(* Run s continues to run s + 1 when it stops at the safety ceiling of     *)
(* pages.  Each statement or transaction is a step; a sweep decides from a *)
(* row it read before, and sweeps of several processes overlap.  A job has *)
(* one execution at a time: what a lost lease does is JobQueue's subject.  *)
(* Pagination is enabled throughout.                                       *)
(***************************************************************************)
EXTENDS Naturals

CONSTANTS LastRun,        \* bound on the runs of the chain
          MostPages,      \* bound on the pages of a run
          EffectivePages, \* run -> effective_max_pages, where the safety ceiling is the binding bound
          MaxAttempts,    \* attempts of a page job
          Sweepers,       \* processes that sweep: maintenance ticks and forced sweeps of producers
          MaxFaults       \* bound on denied or timed out pages, on workers that die and sweeps that fail

VARIABLES run,        \* run -> its query_runs row; pages is pages_completed
          page,       \* run, page -> the decision its observation holds
          job,        \* run, page -> its job, and the place of the execution
          failures,   \* failQueryRun calls that follow a committed failJob: run, terminal
          sweep,      \* sweeper -> the row it has read and how far it has come with it
          faults

runVars == <<run, page, job, failures, sweep, faults>>

Segments == 1 .. LastRun
Pages == 1 .. MostPages

ASSUME RunsAssumption == /\ LastRun \in Nat \ {0} /\ MostPages \in Nat /\ EffectivePages \in [Segments -> Pages]
                         /\ MaxAttempts \in Nat /\ MaxFaults \in Nat

Terminal == {"COMPLETED", "FAILED"}
Open == {"PENDING", "PROCESSING"}

\* continue, stop and defer are decisions below the ceiling; ceiling still has a next page.
Decisions(s, n) == IF n < EffectivePages[s] THEN {"continue", "stop", "defer"}
                   ELSE {"stop"} \cup (IF s < LastRun THEN {"ceiling"} ELSE {})

NoRun == [status |-> "absent", continuation |-> "RUNNING", pages |-> 0, due |-> TRUE, child |-> FALSE]
Scheduled == [NoRun EXCEPT !.status = "SCHEDULED"]
NoJob == [status |-> "absent", attempts |-> 0, at |-> "idle"]
Queued == [NoJob EXCEPT !.status = "PENDING"]
NotSwept == [at |-> "idle", run |-> 1, pages |-> 0, child |-> FALSE]

RunTypeOK ==
  /\ run \in [Segments ->
       [status : {"absent", "SCHEDULED", "RUNNING", "RETRYING"} \cup Terminal,
        continuation : {"RUNNING", "DEFERRED", "COMPLETE", "FAILED"},
        pages : 0 .. MostPages, due : BOOLEAN, child : BOOLEAN]]
  /\ page \in [Segments \X Pages -> {"none", "continue", "stop", "defer", "ceiling"}]
  /\ job \in [Segments \X Pages ->
       [status : {"absent"} \cup Open \cup Terminal, attempts : 0 .. MaxAttempts,
        at : {"idle", "claimed", "recovering", "fetching", "recorded", "linking", "linked", "finishing", "closing"}]]
  /\ failures \in SUBSET (Segments \X BOOLEAN)
  /\ sweep \in [Sweepers ->
       [at : {"idle", "read", "resuming", "resumed"}, run : Segments, pages : 0 .. MostPages, child : BOOLEAN]]
  /\ faults \in 0 .. MaxFaults

RunInit ==
  /\ run = [s \in Segments |-> NoRun]
  /\ page = [x \in Segments \X Pages |-> "none"]
  /\ job = [x \in Segments \X Pages |-> NoJob]
  /\ failures = {} /\ sweep = [w \in Sweepers |-> NotSwept]
  /\ faults = 0

At(s, n, place) == job[<<s, n>>].status = "PROCESSING" /\ job[<<s, n>>].at = place
Goto(s, n, place) == job' = [job EXCEPT ![<<s, n>>].at = place]
Observed(s, n) == n \in Pages /\ page[<<s, n>>] # "none"
Ended(s) == run[s].status \in Terminal

\* completeQueryRun and failQueryRun leave a terminal run alone.
Completed(s) == IF Ended(s) THEN run[s] ELSE [run[s] EXCEPT !.status = "COMPLETED", !.continuation = "COMPLETE"]
Failed(s, terminal) ==
  IF Ended(s) THEN run[s]
  ELSE IF terminal THEN [run[s] EXCEPT !.status = "FAILED", !.continuation = "FAILED"]
  ELSE [run[s] EXCEPT !.status = "RETRYING"]
Deferred(s) == IF Ended(s) THEN run[s] ELSE [run[s] EXCEPT !.continuation = "DEFERRED", !.due = FALSE]

\* A finished job of the same key swallows the resumed page.
Enqueued_NeverReopens(j, reopen) == IF j.status = "absent" THEN Queued ELSE j

\* enqueueJob: a job that is there stays, and is opened again when reopening is asked for.
Enqueued(j, reopen) == IF j.status = "absent" \/ (reopen /\ j.status \in Terminal) THEN Queued ELSE j

\* The scheduler inserts a run and the job of its first page in one transaction.
Schedule ==
  /\ run[1].status = "absent"
  /\ run' = [run EXCEPT ![1] = Scheduled] /\ job' = [job EXCEPT ![<<1, 1>>] = Queued]
  /\ UNCHANGED <<page, failures, sweep, faults>>

(***************************************************************************)
(* The worker of a page job                                                *)
(***************************************************************************)
Claim(s, n) ==
  /\ job[<<s, n>>].status = "PENDING"
  /\ job' = [job EXCEPT ![<<s, n>>] = [status |-> "PROCESSING", at |-> "claimed",
                                   attempts |-> IF @.attempts < MaxAttempts THEN @.attempts + 1 ELSE @.attempts]]
  /\ UNCHANGED <<run, page, failures, sweep, faults>>

\* The query lost its authority: the run ends before anything is paid.
Withhold(s, n) ==
  /\ At(s, n, "claimed")
  /\ run' = [run EXCEPT ![s] = Failed(s, TRUE)]
  /\ Goto(s, n, "closing") /\ UNCHANGED <<page, failures, sweep, faults>>

\* startQueryRun; a page that is durable is not paid for again.
StartRun(s, n) ==
  /\ At(s, n, "claimed")
  /\ run' = IF Ended(s) THEN run ELSE [run EXCEPT ![s].status = "RUNNING"]
  /\ Goto(s, n, IF Ended(s) THEN "closing" ELSE IF Observed(s, n) THEN "recovering" ELSE "fetching")
  /\ UNCHANGED <<page, failures, sweep, faults>>

\* A quota denial or a deadline before the page is fetched, or the deferral its decision asks for.
DeferRun(s, n) ==
  /\ \/ At(s, n, "fetching") /\ faults < MaxFaults /\ faults' = faults + 1
     \/ At(s, n, "recorded") /\ page[<<s, n>>] = "defer" /\ UNCHANGED faults
  /\ run' = [run EXCEPT ![s] = Deferred(s)]
  /\ Goto(s, n, "closing") /\ UNCHANGED <<page, failures, sweep>>

\* recordAutonomousPage: the observation, the page count and the cursor in one transaction.
RecordPage(s, n, decision) ==
  /\ At(s, n, "fetching") /\ page[<<s, n>>] = "none"
  /\ page' = [page EXCEPT ![<<s, n>>] = decision]
  /\ run' = [run EXCEPT ![s].pages = IF @ < n THEN n ELSE @]
  /\ Goto(s, n, CASE decision = "stop" -> "finishing" [] decision = "ceiling" -> "linking" [] OTHER -> "recorded")
  /\ UNCHANGED <<failures, sweep, faults>>

\* The next page's reservation, the progress and the job commit together, or the page is
\* denied; a portfolio that is exhausted ends the run.
Extend(s, n) ==
  /\ At(s, n, "recorded") /\ page[<<s, n>>] = "continue"
  /\ run' = [run EXCEPT ![s].continuation = "RUNNING"]
  /\ job' = [job EXCEPT ![<<s, n + 1>>] = Enqueued(@, FALSE), ![<<s, n>>].at = "closing"]
  /\ UNCHANGED <<page, failures, sweep, faults>>

Deny(s, n) ==
  /\ At(s, n, "recorded") /\ page[<<s, n>>] = "continue"
  /\ \/ Goto(s, n, "closing") /\ faults < MaxFaults /\ faults' = faults + 1
     \/ Goto(s, n, "finishing") /\ UNCHANGED faults
  /\ UNCHANGED <<run, page, failures, sweep>>

\* createContinuationRunSegment: one child, linked while the parent is open.
Link(s, n) ==
  /\ At(s, n, "linking")
  /\ run' = IF run[s].child THEN run ELSE [run EXCEPT ![s].child = TRUE, ![s + 1] = Scheduled]
  /\ Goto(s, n, "linked") /\ UNCHANGED <<page, failures, sweep, faults>>

EnqueueChild(s, n) ==
  /\ At(s, n, "linked")
  /\ job' = [job EXCEPT ![<<s + 1, 1>>] = Enqueued(@, TRUE), ![<<s, n>>].at = "finishing"]
  /\ UNCHANGED <<run, page, failures, sweep, faults>>

Complete(s, n) ==
  /\ At(s, n, "finishing") /\ run' = [run EXCEPT ![s] = Completed(s)]
  /\ Goto(s, n, "closing") /\ UNCHANGED <<page, failures, sweep, faults>>

Close(s, n) ==
  /\ At(s, n, "closing")
  /\ job' = [job EXCEPT ![<<s, n>>].status = "COMPLETED", ![<<s, n>>].at = "idle"]
  /\ UNCHANGED <<run, page, failures, sweep, faults>>

\* recoverPersistedAutonomousPage, as planPersistedPageRecovery decides.
Recovery(s, n) ==
  IF run[s].continuation # "RUNNING" \/ run[s].pages > n THEN "closing"
  ELSE IF run[s].child THEN IF run[s + 1].continuation = "RUNNING" THEN "linked" ELSE "finishing"
  ELSE CASE page[<<s, n>>] = "defer" -> "recorded"
         [] page[<<s, n>>] = "ceiling" -> "linking"
         [] page[<<s, n>>] = "continue" -> "closing"
         [] OTHER -> "finishing"

Recover(s, n) ==
  /\ At(s, n, "recovering")
  /\ Goto(s, n, Recovery(s, n)) /\ UNCHANGED <<run, page, failures, sweep, faults>>

\* An error: failJob commits first, failQueryRun follows.
FailJob(s, n) ==
  /\ \E place \in {"fetching", "recorded", "linking", "linked", "finishing"} : At(s, n, place)
  /\ LET terminal == job[<<s, n>>].attempts >= MaxAttempts IN
     /\ job' = [job EXCEPT ![<<s, n>>].status = IF terminal THEN "FAILED" ELSE "PENDING", ![<<s, n>>].at = "idle"]
     /\ failures' = failures \cup {<<s, terminal>>}
  /\ UNCHANGED <<run, page, sweep, faults>>

FailRun(f) ==
  /\ f \in failures /\ failures' = failures \ {f}
  /\ run' = [run EXCEPT ![f[1]] = Failed(f[1], f[2])]
  /\ UNCHANGED <<page, job, sweep, faults>>

\* A worker dies: stale recovery returns its job, and a failQueryRun not yet made is lost.
WorkerDies ==
  /\ faults < MaxFaults /\ faults' = faults + 1
  /\ \/ \E x \in Segments \X Pages :
          /\ job[x].status = "PROCESSING"
          /\ job' = [job EXCEPT ![x].status = "PENDING", ![x].at = "idle"] /\ UNCHANGED failures
     \/ \E f \in failures : failures' = failures \ {f} /\ UNCHANGED job
  /\ UNCHANGED <<run, page, sweep>>

(***************************************************************************)
(* resumeOrphanedAutonomousPages                                           *)
(***************************************************************************)
\* A live job of the first or of the next page keeps the sweep away.
Live(s, n) == n \in Pages /\ job[<<s, n>>].status \in Open
Resumable(s) == /\ run[s].status \notin Terminal \cup {"absent"}
                /\ run[s].continuation \in {"RUNNING", "DEFERRED"} /\ run[s].due
                /\ ~Live(s, 1) /\ ~Live(s, run[s].pages + 1)

SweepRead(w, s) ==
  /\ sweep[w].at = "idle" /\ Resumable(s)
  /\ sweep' = [sweep EXCEPT ![w] = [at |-> "read", run |-> s, pages |-> run[s].pages, child |-> run[s].child]]
  /\ UNCHANGED <<run, page, job, failures, faults>>

Sweeping(w, place) == sweep[w].at = place
SweepOn(w, place) == sweep' = [sweep EXCEPT ![w].at = place]
Swept(w) == sweep' = [sweep EXCEPT ![w] = NotSwept]
NextPage(w) == sweep[w].pages + 1

\* The country left the active scope, or the row has no cursor: markQueryRunResumeUnavailable.
SweepRetires(w) ==
  /\ Sweeping(w, "read") /\ Swept(w)
  /\ run' = [run EXCEPT ![sweep[w].run] = Failed(sweep[w].run, TRUE)]
  /\ UNCHANGED <<page, job, failures, faults>>

\* autonomousPageExists, and the query for a live job.  When the row was read the next page was
\* neither durable nor live: a sweep may have passed these checks then, or meet them now.
SweepSkips(w) ==
  /\ Sweeping(w, "read") /\ ~sweep[w].child /\ Swept(w)
  /\ Observed(sweep[w].run, NextPage(w)) \/ Live(sweep[w].run, NextPage(w))
  /\ UNCHANGED <<run, page, job, failures, faults>>

\* A run that stopped below the ceiling is taken up again.
Ends_CeilingOnly(s, n) == n > 0 /\ page[<<s, n>>] = "ceiling"
Ends(s, n) == n > 0 /\ page[<<s, n>>] \in {"stop", "ceiling"}

\* finalizeLinkedAutonomousParent: a linked parent, or a run whose last page does not go on.
SweepFinalizes(w) ==
  /\ Sweeping(w, "read")
  /\ sweep[w].child \/ Ends(sweep[w].run, sweep[w].pages)
  /\ run' = [run EXCEPT ![sweep[w].run] = Completed(sweep[w].run)]
  /\ Swept(w) /\ UNCHANGED <<page, job, failures, faults>>

\* pg_try_advisory_lock: a run that another sweep resumes is left to it.
Locked(s) == \E v \in Sweepers : sweep[v].at \in {"resuming", "resumed"} /\ sweep[v].run = s

SweepLocks(w) ==
  /\ Sweeping(w, "read") /\ ~sweep[w].child /\ ~Ends(sweep[w].run, sweep[w].pages)
  /\ IF Locked(sweep[w].run) THEN Swept(w) ELSE SweepOn(w, "resuming")
  /\ UNCHANGED <<run, page, job, failures, faults>>

\* A continuation page is denied: deferred by a treatment cap, completed without portfolio.
SweepDenied(w) ==
  /\ Sweeping(w, "resuming") /\ Swept(w) /\ sweep[w].pages > 0
  /\ \/ run' = [run EXCEPT ![sweep[w].run] = Deferred(sweep[w].run)]
        /\ faults < MaxFaults /\ faults' = faults + 1
     \/ run' = [run EXCEPT ![sweep[w].run] = Completed(sweep[w].run)] /\ UNCHANGED faults
  /\ UNCHANGED <<page, job, failures>>

\* The reservation and the job commit together; a job that has ended is opened again.
SweepEnqueues(w) ==
  /\ Sweeping(w, "resuming") /\ SweepOn(w, "resumed")
  /\ job' = [job EXCEPT ![<<sweep[w].run, NextPage(w)>>] = Enqueued(@, TRUE)]
  /\ UNCHANGED <<run, page, failures, faults>>

\* updateQueryRunProgress has no condition on the run's status.
SweepResumed(w) ==
  /\ Sweeping(w, "resumed") /\ Swept(w)
  /\ run' = [run EXCEPT ![sweep[w].run].continuation = "RUNNING"]
  /\ UNCHANGED <<page, job, failures, faults>>

\* An error or the end of the process cuts a sweep short.
SweepFails(w) ==
  /\ ~Sweeping(w, "idle") /\ Swept(w)
  /\ faults < MaxFaults /\ faults' = faults + 1
  /\ UNCHANGED <<run, page, job, failures>>

DeferralPasses(s) ==
  /\ ~run[s].due /\ run' = [run EXCEPT ![s].due = TRUE]
  /\ UNCHANGED <<page, job, failures, sweep, faults>>

Work(s, n) ==
  \/ Claim(s, n) \/ Withhold(s, n) \/ StartRun(s, n) \/ DeferRun(s, n) \/ Extend(s, n) \/ Deny(s, n) \/ Link(s, n)
  \/ EnqueueChild(s, n) \/ Complete(s, n) \/ Close(s, n) \/ Recover(s, n) \/ FailJob(s, n)
  \/ \E decision \in Decisions(s, n) : RecordPage(s, n, decision)

SweepStep(w) ==
  \/ SweepRetires(w) \/ SweepSkips(w) \/ SweepFinalizes(w)
  \/ SweepLocks(w) \/ SweepDenied(w) \/ SweepEnqueues(w) \/ SweepResumed(w)

RunNext ==
  \/ Schedule \/ WorkerDies
  \/ \E w \in Sweepers : SweepStep(w) \/ SweepFails(w) \/ \E s \in Segments : SweepRead(w, s)
  \/ \E s \in Segments : DeferralPasses(s) \/ \E n \in Pages : Work(s, n)
  \/ \E f \in failures : FailRun(f)

RunSpec == RunInit /\ [][RunNext]_runVars

\* Workers go on, deferrals run out, and the sweeps' rotation comes round to every run.
RunFairness ==
  /\ \A s \in Segments : SF_runVars(\E w \in Sweepers : SweepRead(w, s))
  /\ WF_runVars(\E s \in Segments, n \in Pages : Work(s, n))
  /\ WF_runVars(\E s \in Segments : DeferralPasses(s))
  /\ WF_runVars(\E w \in Sweepers : SweepStep(w))
  /\ WF_runVars(\E f \in failures : FailRun(f))
FairRunSpec == RunSpec /\ RunFairness

(***************************************************************************)
(* Properties                                                              *)
(***************************************************************************)
\* A page is fetched and paid for only after the page before it was observed and went on
\* (recordAutonomousPage, resumeOrphanedAutonomousPages): the observations of a run are its
\* first pages_completed pages, none lies beyond the page that ended the run or beyond
\* effective_max_pages, and none is fetched again, whatever row the sweep decided from.
PagesInOrder ==
  \A s \in Segments, n \in Pages :
    /\ Observed(s, n) <=> n <= run[s].pages
    /\ job[<<s, n>>].status # "absent" => n = 1 \/ page[<<s, n - 1>>] \in {"continue", "defer"}
    /\ At(s, n, "fetching") => ~Observed(s, n)

\* A run of the chain is there exactly when its parent is linked to it, and a parent is linked
\* only when its last page met the safety ceiling (createContinuationRunSegment): no retry,
\* crash or sweep starts a second continuation or one of a run that had come to its end.
ContinuationsLinked ==
  \A s \in Segments :
    /\ run[s].child <=> s + 1 \in Segments /\ run[s + 1].status # "absent"
    /\ run[s].child => Observed(s, run[s].pages) /\ page[<<s, run[s].pages>>] = "ceiling"

\* What is durable stays: a run that ended keeps the way it ended, although workers, late
\* failures and the sweep write to it without knowing; its count does not fall, its
\* continuation is not lost, and no observation is replaced.
HistoryKept ==
  [][\A s \in Segments :
       /\ Ended(s) => run'[s].status = run[s].status
       /\ run'[s].pages >= run[s].pages
       /\ run[s].child => run'[s].child
       /\ \A n \in Pages : Observed(s, n) => page'[<<s, n>>] = page[<<s, n>>]]_runVars

\* Every run of the chain ends: an error, a crash or a deferral leaves work for a retry
\* or for the sweep, until the run is completed or failed.
RunsEnd == run[1].status # "absent" ~> \A s \in Segments : run[s].status # "absent" => Ended(s)

\* "a transient create/enqueue failure leaves the parent retryable instead of permanently
\* dropping the continuation" (src/server/dbCore.ts:5413-5414, createContinuationRunSegment):
\* a run that completed at the safety ceiling, and whose last job is over, has its continuation.
ContinuationKept ==
  \A s \in Segments :
    LET last == run[s].pages IN
    run[s].status = "COMPLETED" /\ Observed(s, last) /\ page[<<s, last>>] = "ceiling" /\ ~Live(s, last) => run[s].child
=============================================================================
