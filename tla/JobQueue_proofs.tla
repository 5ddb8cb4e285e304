--------------------------- MODULE JobQueue_proofs ---------------------------
(* Theorems about JobQueue, for every set of jobs and workers and every     *)
(* value of its bounds.  TypeInv and QueueInv are the inductive invariants. *)
EXTENDS JobQueue, TLAPS

(* A busy worker works on a job, not on NoOne.                              *)
BusyHasJob == \A w \in Worker : Busy(w) => exec[w].job \in Job

TypeInv == TypeOK /\ BusyHasJob
-----------------------------------------------------------------------------
(* The rows a finishing UPDATE leaves: the same rows, some with another     *)
(* status.                                                                  *)
LEMMA FinishKeepsRows ==
    ASSUME attempt \in Seq(AttemptRow),
           NEW S, NEW s \in {"COMPLETED", "FAILED"}, Finish(S, s)
    PROVE  /\ attempt' \in Seq(AttemptRow)
           /\ DOMAIN attempt' = DOMAIN attempt
           /\ \A n \in DOMAIN attempt :
                 /\ attempt'[n].job = attempt[n].job
                 /\ attempt'[n].number = attempt[n].number
                 /\ attempt'[n].gen = attempt[n].gen
                 /\ attempt'[n].marked = attempt[n].marked
<1>1. DOMAIN attempt = 1..Len(attempt) /\ Len(attempt) \in Nat
  OBVIOUS
<1>2. \A n \in DOMAIN attempt : attempt[n] \in AttemptRow
  OBVIOUS
<1>3. \A n \in DOMAIN attempt :
         /\ attempt'[n] \in AttemptRow
         /\ attempt'[n].job = attempt[n].job
         /\ attempt'[n].number = attempt[n].number
         /\ attempt'[n].gen = attempt[n].gen
         /\ attempt'[n].marked = attempt[n].marked
  BY <1>2 DEF Finish, AttemptRow
<1>4. attempt' \in [1..Len(attempt) -> AttemptRow]
  BY <1>1, <1>3 DEF Finish
<1>5. attempt' \in Seq(AttemptRow)
  BY <1>1, <1>4
<1> QED
  BY <1>1, <1>3, <1>4, <1>5

(* Releasing a row gives a row in the status asked for.                     *)
LEMMA ReleasedType ==
    ASSUME NEW r \in JobRow, NEW s \in Status
    PROVE  /\ Released(r, s) \in JobRow
           /\ Released(r, s).status = s
           /\ Released(r, s).attempts = r.attempts
           /\ Released(r, s).gen = r.gen
           /\ Released(r, s).recovered = r.recovered
           /\ Released(r, s).anchor = r.anchor
           /\ Released(r, s).blocked = r.blocked
  BY DEF Released, JobRow

(* The edits of a row that the statements make on top of a release.         *)
LEMMA EditedType ==
    ASSUME NEW r \in JobRow
    PROVE  /\ [r EXCEPT !.attempts = 0, !.blocked = FALSE, !.recovered = 0] \in JobRow
           /\ [r EXCEPT !.attempts = LessOneAttempt(@)] \in JobRow
           /\ [r EXCEPT !.blocked = FALSE] \in JobRow
           /\ \A b \in BOOLEAN : [r EXCEPT !.stale = b] \in JobRow
           /\ \A a \in Anchor : [r EXCEPT !.anchor = a] \in JobRow
           /\ [r EXCEPT !.recovered = @ + 1] \in JobRow
<1>1. LessOneAttempt(r.attempts) \in Nat
  BY DEF LessOneAttempt, JobRow
<1>2. [r EXCEPT !.attempts = 0, !.blocked = FALSE, !.recovered = 0] \in JobRow
  BY DEF JobRow
<1>3. [r EXCEPT !.attempts = LessOneAttempt(@)] \in JobRow
  BY <1>1 DEF JobRow
<1>4. [r EXCEPT !.blocked = FALSE] \in JobRow
  BY DEF JobRow
<1>5. ASSUME NEW b \in BOOLEAN PROVE [r EXCEPT !.stale = b] \in JobRow
  BY DEF JobRow
<1>6. ASSUME NEW a \in Anchor PROVE [r EXCEPT !.anchor = a] \in JobRow
  BY DEF JobRow
<1>7. [r EXCEPT !.recovered = @ + 1] \in JobRow
  BY DEF JobRow
<1> QED
  BY <1>2, <1>3, <1>4, <1>5, <1>6, <1>7

(* An UPDATE through the trigger keeps both tables well typed.              *)
LEMMA UpdateJobType ==
    ASSUME JobQueueAssumption, TypeOK, NEW j \in Job, NEW r \in JobRow, UpdateJob(j, r)
    PROVE  job' \in [Job -> JobRow] /\ recent' \in [Scope -> Nat]
<1>1. [r EXCEPT !.gen = @ + 1] \in JobRow
  BY DEF JobRow
<1>2. ScopeOf[j] \in Scope /\ recent[ScopeOf[j]] + 1 \in Nat
  BY DEF JobQueueAssumption, TypeOK
<1>3. job \in [Job -> JobRow] /\ recent \in [Scope -> Nat]
  BY DEF TypeOK
<1>4. \/ UNCHANGED <<job, recent>>
      \/ /\ job' = [job EXCEPT ![j] = [r EXCEPT !.gen = @ + 1]]
         /\ recent' = [recent EXCEPT ![ScopeOf[j]] = @ + 1]
      \/ job' = [job EXCEPT ![j] = r] /\ UNCHANGED recent
  BY DEF UpdateJob
<1> DEFINE s == [r EXCEPT !.gen = @ + 1]
<1>5. s \in JobRow /\ (job' = [job EXCEPT ![j] = s] => job' \in [Job -> JobRow])
  <2>1. s \in JobRow
    BY <1>1
  <2> HIDE DEF s
  <2> QED
    BY <1>3, <2>1
<1>6. recent' = [recent EXCEPT ![ScopeOf[j]] = @ + 1] => recent' \in [Scope -> Nat]
  BY <1>2, <1>3
<1>7. job' = [job EXCEPT ![j] = r] => job' \in [Job -> JobRow]
  BY <1>3
<1> QED
  BY <1>3, <1>4, <1>5, <1>6, <1>7

(* The disposition of a failure is RETRYING (PENDING) or FAILED, and the    *)
(* attempt number it leaves is the old one or one less.                     *)
LEMMA DisposedType ==
    ASSUME NEW r \in JobRow, NEW f \in FailLocals
    PROVE  /\ Disposed(r, f) \in JobRow
           /\ Disposed(r, f).status = IF Exhausted(f) THEN "FAILED" ELSE "PENDING"
           /\ Disposed(r, f).gen = r.gen
           /\ Disposed(r, f).recovered = r.recovered
           /\ Disposed(r, f).attempts =
                 IF Exhausted(f) \/ f.class = "ordinary"
                 THEN r.attempts ELSE LessOneAttempt(r.attempts)
<1>1. AnchorAfter(r, f) \in Anchor /\ Retryable(f) \in BOOLEAN
  BY DEF AnchorAfter, Retryable, JobRow, FailLocals, Anchor
<1>2. LessOneAttempt(r.attempts) \in Nat
  BY DEF LessOneAttempt, JobRow
<1>3. /\ Released(r, "FAILED") \in JobRow
      /\ Released(r, "FAILED").status = "FAILED"
      /\ Released(r, "FAILED").attempts = r.attempts
      /\ Released(r, "FAILED").gen = r.gen
      /\ Released(r, "FAILED").recovered = r.recovered
  BY ReleasedType DEF Status, Terminal
<1>4. /\ Released(r, "PENDING") \in JobRow
      /\ Released(r, "PENDING").status = "PENDING"
      /\ Released(r, "PENDING").attempts = r.attempts
      /\ Released(r, "PENDING").gen = r.gen
      /\ Released(r, "PENDING").recovered = r.recovered
  BY ReleasedType DEF Status, Terminal
<1>5. "none" \in Anchor
  BY DEF Anchor
<1>6. CASE Exhausted(f)
  BY <1>1, <1>3, <1>6 DEF Disposed, JobRow
<1>7. CASE ~Exhausted(f) /\ f.class = "ordinary"
  BY <1>4, <1>5, <1>7 DEF Disposed, JobRow
<1>8. CASE ~Exhausted(f) /\ f.class # "ordinary"
  BY <1>1, <1>2, <1>4, <1>8 DEF Disposed, JobRow
<1> QED
  BY <1>6, <1>7, <1>8
-----------------------------------------------------------------------------
(* A poll that recovers jobs keeps the type of the tables.                  *)
LEMMA RecoverType ==
    ASSUME TypeInv, NEW w \in Worker, RecoverStaleJobs(w)
    PROVE  /\ job' \in [Job -> JobRow]
           /\ attempt' \in Seq(AttemptRow)
           /\ \A j \in Job :
                 job'[j] = IF Stuck(j)
                           THEN [Released(job[j], "PENDING") EXCEPT !.recovered = @ + 1]
                           ELSE job[j]
<1>1. \A j \in Job : /\ Released(job[j], "PENDING") \in JobRow
                     /\ [Released(job[j], "PENDING") EXCEPT !.recovered = @ + 1] \in JobRow
  <2> TAKE j \in Job
  <2>1. Released(job[j], "PENDING") \in JobRow
    BY ReleasedType DEF TypeInv, TypeOK, Status, Terminal
  <2> QED
    BY <2>1 DEF JobRow
<1>2. job' \in [Job -> JobRow]
  BY <1>1 DEF RecoverStaleJobs, TypeInv, TypeOK
<1>3. attempt' \in Seq(AttemptRow)
  BY FinishKeepsRows DEF RecoverStaleJobs, TypeInv, TypeOK
<1> QED
  BY <1>2, <1>3 DEF RecoverStaleJobs

(* A claim appends one well-typed row.                                      *)
LEMMA ClaimType ==
    ASSUME TypeInv, NEW w \in Worker, NEW j \in Job, ClaimNextJob(w, j)
    PROVE  /\ job' \in [Job -> JobRow]
           /\ attempt' \in Seq(AttemptRow)
           /\ Len(attempt') = Len(attempt) + 1
           /\ \A n \in DOMAIN attempt : attempt'[n] = attempt[n]
           /\ attempt'[Len(attempt) + 1] = ClaimRow(j)
           /\ exec' \in [Worker -> Claim]
<1>1. job[j] \in JobRow /\ job[j].attempts + 1 \in Nat /\ job[j].gen \in Nat
  BY DEF TypeInv, TypeOK, JobRow
<1>2. ClaimRow(j) \in AttemptRow
  BY <1>1 DEF ClaimRow, AttemptRow
<1>3. job' \in [Job -> JobRow]
  BY <1>1 DEF ClaimNextJob, TypeInv, TypeOK, JobRow, Status
<1>4. attempt \in Seq(AttemptRow) /\ Len(attempt) \in Nat
  BY DEF TypeInv, TypeOK
<1>5. attempt' = Append(attempt, ClaimRow(j))
  BY DEF ClaimNextJob
<1>6. [job |-> j, number |-> job[j].attempts + 1, gen |-> job[j].gen,
       row |-> Len(attempt) + 1] \in Claim
  BY <1>1, <1>4 DEF Claim
<1> QED
  BY <1>2, <1>3, <1>4, <1>5, <1>6 DEF ClaimNextJob, TypeInv, TypeOK

(* The SELECT of failJob changes the captured row of its worker only.       *)
LEMMA CaptureEffect ==
    ASSUME TypeOK, NEW w \in Worker, CaptureOpenAttempt(w)
    PROVE  /\ fail' \in [Worker -> FailLocals]
           /\ \A v \in Worker : /\ fail'[v].class = fail[v].class
                                /\ fail'[v].attempts = fail[v].attempts
<1>0. fail \in [Worker -> FailLocals] /\ fail[w] \in FailLocals
  BY DEF TypeOK
<1>1. CASE UNCHANGED fail
  BY <1>0, <1>1
<1>2. ASSUME NEW n \in OpenRowsOf(exec[w].job), fail' = [fail EXCEPT ![w].captured = n]
      PROVE  /\ fail' \in [Worker -> FailLocals]
             /\ \A v \in Worker : /\ fail'[v].class = fail[v].class
                                  /\ fail'[v].attempts = fail[v].attempts
  <2> DEFINE f == [fail[w] EXCEPT !.captured = n]
  <2>1. n \in Nat
    BY DEF OpenRowsOf, RowsOf, TypeOK
  <2>2. f \in FailLocals /\ f.class = fail[w].class /\ f.attempts = fail[w].attempts
    BY <1>0, <2>1 DEF FailLocals
  <2>3. fail' = [fail EXCEPT ![w] = f]
    BY <1>2
  <2> HIDE DEF f
  <2> QED
    BY <1>0, <2>2, <2>3
<1> QED
  BY <1>1, <1>2 DEF CaptureOpenAttempt

(* The empty queue is well typed.                                           *)
LEMMA TypeInit == JobQueueAssumption /\ Init => TypeInv
<1> SUFFICES ASSUME JobQueueAssumption, Init PROVE TypeInv
  OBVIOUS
<1>1. [FreshJob EXCEPT !.status = "ABSENT"] \in JobRow
  BY DEF FreshJob, JobRow, Status, Anchor
<1>2. NoClaim \in Claim /\ NoFailure \in FailLocals
  BY DEF NoClaim, Claim, NoFailure, FailLocals, Failure, Anchor
<1>3. attempt \in Seq(AttemptRow)
  BY DEF Init
<1>4. TypeOK
  BY <1>1, <1>2, <1>3 DEF Init, TypeOK, Control, Idle
<1>5. BusyHasJob
  BY DEF Init, BusyHasJob, Busy, Idle
<1> QED
  BY <1>4, <1>5 DEF TypeInv

(* Every action keeps the types, with the claim of a worker that is not idle *)
(* bound to a job.                                                          *)
LEMMA TypeStep == JobQueueAssumption /\ TypeInv /\ [Next]_vars => TypeInv'
<1> SUFFICES ASSUME JobQueueAssumption, TypeInv, [Next]_vars PROVE TypeInv'
  OBVIOUS
<1> USE DEF TypeInv
<1>u. CASE UNCHANGED vars
  BY <1>u DEF vars, TypeOK, BusyHasJob, Busy
<1>0. /\ NoClaim \in Claim
      /\ NoFailure \in FailLocals
      /\ \A j \in Job : /\ job[j] \in JobRow
                        /\ Released(job[j], "PENDING") \in JobRow
                        /\ Released(job[j], "COMPLETED") \in JobRow
                        /\ Released(job[j], "FAILED") \in JobRow
  BY ReleasedType DEF NoClaim, Claim, NoFailure, FailLocals, Failure, Anchor,
                      TypeOK, Status, Terminal
<1>1. ASSUME NEW w \in Worker, RecoverStaleJobs(w) PROVE TypeInv'
  BY <1>1, RecoverType DEF RecoverStaleJobs, TypeOK, BusyHasJob, Busy, Idle, Goto, Control
<1>2. ASSUME NEW w \in Worker, NEW j \in Job, ClaimNextJob(w, j) PROVE TypeInv'
  BY <1>2, ClaimType DEF ClaimNextJob, TypeOK, BusyHasJob, Busy, Idle, Goto, Control, Owning
<1>3. ASSUME NEW w \in Worker, NothingClaimed(w) PROVE TypeInv'
  BY <1>3 DEF NothingClaimed, TypeOK, BusyHasJob, Busy, Idle, Goto, Control
<1>4. ASSUME NEW w \in Worker, MarkInspectionStarted(w) PROVE TypeInv'
  <2>1. attempt' \in [1..Len(attempt) -> AttemptRow]
    <3>1. \A n \in 1..Len(attempt) :
             /\ attempt[n] \in AttemptRow
             /\ [attempt[n] EXCEPT !.marked = TRUE] \in AttemptRow
      <4> TAKE n \in 1..Len(attempt)
      <4>1. attempt[n] \in AttemptRow
        BY DEF TypeOK
      <4> QED
        BY <4>1 DEF AttemptRow
    <3>2. DOMAIN attempt = 1..Len(attempt)
      BY DEF TypeOK
    <3> QED
      BY <1>4, <3>1, <3>2 DEF MarkInspectionStarted
  <2>2. attempt' \in Seq(AttemptRow)
    <3>1. Len(attempt) \in Nat
      BY DEF TypeOK
    <3> QED
      BY <2>1, <3>1
  <2> QED
    BY <1>4, <2>2 DEF MarkInspectionStarted, TypeOK, BusyHasJob, Busy, Idle, Goto, Control, Owning
<1>5. ASSUME NEW w \in Worker, CompleteJobRow(w) PROVE TypeInv'
  <2>1. exec[w].job \in Job
    BY <1>5 DEF CompleteJobRow, BusyHasJob, Busy, Idle
  <2>2. job' \in [Job -> JobRow]
    BY <1>5, <2>1, <1>0 DEF CompleteJobRow, TypeOK
  <2> QED
    BY <1>5, <2>1, <2>2 DEF CompleteJobRow, TypeOK, BusyHasJob, Busy, Idle, Goto, Control
<1>6. ASSUME NEW w \in Worker, CompleteAttempts(w) PROVE TypeInv'
  <2>1. attempt' \in Seq(AttemptRow)
    BY <1>6, FinishKeepsRows DEF CompleteAttempts, TypeOK
  <2> QED
    BY <1>6, <2>1, <1>0 DEF CompleteAttempts, BecomeIdle, TypeOK, BusyHasJob, Busy, Idle, Control
<1>7. ASSUME NEW w \in Worker, CompleteCanary(w) PROVE TypeInv'
  <2>1. exec[w].job \in Job
    BY <1>7 DEF CompleteCanary, BusyHasJob, Busy, Idle
  <2>2. job' \in [Job -> JobRow] /\ attempt' \in Seq(AttemptRow)
    <3>1. CASE OwnsCanary(w)
      BY <1>7, <2>1, <3>1, <1>0, FinishKeepsRows DEF CompleteCanary, TypeOK
    <3>2. CASE ~OwnsCanary(w)
      BY <1>7, <3>2 DEF CompleteCanary, TypeOK
    <3> QED
      BY <3>1, <3>2
  <2> QED
    BY <1>7, <2>2, <1>0 DEF CompleteCanary, BecomeIdle, TypeOK, BusyHasJob, Busy, Idle, Control
<1>8. ASSUME NEW w \in Worker, NEW class \in Failures, HandlerFails(w, class) PROVE TypeInv'
  <2>1. exec[w].job \in Job
    BY <1>8 DEF HandlerFails, BusyHasJob, Busy, Idle
  <2>2. class \in Failure
    BY <1>8 DEF JobQueueAssumption
  <2>3. [class |-> class, attempts |-> job[exec[w].job].attempts,
         anchor |-> job[exec[w].job].anchor, captured |-> 0] \in FailLocals
    BY <2>1, <2>2, <1>0 DEF FailLocals, JobRow
  <2> QED
    BY <1>8, <2>1, <2>3 DEF HandlerFails, TypeOK, BusyHasJob, Busy, Idle, Goto, Control, Owning
<1>9. ASSUME NEW w \in Worker, CaptureOpenAttempt(w) PROVE TypeInv'
  <2>1. exec[w].job \in Job
    BY <1>9 DEF CaptureOpenAttempt, BusyHasJob, Busy, Idle
  <2>2. fail' \in [Worker -> FailLocals]
    BY <1>9, CaptureEffect
  <2> QED
    BY <1>9, <2>1, <2>2 DEF CaptureOpenAttempt, TypeOK, BusyHasJob, Busy, Idle, Goto, Control, Owning
<1>10. ASSUME NEW w \in Worker, FailTransition(w) PROVE TypeInv'
  <2>1. exec[w].job \in Job
    BY <1>10 DEF FailTransition, BusyHasJob, Busy, Idle
  <2>2. Disposed(job[exec[w].job], fail[w]) \in JobRow
    BY <2>1, DisposedType DEF TypeOK
  <2>3. job' \in [Job -> JobRow] /\ recent' \in [Scope -> Nat]
    BY <1>10, <2>1, <2>2, UpdateJobType DEF FailTransition
  <2> QED
    BY <1>10, <2>1, <2>3 DEF FailTransition, TypeOK, BusyHasJob, Busy, Idle, Goto, Control
<1>11. ASSUME NEW w \in Worker, FinalizeFailedAttempt(w) PROVE TypeInv'
  <2>1. attempt' \in Seq(AttemptRow)
    BY <1>11, FinishKeepsRows DEF FinalizeFailedAttempt, TypeOK
  <2> QED
    BY <1>11, <2>1, <1>0 DEF FinalizeFailedAttempt, BecomeIdle, TypeOK, BusyHasJob, Busy, Idle, Control
<1>12. ASSUME NEW w \in Worker, Heartbeat(w) PROVE TypeInv'
  <2>1. job' \in [Job -> JobRow]
    BY <1>12, EditedType DEF Heartbeat, BusyHasJob, TypeOK
  <2> QED
    BY <1>12, <2>1 DEF Heartbeat, TypeOK, BusyHasJob, Busy
<1>13. ASSUME NEW w \in Worker, Crash(w) PROVE TypeInv'
  BY <1>13, <1>0 DEF Crash, BecomeIdle, TypeOK, BusyHasJob, Busy, Idle, Control
<1>14. ASSUME NEW j \in Job, Enqueue(j) PROVE TypeInv'
  <2>1. FreshJob \in JobRow
    BY DEF FreshJob, JobRow, Status, Anchor
  <2>2. [Released(job[j], "PENDING") EXCEPT !.attempts = 0, !.blocked = FALSE,
                                            !.recovered = 0] \in JobRow
    BY <1>0, EditedType
  <2>3. job' \in [Job -> JobRow] /\ recent' \in [Scope -> Nat]
    BY <1>14, <2>1, <2>2, UpdateJobType DEF Enqueue
  <2> QED
    BY <1>14, <2>3 DEF Enqueue, TypeOK, BusyHasJob, Busy
<1>15. ASSUME NEW j \in Job, RepairCapacityFailure(j) PROVE TypeInv'
  <2>1. [Released(job[j], "PENDING") EXCEPT !.attempts = LessOneAttempt(@)] \in JobRow
    BY <1>0, EditedType
  <2>2. job' \in [Job -> JobRow] /\ recent' \in [Scope -> Nat]
    BY <1>15, <2>1, UpdateJobType DEF RepairCapacityFailure
  <2> QED
    BY <1>15, <2>2 DEF RepairCapacityFailure, TypeOK, BusyHasJob, Busy
<1>16. ASSUME NEW j \in Job, ResetAnchor(j) \/ AnchorAges(j) \/ LeaseExpires(j) PROVE TypeInv'
  <2>1. job' \in [Job -> JobRow]
    <3>1. "none" \in Anchor /\ "aged" \in Anchor
      BY DEF Anchor
    <3>2. /\ [job[j] EXCEPT !.anchor = "none"] \in JobRow
          /\ [job[j] EXCEPT !.anchor = "aged"] \in JobRow
          /\ [job[j] EXCEPT !.stale = TRUE] \in JobRow
      BY <1>0, <3>1, EditedType
    <3>3. CASE ResetAnchor(j)
      BY <3>2, <3>3 DEF ResetAnchor, TypeOK
    <3>4. CASE AnchorAges(j)
      BY <3>2, <3>4 DEF AnchorAges, TypeOK
    <3>5. CASE LeaseExpires(j)
      BY <3>2, <3>5 DEF LeaseExpires, TypeOK
    <3> QED
      BY <1>16, <3>3, <3>4, <3>5
  <2> QED
    BY <1>16, <2>1 DEF ResetAnchor, AnchorAges, LeaseExpires, TypeOK, BusyHasJob, Busy
<1>17. ASSUME NEW j \in Job, CancelByHumanRejection(j) PROVE TypeInv'
  <2>1. [Released(job[j], "FAILED") EXCEPT !.blocked = FALSE] \in JobRow
    BY <1>0, EditedType
  <2> QED
    BY <1>17, <2>1 DEF CancelByHumanRejection, TypeOK, BusyHasJob, Busy
<1>18. ASSUME NEW s \in Scope, ReopenEventAges(s) PROVE TypeInv'
  <2>1. recent' \in [Scope -> Nat]
    BY <1>18 DEF ReopenEventAges, TypeOK
  <2> QED
    BY <1>18, <2>1 DEF ReopenEventAges, TypeOK, BusyHasJob, Busy
<1> QED
  BY <1>u, <1>1, <1>2, <1>3, <1>4, <1>5, <1>6, <1>7, <1>8, <1>9, <1>10, <1>11, <1>12,
     <1>13, <1>14, <1>15, <1>16, <1>17, <1>18 DEF Next, Tick

(* The tables and the locals of every worker keep their type, whichever     *)
(* disturbances happen.                                                     *)
THEOREM TypeCorrect == Spec => []TypeOK
<1>1. Init => TypeInv
  BY TypeInit, JobQueueAssumption
<1>2. TypeInv /\ [Next]_vars => TypeInv'
  BY TypeStep, JobQueueAssumption
<1>3. TypeInv => TypeOK
  BY DEF TypeInv
<1> QED
  BY <1>1, <1>2, <1>3, PTL DEF Spec
-----------------------------------------------------------------------------
(* The trigger lets a row through, renumbers it or leaves the row as it     *)
(* was, and touches no other job.                                           *)
LEMMA UpdateJobEffect ==
    ASSUME TypeOK, NEW j \in Job, NEW r \in JobRow, UpdateJob(j, r)
    PROVE  /\ \A k \in Job \ {j} : job'[k] = job[k]
           /\ job'[j] \in {job[j], r, [r EXCEPT !.gen = @ + 1]}
           /\ job[j].status \notin Terminal => job'[j] = r
  BY DEF UpdateJob, TypeOK

(* One job is executed by one worker.                                       *)
LEMMA OneExecutor ==
    ASSUME ExclusiveExecution, NEW v \in Worker, NEW w \in Worker, NEW j \in Job,
           Executing(v, j), Executing(w, j)
    PROVE  v = w
  BY DEF ExclusiveExecution

(* The row r is held for worker w, under a fresh lock.                      *)
HeldFor(w, r) == r.status = "PROCESSING" /\ r.lockedBy = w /\ ~r.stale

(* Without faults the lock stays with the executor: each unfenced UPDATE by  *)
(* id is made by the worker that holds the row it writes.                   *)
LEMMA ExclusiveStep ==
    ASSUME JobQueueAssumption, Faults = {}, TypeInv, TypeInv', ExclusiveExecution,
           [Next]_vars
    PROVE  ExclusiveExecution'
<1> SUFFICES ASSUME NEW v \in Worker, NEW k \in Job, Executing(v, k)'
             PROVE  HeldFor(v, job'[k])
  BY DEF ExclusiveExecution, HeldFor
<1> USE DEF TypeInv
<1>0. Executing(v, k) => HeldFor(v, job[k])
  BY DEF ExclusiveExecution, HeldFor
<1>u. CASE UNCHANGED vars
  BY <1>u, <1>0 DEF vars, Executing
<1>1. ASSUME NEW w \in Worker, RecoverStaleJobs(w) PROVE HeldFor(v, job'[k])
  <2>1. Executing(v, k)
    BY <1>1 DEF RecoverStaleJobs, Executing, Goto, Owning, TypeOK
  <2>2. ~Stuck(k)
    BY <2>1, <1>0 DEF Stuck, HeldFor
  <2> QED
    BY <1>0, <1>1, <2>1, <2>2, RecoverType
<1>2. ASSUME NEW w \in Worker, NEW j \in Job, ClaimNextJob(w, j) PROVE HeldFor(v, job'[k])
  <2>1. CASE v = w
    <3>1. k = j
      BY <1>2, <2>1 DEF ClaimNextJob, Executing, TypeOK
    <3>2. job[j] \in JobRow
      BY DEF TypeOK
    <3> QED
      BY <1>2, <2>1, <3>1, <3>2 DEF ClaimNextJob, HeldFor, TypeOK, JobRow
  <2>2. CASE v # w
    <3>1. Executing(v, k)
      BY <1>2, <2>2 DEF ClaimNextJob, Executing, Goto, TypeOK
    <3>2. k # j
      BY <1>0, <1>2, <3>1 DEF ClaimNextJob, HeldFor
    <3> QED
      BY <1>0, <1>2, <3>1, <3>2 DEF ClaimNextJob, TypeOK
  <2> QED
    BY <2>1, <2>2
<1>3. ASSUME NEW w \in Worker, NothingClaimed(w) PROVE HeldFor(v, job'[k])
  BY <1>0, <1>3 DEF NothingClaimed, Executing, Goto, Owning, TypeOK
<1>4. ASSUME NEW w \in Worker, MarkInspectionStarted(w) PROVE HeldFor(v, job'[k])
  BY <1>0, <1>4 DEF MarkInspectionStarted, Executing, Goto, Owning, TypeOK
<1>5. ASSUME NEW w \in Worker, CompleteJobRow(w) PROVE HeldFor(v, job'[k])
  <2>1. v # w /\ Executing(v, k)
    BY <1>5 DEF CompleteJobRow, Executing, Goto, Owning, TypeOK
  <2>2. exec[w].job \in Job /\ Executing(w, exec[w].job)
    BY <1>5 DEF CompleteJobRow, Executing, Owning, BusyHasJob, Busy, Idle
  <2>3. k # exec[w].job
    BY <2>1, <2>2, OneExecutor
  <2> QED
    BY <1>0, <1>5, <2>1, <2>2, <2>3 DEF CompleteJobRow, TypeOK
<1>6. ASSUME NEW w \in Worker, CompleteAttempts(w) PROVE HeldFor(v, job'[k])
  BY <1>0, <1>6 DEF CompleteAttempts, BecomeIdle, Executing, Owning, TypeOK
<1>7. ASSUME NEW w \in Worker, CompleteCanary(w) PROVE HeldFor(v, job'[k])
  <2>1. v # w /\ Executing(v, k)
    BY <1>7 DEF CompleteCanary, BecomeIdle, Executing, Owning, TypeOK
  <2>2. exec[w].job \in Job /\ Executing(w, exec[w].job)
    BY <1>7 DEF CompleteCanary, Executing, Owning, BusyHasJob, Busy, Idle
  <2>3. k # exec[w].job
    BY <2>1, <2>2, OneExecutor
  <2>4. job'[k] = job[k]
    BY <1>7, <2>2, <2>3 DEF CompleteCanary, TypeOK
  <2> QED
    BY <1>0, <2>1, <2>4
<1>8. ASSUME NEW w \in Worker, NEW class \in Failures, HandlerFails(w, class)
      PROVE  HeldFor(v, job'[k])
  BY <1>0, <1>8 DEF HandlerFails, Executing, Goto, Owning, TypeOK
<1>9. ASSUME NEW w \in Worker, CaptureOpenAttempt(w) PROVE HeldFor(v, job'[k])
  BY <1>0, <1>9 DEF CaptureOpenAttempt, Executing, Goto, Owning, TypeOK
<1>10. ASSUME NEW w \in Worker, FailTransition(w) PROVE HeldFor(v, job'[k])
  <2>1. v # w /\ Executing(v, k)
    BY <1>10 DEF FailTransition, Executing, Goto, Owning, TypeOK
  <2>2. exec[w].job \in Job /\ Executing(w, exec[w].job)
    BY <1>10 DEF FailTransition, Executing, Owning, BusyHasJob, Busy, Idle
  <2>3. k # exec[w].job
    BY <2>1, <2>2, OneExecutor
  <2>4. Disposed(job[exec[w].job], fail[w]) \in JobRow
    BY <2>2, DisposedType DEF TypeOK
  <2>5. job'[k] = job[k]
    BY <1>10, <2>2, <2>3, <2>4, UpdateJobEffect DEF FailTransition
  <2> QED
    BY <1>0, <2>1, <2>5
<1>11. ASSUME NEW w \in Worker, FinalizeFailedAttempt(w) PROVE HeldFor(v, job'[k])
  BY <1>0, <1>11 DEF FinalizeFailedAttempt, BecomeIdle, Executing, Owning, TypeOK
<1>12. ASSUME NEW w \in Worker, Heartbeat(w) PROVE HeldFor(v, job'[k])
  <2>1. Executing(v, k)
    BY <1>12 DEF Heartbeat, Executing
  <2>2. exec[w].job \in Job /\ k # exec[w].job
    BY <1>0, <1>12, <2>1 DEF Heartbeat, BusyHasJob, HeldFor
  <2> QED
    BY <1>0, <1>12, <2>1, <2>2 DEF Heartbeat, TypeOK
<1>13. ASSUME NEW w \in Worker, Crash(w) PROVE HeldFor(v, job'[k])
  BY <1>0, <1>13 DEF Crash, BecomeIdle, Executing, Owning, TypeOK
<1>14. ASSUME NEW j \in Job, Enqueue(j) PROVE HeldFor(v, job'[k])
  <2>1. Executing(v, k)
    BY <1>14 DEF Enqueue, Executing
  <2>2. k # j
    BY <1>0, <1>14, <2>1 DEF Enqueue, Reopenable, Terminal, HeldFor
  <2>3. job'[k] = job[k]
    BY <1>14, <2>2 DEF Enqueue, UpdateJob, TypeOK
  <2> QED
    BY <1>0, <2>1, <2>3
<1>15. ASSUME NEW j \in Job, RepairCapacityFailure(j) PROVE HeldFor(v, job'[k])
  <2>1. Executing(v, k)
    BY <1>15 DEF RepairCapacityFailure, Executing
  <2>2. k # j
    BY <1>0, <1>15, <2>1 DEF RepairCapacityFailure, HeldFor
  <2>3. job'[k] = job[k]
    BY <1>15, <2>2 DEF RepairCapacityFailure, UpdateJob, TypeOK
  <2> QED
    BY <1>0, <2>1, <2>3
<1>16. ASSUME NEW j \in Job, ResetAnchor(j) \/ AnchorAges(j) PROVE HeldFor(v, job'[k])
  <2>1. Executing(v, k) /\ job[k] \in JobRow
    BY <1>16 DEF ResetAnchor, AnchorAges, Executing, TypeOK
  <2>2. HeldFor(v, job[k])
    BY <1>0, <2>1
  <2>3. /\ job'[k].status = job[k].status
        /\ job'[k].lockedBy = job[k].lockedBy
        /\ job'[k].stale = job[k].stale
    <3>1. job'[k] \in {job[k], [job[k] EXCEPT !.anchor = "none"],
                      [job[k] EXCEPT !.anchor = "aged"]}
      BY <1>16 DEF ResetAnchor, AnchorAges, TypeOK
    <3> QED
      BY <2>1, <3>1 DEF JobRow
  <2> QED
    BY <2>2, <2>3 DEF HeldFor
<1>17. ASSUME NEW j \in Job, LeaseExpires(j) PROVE HeldFor(v, job'[k])
  <2>1. Executing(v, k)
    BY <1>17 DEF LeaseExpires, Executing
  <2>2. k # j
    BY <1>0, <1>17, <2>1 DEF LeaseExpires, HasLiveOwner, Executing, Busy, Owning, Idle, HeldFor
  <2> QED
    BY <1>0, <1>17, <2>1, <2>2 DEF LeaseExpires, TypeOK
<1>18. ASSUME NEW s \in Scope, ReopenEventAges(s) PROVE HeldFor(v, job'[k])
  BY <1>0, <1>18 DEF ReopenEventAges, Executing
<1>19. ASSUME NEW j \in Job, CancelByHumanRejection(j) PROVE HeldFor(v, job'[k])
  BY <1>19 DEF CancelByHumanRejection
<1> QED
  BY <1>u, <1>1, <1>2, <1>3, <1>4, <1>5, <1>6, <1>7, <1>8, <1>9, <1>10, <1>11, <1>12,
     <1>13, <1>14, <1>15, <1>16, <1>17, <1>18, <1>19 DEF Next, Tick

(* Without lost leases, failed second statements and rejections by a human, *)
(* a job is executed by the one worker that holds its fresh lock.           *)
THEOREM Exclusion == ASSUME Faults = {} PROVE Spec => []ExclusiveExecution
<1>1. Init => TypeInv /\ ExclusiveExecution
  BY TypeInit, JobQueueAssumption DEF Init, ExclusiveExecution, Executing, Owning
<1>2. TypeInv /\ ExclusiveExecution /\ [Next]_vars => (TypeInv /\ ExclusiveExecution)'
  BY TypeStep, ExclusiveStep, JobQueueAssumption
<1> QED
  BY <1>1, <1>2, PTL DEF Spec
-----------------------------------------------------------------------------
(* failJob decides on attempts it read before; as long as the executor is   *)
(* alone, nobody changed them since.                                        *)
FreshSnapshot ==
    \A w \in Worker :
        pc[w] \in {"deciding", "captured"} =>
            fail[w].attempts = job[exec[w].job].attempts

QueueInv == TypeInv /\ ExclusiveExecution /\ FreshSnapshot /\ AttemptsWithinRecoveries

(* The row r keeps within its limit.                                        *)
Within(r) ==
    /\ r.attempts <= MaxAttempts + r.recovered
    /\ r.status = "PENDING" => r.attempts < MaxAttempts + r.recovered

(* Giving an attempt back leaves room for the next claim.                   *)
LEMMA LessKeepsWithin ==
    ASSUME JobQueueAssumption, NEW r \in JobRow, Within(r)
    PROVE  /\ LessOneAttempt(r.attempts) \in Nat
           /\ LessOneAttempt(r.attempts) < MaxAttempts + r.recovered
  BY DEF JobQueueAssumption, Within, LessOneAttempt, JobRow

(* Only a disposition decided on the attempts the row still has keeps it    *)
(* within its limit.                                                        *)
LEMMA DispositionKeepsWithin ==
    ASSUME JobQueueAssumption, NEW r \in JobRow, NEW f \in FailLocals, Within(r),
           f.attempts = r.attempts
    PROVE  Within(Disposed(r, f))
<1>1. /\ MaxAttempts \in Nat \ {0}
      /\ r.attempts \in Nat
      /\ r.recovered \in Nat
      /\ r.attempts <= MaxAttempts + r.recovered
  BY DEF JobQueueAssumption, JobRow, Within
<1>2. CASE Exhausted(f)
  BY <1>1, <1>2, DisposedType DEF Within
<1>3. CASE ~Exhausted(f) /\ f.class = "ordinary"
  <2>1. f.attempts < MaxAttempts
    BY <1>1, <1>3 DEF Exhausted, FailLocals
  <2> QED
    BY <1>1, <1>3, <2>1, DisposedType DEF Within
<1>4. CASE ~Exhausted(f) /\ f.class # "ordinary"
  BY <1>1, <1>4, DisposedType, LessKeepsWithin DEF Within
<1> QED
  BY <1>2, <1>3, <1>4

(* No action takes attempts past max_attempts plus the stale recoveries.    *)
LEMMA AttemptsStep ==
    ASSUME JobQueueAssumption, Faults = {}, QueueInv, TypeInv', [Next]_vars
    PROVE  AttemptsWithinRecoveries'
<1> SUFFICES ASSUME NEW k \in Job PROVE Within(job'[k])
  BY DEF AttemptsWithinRecoveries, Within
<1> USE DEF QueueInv, TypeInv
<1>0. Within(job[k]) /\ job[k] \in JobRow
  BY DEF AttemptsWithinRecoveries, Within, TypeOK
<1>u. CASE UNCHANGED job
  BY <1>0, <1>u
<1>1. ASSUME NEW w \in Worker, RecoverStaleJobs(w) PROVE Within(job'[k])
  <2> DEFINE r == Released(job[k], "PENDING")
  <2>1. r \in JobRow /\ r.attempts = job[k].attempts /\ r.recovered = job[k].recovered
    BY <1>0, ReleasedType DEF Status, Terminal
  <2> HIDE DEF r
  <2>2. CASE Stuck(k)
    <3>1. job'[k] = [r EXCEPT !.recovered = @ + 1]
      BY <1>1, <2>2, RecoverType DEF r
    <3> QED
      BY <1>0, <2>1, <3>1 DEF Within, JobRow, JobQueueAssumption
  <2>3. CASE ~Stuck(k)
    BY <1>0, <1>1, <2>3, RecoverType
  <2> QED
    BY <2>2, <2>3
<1>2. ASSUME NEW w \in Worker, NEW j \in Job, ClaimNextJob(w, j) PROVE Within(job'[k])
  <2>1. CASE k = j
    <3>1. job[k].attempts < MaxAttempts + job[k].recovered
      BY <1>0, <1>2, <2>1 DEF ClaimNextJob, Within
    <3>2. /\ job'[k].status = "PROCESSING"
          /\ job'[k].attempts = job[k].attempts + 1
          /\ job'[k].recovered = job[k].recovered
      BY <1>0, <1>2, <2>1 DEF ClaimNextJob, TypeOK, JobRow
    <3> QED
      BY <1>0, <3>1, <3>2 DEF Within, JobRow, JobQueueAssumption
  <2>2. CASE k # j
    BY <1>0, <1>2, <2>2 DEF ClaimNextJob, TypeOK
  <2> QED
    BY <2>1, <2>2
<1>3. ASSUME NEW w \in Worker, CompleteJobRow(w) \/ CompleteCanary(w) PROVE Within(job'[k])
  <2>1. job'[k] \in {job[k], Released(job[k], "COMPLETED")}
    BY <1>3 DEF CompleteJobRow, CompleteCanary, TypeOK
  <2> QED
    BY <1>0, <2>1, ReleasedType DEF Within, Status, Terminal
<1>4. ASSUME NEW w \in Worker, FailTransition(w) PROVE Within(job'[k])
  <2>1. exec[w].job \in Job /\ Executing(w, exec[w].job)
    BY <1>4 DEF FailTransition, Executing, Owning, BusyHasJob, Busy, Idle
  <2>2. /\ fail[w] \in FailLocals
        /\ fail[w].attempts = job[exec[w].job].attempts
    BY <1>4 DEF FailTransition, FreshSnapshot, TypeOK
  <2>3. Disposed(job[exec[w].job], fail[w]) \in JobRow
    BY <2>1, <2>2, DisposedType DEF TypeOK
  <2>4. job[exec[w].job].status \notin Terminal
    BY <2>1 DEF ExclusiveExecution, Terminal
  <2>5. CASE k = exec[w].job
    <3>1. job'[k] = Disposed(job[k], fail[w])
      BY <1>4, <2>1, <2>3, <2>4, <2>5, UpdateJobEffect DEF FailTransition
    <3> QED
      BY <1>0, <2>2, <2>5, <3>1, DispositionKeepsWithin
  <2>6. CASE k # exec[w].job
    BY <1>0, <1>4, <2>1, <2>3, <2>6, UpdateJobEffect DEF FailTransition
  <2> QED
    BY <2>5, <2>6
<1>5. ASSUME NEW w \in Worker, Heartbeat(w) PROVE Within(job'[k])
  <2>1. job'[k] \in {job[k], [job[k] EXCEPT !.stale = FALSE]}
    BY <1>5 DEF Heartbeat, TypeOK
  <2> QED
    BY <1>0, <2>1 DEF Within, JobRow
<1>6. ASSUME NEW j \in Job, Enqueue(j) PROVE Within(job'[k])
  <2> DEFINE r == Released(job[k], "PENDING")
             s == [r EXCEPT !.attempts = 0, !.blocked = FALSE, !.recovered = 0]
  <2>1. r \in JobRow
    BY <1>0, ReleasedType DEF Status, Terminal
  <2>2. job'[k] \in {job[k], FreshJob, s, [s EXCEPT !.gen = @ + 1]}
    <3>1. ASSUME NEW q, UpdateJob(j, q)
          PROVE  /\ k # j => job'[k] = job[k]
                 /\ k = j => job'[k] \in {job[k], q, [q EXCEPT !.gen = @ + 1]}
      BY <3>1 DEF UpdateJob, TypeOK
    <3>2. CASE job[j].status = "ABSENT" /\ UpdateJob(j, FreshJob)
      BY <3>2 DEF UpdateJob, TypeOK, Terminal
    <3>3. CASE UpdateJob(j, [Released(job[j], "PENDING") EXCEPT
                                !.attempts = 0, !.blocked = FALSE, !.recovered = 0])
      BY <3>1, <3>3
    <3> QED
      BY <1>6, <3>2, <3>3 DEF Enqueue
  <2> HIDE DEF r
  <2>3. s \in JobRow /\ s.attempts = 0 /\ s.recovered = 0
    BY <2>1, EditedType DEF JobRow
  <2>4. Within(s) /\ Within([s EXCEPT !.gen = @ + 1])
    <3> HIDE DEF s
    <3> QED
      BY <2>3 DEF Within, JobRow, JobQueueAssumption
  <2>5. Within(FreshJob)
    BY DEF FreshJob, Within, JobQueueAssumption
  <2> QED
    BY <1>0, <2>2, <2>4, <2>5
<1>7. ASSUME NEW j \in Job, RepairCapacityFailure(j) PROVE Within(job'[k])
  <2> DEFINE r == Released(job[k], "PENDING")
             s == [r EXCEPT !.attempts = LessOneAttempt(@)]
  <2>1. /\ r \in JobRow
        /\ r.attempts = job[k].attempts
        /\ r.recovered = job[k].recovered
    BY <1>0, ReleasedType DEF Status, Terminal
  <2>2. job'[k] \in {job[k], s, [s EXCEPT !.gen = @ + 1]}
    <3>1. s \in JobRow
      BY <2>1, EditedType
    <3>2. CASE j = k
      BY <1>7, <3>1, <3>2, UpdateJobEffect DEF RepairCapacityFailure
    <3>3. CASE j # k
      <4>1. [Released(job[j], "PENDING") EXCEPT !.attempts = LessOneAttempt(@)] \in JobRow
        BY ReleasedType, EditedType DEF TypeOK, Status
      <4> QED
        BY <1>7, <3>3, <4>1, UpdateJobEffect DEF RepairCapacityFailure
    <3> QED
      BY <3>2, <3>3
  <2> HIDE DEF r
  <2>3. /\ s \in JobRow
        /\ s.attempts = LessOneAttempt(job[k].attempts)
        /\ s.recovered = job[k].recovered
    BY <2>1, EditedType DEF JobRow
  <2>4. Within(s) /\ Within([s EXCEPT !.gen = @ + 1])
    <3> HIDE DEF s
    <3>1. s.attempts < MaxAttempts + s.recovered
      BY <1>0, <2>3, LessKeepsWithin
    <3> QED
      BY <2>3, <3>1 DEF Within, JobRow, JobQueueAssumption
  <2> QED
    BY <1>0, <2>2, <2>4
<1>8. ASSUME NEW j \in Job, ResetAnchor(j) \/ AnchorAges(j) \/ LeaseExpires(j)
      PROVE  Within(job'[k])
  <2>1. job'[k] \in {job[k], [job[k] EXCEPT !.anchor = "none"],
                    [job[k] EXCEPT !.anchor = "aged"], [job[k] EXCEPT !.stale = TRUE]}
    BY <1>8 DEF ResetAnchor, AnchorAges, LeaseExpires, TypeOK
  <2> QED
    BY <1>0, <2>1 DEF Within, JobRow
<1>9. ASSUME NEW j \in Job, CancelByHumanRejection(j) PROVE Within(job'[k])
  BY <1>9 DEF CancelByHumanRejection
<1>10. ASSUME NEW w \in Worker,
              \/ NothingClaimed(w)
              \/ MarkInspectionStarted(w)
              \/ CompleteAttempts(w)
              \/ \E class \in Failures : HandlerFails(w, class)
              \/ CaptureOpenAttempt(w)
              \/ FinalizeFailedAttempt(w)
              \/ Crash(w)
       PROVE  UNCHANGED job
  BY <1>10 DEF NothingClaimed, MarkInspectionStarted, CompleteAttempts, HandlerFails,
               CaptureOpenAttempt, FinalizeFailedAttempt, Crash
<1> QED
  BY <1>u, <1>1, <1>2, <1>3, <1>4, <1>5, <1>6, <1>7, <1>8, <1>9, <1>10
     DEF Next, Tick, ReopenEventAges, vars

(* The attempts that failJob read at its start are still those of the row   *)
(* when it writes its disposition.                                          *)
LEMMA SnapshotStep ==
    ASSUME JobQueueAssumption, Faults = {}, QueueInv, TypeInv', ExclusiveExecution',
           [Next]_vars
    PROVE  FreshSnapshot'
<1> SUFFICES ASSUME NEW v \in Worker, pc'[v] \in {"deciding", "captured"}
             PROVE  fail'[v].attempts = job'[exec'[v].job].attempts
  BY DEF FreshSnapshot
<1> USE DEF QueueInv, TypeInv
<1> DEFINE k == exec[v].job
<1>0. pc[v] \in {"deciding", "captured"} =>
         /\ k \in Job
         /\ job[k] \in JobRow
         /\ fail[v].attempts = job[k].attempts
         /\ job[k].status = "PROCESSING"
         /\ job[k].lockedBy = v
         /\ ~job[k].stale
  <2> SUFFICES ASSUME pc[v] \in {"deciding", "captured"}
               PROVE  /\ k \in Job /\ job[k] \in JobRow
                      /\ fail[v].attempts = job[k].attempts
                      /\ job[k].status = "PROCESSING"
                      /\ job[k].lockedBy = v
                      /\ ~job[k].stale
    OBVIOUS
  <2>1. k \in Job
    BY DEF BusyHasJob, Busy, Idle
  <2>2. job[k] \in JobRow
    BY <2>1 DEF TypeOK
  <2>3. Executing(v, k)
    BY DEF Executing, Owning
  <2> QED
    BY <2>1, <2>2, <2>3 DEF FreshSnapshot, ExclusiveExecution
<1>k. ASSUME pc[v] \in {"deciding", "captured"}, exec'[v] = exec[v],
             fail'[v].attempts = fail[v].attempts, job'[k].attempts = job[k].attempts
      PROVE  fail'[v].attempts = job'[exec'[v].job].attempts
  BY <1>0, <1>k
<1>u. CASE UNCHANGED vars
  BY <1>u, <1>0 DEF vars
<1>1. ASSUME NEW w \in Worker, RecoverStaleJobs(w)
      PROVE  fail'[v].attempts = job'[exec'[v].job].attempts
  <2>1. pc[v] \in {"deciding", "captured"} /\ UNCHANGED <<exec, fail>>
    BY <1>1 DEF RecoverStaleJobs, Goto, TypeOK
  <2>2. ~Stuck(k)
    BY <1>0, <2>1 DEF Stuck
  <2> QED
    BY <1>0, <1>1, <1>k, <2>1, <2>2, RecoverType
<1>2. ASSUME NEW w \in Worker, NEW j \in Job, ClaimNextJob(w, j)
      PROVE  fail'[v].attempts = job'[exec'[v].job].attempts
  <2>1. v # w /\ pc[v] \in {"deciding", "captured"}
    BY <1>2 DEF ClaimNextJob, Goto, TypeOK
  <2>2. k # j
    BY <1>0, <1>2, <2>1 DEF ClaimNextJob
  <2> QED
    BY <1>0, <1>2, <1>k, <2>1, <2>2 DEF ClaimNextJob, TypeOK
<1>3. ASSUME NEW w \in Worker, NEW class \in Failures, HandlerFails(w, class)
      PROVE  fail'[v].attempts = job'[exec'[v].job].attempts
  <2>1. CASE v = w
    BY <1>3, <2>1 DEF HandlerFails, TypeOK
  <2>2. CASE v # w
    BY <1>3, <1>k, <2>2 DEF HandlerFails, Goto, TypeOK
  <2> QED
    BY <2>1, <2>2
<1>4. ASSUME NEW w \in Worker, CaptureOpenAttempt(w)
      PROVE  fail'[v].attempts = job'[exec'[v].job].attempts
  <2>1. pc[v] \in {"deciding", "captured"}
    BY <1>4 DEF CaptureOpenAttempt, Goto, TypeOK
  <2>2. fail'[v].attempts = fail[v].attempts
    BY <1>4, CaptureEffect
  <2> QED
    BY <1>4, <1>k, <2>1, <2>2 DEF CaptureOpenAttempt
<1>5. ASSUME NEW w \in Worker, CompleteJobRow(w) \/ FailTransition(w)
      PROVE  fail'[v].attempts = job'[exec'[v].job].attempts
  <2>1. /\ v # w
        /\ pc[v] \in {"deciding", "captured"}
        /\ UNCHANGED <<exec, fail>>
    BY <1>5 DEF CompleteJobRow, FailTransition, Goto, TypeOK
  <2>2. exec[w].job \in Job /\ Executing(w, exec[w].job)
    BY <1>5 DEF CompleteJobRow, FailTransition, Executing, Owning, BusyHasJob, Busy, Idle
  <2>3. k # exec[w].job
    BY <1>0, <2>1, <2>2 DEF ExclusiveExecution
  <2>4. job'[k] = job[k]
    <3>1. CASE CompleteJobRow(w)
      BY <1>0, <2>1, <2>3, <3>1 DEF CompleteJobRow, TypeOK
    <3>2. CASE FailTransition(w)
      BY <1>0, <2>1, <2>2, <2>3, <3>2 DEF FailTransition, UpdateJob, TypeOK
    <3> QED
      BY <1>5, <3>1, <3>2
  <2> QED
    BY <1>k, <2>1, <2>4
<1>6. ASSUME NEW w \in Worker, CompleteCanary(w)
      PROVE  fail'[v].attempts = job'[exec'[v].job].attempts
  <2>1. v # w /\ pc[v] \in {"deciding", "captured"} /\ exec'[v] = exec[v] /\ fail'[v] = fail[v]
    BY <1>6 DEF CompleteCanary, BecomeIdle, TypeOK
  <2>2. exec[w].job \in Job /\ Executing(w, exec[w].job)
    BY <1>6 DEF CompleteCanary, Executing, Owning, BusyHasJob, Busy, Idle
  <2>3. k # exec[w].job
    BY <1>0, <2>1, <2>2 DEF ExclusiveExecution
  <2>4. job'[k] = job[k]
    BY <1>0, <1>6, <2>1, <2>3 DEF CompleteCanary, TypeOK
  <2> QED
    BY <1>k, <2>1, <2>4
<1>7. ASSUME NEW w \in Worker,
             CompleteAttempts(w) \/ FinalizeFailedAttempt(w) \/ Crash(w)
      PROVE  fail'[v].attempts = job'[exec'[v].job].attempts
  <2>1. /\ pc[v] \in {"deciding", "captured"}
        /\ exec'[v] = exec[v]
        /\ fail'[v] = fail[v]
        /\ UNCHANGED job
    BY <1>7 DEF CompleteAttempts, FinalizeFailedAttempt, Crash, BecomeIdle, TypeOK
  <2> QED
    BY <1>k, <2>1
<1>8. ASSUME NEW w \in Worker, NothingClaimed(w) \/ MarkInspectionStarted(w)
      PROVE  fail'[v].attempts = job'[exec'[v].job].attempts
  BY <1>k, <1>8 DEF NothingClaimed, MarkInspectionStarted, Goto, TypeOK
<1>9. ASSUME NEW w \in Worker, Heartbeat(w)
      PROVE  fail'[v].attempts = job'[exec'[v].job].attempts
  <2>1. pc[v] \in {"deciding", "captured"} /\ UNCHANGED <<exec, fail>>
    BY <1>9 DEF Heartbeat
  <2>2. job'[k] \in {job[k], [job[k] EXCEPT !.stale = FALSE]}
    BY <1>0, <1>9, <2>1 DEF Heartbeat, TypeOK
  <2> QED
    BY <1>0, <1>k, <2>1, <2>2 DEF JobRow
<1>10. ASSUME NEW j \in Job, Enqueue(j) \/ RepairCapacityFailure(j)
       PROVE  fail'[v].attempts = job'[exec'[v].job].attempts
  <2>1. pc[v] \in {"deciding", "captured"} /\ UNCHANGED <<exec, fail>>
    BY <1>10 DEF Enqueue, RepairCapacityFailure
  <2>2. k # j
    BY <1>0, <1>10, <2>1 DEF Enqueue, RepairCapacityFailure, Reopenable, Terminal
  <2>3. job'[k] = job[k]
    BY <1>0, <1>10, <2>1, <2>2 DEF Enqueue, RepairCapacityFailure, UpdateJob, TypeOK
  <2> QED
    BY <1>k, <2>1, <2>3
<1>11. ASSUME NEW j \in Job, ResetAnchor(j) \/ AnchorAges(j) \/ LeaseExpires(j)
       PROVE  fail'[v].attempts = job'[exec'[v].job].attempts
  <2>1. pc[v] \in {"deciding", "captured"} /\ UNCHANGED <<exec, fail>>
    BY <1>11 DEF ResetAnchor, AnchorAges, LeaseExpires
  <2>2. job'[k] \in {job[k], [job[k] EXCEPT !.anchor = "none"],
                    [job[k] EXCEPT !.anchor = "aged"], [job[k] EXCEPT !.stale = TRUE]}
    BY <1>0, <1>11, <2>1 DEF ResetAnchor, AnchorAges, LeaseExpires, TypeOK
  <2> QED
    BY <1>0, <1>k, <2>1, <2>2 DEF JobRow
<1>12. ASSUME NEW s \in Scope, ReopenEventAges(s)
       PROVE  fail'[v].attempts = job'[exec'[v].job].attempts
  BY <1>k, <1>12 DEF ReopenEventAges
<1>13. ASSUME NEW j \in Job, CancelByHumanRejection(j) PROVE FALSE
  BY <1>13 DEF CancelByHumanRejection
<1> QED
  BY <1>u, <1>1, <1>2, <1>3, <1>4, <1>5, <1>6, <1>7, <1>8, <1>9, <1>10, <1>11, <1>12,
     <1>13 DEF Next, Tick

(* max_attempts bounds the claims of a job up to its stale recoveries.      *)
THEOREM AttemptsBounded == ASSUME Faults = {} PROVE Spec => []AttemptsWithinRecoveries
<1>1. Init => QueueInv
  <2> SUFFICES ASSUME Init PROVE QueueInv
    OBVIOUS
  <2>1. TypeInv
    BY TypeInit, JobQueueAssumption
  <2>2. ExclusiveExecution /\ FreshSnapshot
    BY DEF Init, ExclusiveExecution, FreshSnapshot, Executing, Owning
  <2>3. AttemptsWithinRecoveries
    BY JobQueueAssumption
       DEF Init, FreshJob, AttemptsWithinRecoveries, JobQueueAssumption
  <2> QED
    BY <2>1, <2>2, <2>3 DEF QueueInv
<1>2. QueueInv /\ [Next]_vars => QueueInv'
  <2> SUFFICES ASSUME QueueInv, [Next]_vars PROVE QueueInv'
    OBVIOUS
  <2>1. TypeInv'
    BY TypeStep, JobQueueAssumption DEF QueueInv
  <2>2. ExclusiveExecution'
    BY <2>1, ExclusiveStep, JobQueueAssumption DEF QueueInv
  <2> QED
    BY <2>1, <2>2, AttemptsStep, SnapshotStep, JobQueueAssumption DEF QueueInv
<1>3. QueueInv => AttemptsWithinRecoveries
  BY DEF QueueInv
<1> QED
  BY <1>1, <1>2, <1>3, PTL DEF Spec
-----------------------------------------------------------------------------
(* The queue implements JobLease.  First what the mapping makes of a row.   *)
LEMMA PhaseFacts ==
    ASSUME NEW j \in Job
    PROVE  /\ job[j].status = "ABSENT" => Phase(j) = "absent"
           /\ job[j].status = "PENDING" => Phase(j) = "waiting"
           /\ job[j].status \in Terminal => Phase(j) = "settled"
           /\ job[j].status = "PROCESSING" =>
                 Phase(j) = IF Holders(j) = {} THEN "lost" ELSE "held"
  BY DEF Phase, Terminal

(* The same facts of a row after a step.                                    *)
LEMMA NextPhaseFacts ==
    ASSUME NEW j \in Job
    PROVE  /\ job'[j].status = "ABSENT" => Phase(j)' = "absent"
           /\ job'[j].status = "PENDING" => Phase(j)' = "waiting"
           /\ job'[j].status \in Terminal => Phase(j)' = "settled"
           /\ job'[j].status = "PROCESSING" =>
                 Phase(j)' = IF Holders(j)' = {} THEN "lost" ELSE "held"
  BY DEF Phase, Terminal

(* A job keeps its phase when neither its status nor its executors change.  *)
LEMMA SamePhase ==
    ASSUME TypeOK, NEW j \in Job, job'[j].status = job[j].status, Holders(j)' = Holders(j)
    PROVE  Phase(j)' = Phase(j)
<1>1. job[j].status \in {"ABSENT", "PENDING", "PROCESSING"} \cup Terminal
  BY DEF TypeOK, JobRow, Status
<1> QED
  BY <1>1, PhaseFacts, NextPhaseFacts

(* The executor of a job is its holder, the only one, and holds no other.   *)
LEMMA ExecutorHolds ==
    ASSUME TypeInv, ExclusiveExecution, NEW w \in Worker, pc[w] \in Owning
    PROVE  /\ exec[w].job \in Job
           /\ Holders(exec[w].job) = {w}
           /\ Phase(exec[w].job) = "held"
           /\ \A k \in Job : w \in Holders(k) => k = exec[w].job
<1>1. exec[w].job \in Job /\ Executing(w, exec[w].job)
  BY DEF TypeInv, BusyHasJob, Busy, Idle, Owning, Executing
<1>2. Holders(exec[w].job) = {w}
  BY <1>1, OneExecutor DEF Holders
<1>3. Phase(exec[w].job) = "held"
  BY <1>1, <1>2, PhaseFacts DEF ExclusiveExecution
<1> QED
  BY <1>1, <1>2, <1>3 DEF Holders, Executing

(* Steps that change neither a status nor an executor are stutters.         *)
LEMMA LeaseStutters ==
    ASSUME TypeOK,
           \A j \in Job : job'[j].status = job[j].status,
           \A w \in Worker, j \in Job : Executing(w, j)' <=> Executing(w, j)
    PROVE  UNCHANGED Lease!vars
<1>1. \A j \in Job : Holders(j)' = Holders(j)
  BY DEF Holders
<1>2. \A j \in Job : Phase(j)' = Phase(j)
  BY <1>1, SamePhase
<1> QED
  BY <1>1, <1>2 DEF Lease!vars

(* The step of an executor that ends its execution: the job leaves          *)
(* PROCESSING (a release), or is left behind in it (it is abandoned).       *)
LEMMA LeaseEnds ==
    ASSUME TypeInv, ExclusiveExecution, NEW w \in Worker, pc[w] \in Owning,
           NEW k \in Job, exec[w].job = k,
           \A v \in Worker, j \in Job : Executing(v, j)' <=> v # w /\ Executing(v, j),
           \A j \in Job : j # k => job'[j].status = job[j].status,
           job'[k].status \in {"PENDING", "PROCESSING"} \cup Terminal
    PROVE  Lease!Next
<1>1. /\ k \in Job
      /\ Holders(k) = {w}
      /\ Phase(k) = "held"
      /\ \A j \in Job : w \in Holders(j) => j = k
  BY ExecutorHolds
<1>2. Holders(k)' = {}
  BY <1>1 DEF Holders
<1>3. \A j \in Job : j # k => Holders(j)' = Holders(j)
  BY <1>1 DEF Holders
<1>4. \A j \in Job : j # k => Phase(j)' = Phase(j)
  BY <1>3, SamePhase DEF TypeInv
<1>5. [j \in Job |-> Holders(j)]' = [[j \in Job |-> Holders(j)] EXCEPT ![k] = {}]
  BY <1>1, <1>2, <1>3
<1>6. [j \in Job |-> Phase(j)]' = [[j \in Job |-> Phase(j)] EXCEPT ![k] = Phase(k)']
  BY <1>1, <1>4
<1>7. CASE job'[k].status \in {"PENDING"} \cup Terminal
  <2>1. Phase(k)' \in {"waiting", "settled"}
    BY <1>1, <1>7, NextPhaseFacts
  <2>2. Lease!Release(w, k)
    BY <1>1, <1>5, <1>6, <2>1 DEF Lease!Release
  <2> QED
    BY <1>1, <2>2 DEF Lease!Next
<1>8. CASE job'[k].status = "PROCESSING"
  <2>1. Phase(k)' = "lost"
    BY <1>1, <1>2, <1>8, NextPhaseFacts
  <2>2. Lease!Abandon(w, k)
    BY <1>1, <1>5, <1>6, <2>1 DEF Lease!Abandon
  <2> QED
    BY <1>1, <2>2 DEF Lease!Next
<1> QED
  BY <1>7, <1>8

(* An enqueue or a repair that takes effect is a submission.                *)
LEMMA LeaseSubmits ==
    ASSUME TypeOK, NEW j \in Job, NEW r \in JobRow, UpdateJob(j, r),
           job[j].status \in {"ABSENT"} \cup Terminal, r.status = "PENDING",
           UNCHANGED <<pc, exec>>
    PROVE  Lease!Next \/ UNCHANGED Lease!vars
<1>1. \A k \in Job : Holders(k)' = Holders(k)
  BY DEF Holders, Executing
<1>2. \A k \in Job \ {j} : job'[k] = job[k]
  BY UpdateJobEffect
<1>3. job'[j] = job[j] \/ job'[j].status = "PENDING"
  <2>1. [r EXCEPT !.gen = @ + 1].status = "PENDING"
    BY DEF JobRow
  <2> QED
    BY <2>1, UpdateJobEffect
<1>4. CASE job'[j] = job[j]
  BY <1>2, <1>4, LeaseStutters DEF Executing
<1>5. CASE job'[j].status = "PENDING"
  <2>1. Phase(j) \in {"absent", "settled"} /\ Phase(j)' = "waiting"
    BY <1>5, PhaseFacts, NextPhaseFacts
  <2>2. \A k \in Job : k # j => Phase(k)' = Phase(k)
    BY <1>1, <1>2, SamePhase
  <2>3. Lease!Submit(j)
    BY <1>1, <2>1, <2>2 DEF Lease!Submit
  <2> QED
    BY <2>3 DEF Lease!Next
<1> QED
  BY <1>3, <1>4, <1>5

(* Every step of the queue is a step of the lease or leaves it as it is.    *)
LEMMA LeaseStep ==
    ASSUME JobQueueAssumption, Faults = {}, TypeInv, TypeInv', ExclusiveExecution,
           ExclusiveExecution', [Next]_vars
    PROVE  Lease!Next \/ UNCHANGED Lease!vars
<1> USE DEF TypeInv
<1>u. CASE UNCHANGED vars
  BY <1>u, LeaseStutters DEF vars, Executing
<1>1. ASSUME NEW w \in Worker, RecoverStaleJobs(w) PROVE Lease!Next
  <2> DEFINE S == {j \in Job : Stuck(j)}
  <2>1. \A v \in Worker, j \in Job : Executing(v, j)' <=> Executing(v, j)
    BY <1>1 DEF RecoverStaleJobs, Executing, Goto, Owning, TypeOK
  <2>2. \A j \in Job : Holders(j)' = Holders(j)
    BY <2>1 DEF Holders
  <2>3. \A j \in Job \ S : Phase(j)' = Phase(j)
    BY <1>1, <2>2, RecoverType, SamePhase
  <2>4. ASSUME NEW j \in S PROVE Phase(j) = "lost" /\ Phase(j)' = "waiting"
    <3>1. Holders(j) = {}
      BY DEF Holders, ExclusiveExecution, Stuck
    <3>2. Phase(j) = "lost"
      BY <3>1, PhaseFacts DEF Stuck
    <3> DEFINE r == Released(job[j], "PENDING")
    <3>3. r \in JobRow /\ r.status = "PENDING"
      BY ReleasedType DEF TypeOK, Status, Terminal
    <3>4. job'[j] = [r EXCEPT !.recovered = @ + 1]
      BY <1>1, RecoverType
    <3> HIDE DEF r
    <3>5. job'[j].status = "PENDING"
      BY <3>3, <3>4 DEF JobRow
    <3> QED
      BY <3>2, <3>5, NextPhaseFacts
  <2>5. Lease!Reclaim(S)
    <3>1. \A j \in S : [i \in Job |-> Phase(i)][j] = "lost"
      BY <2>4
    <3>2. [i \in Job |-> Phase(i)]' =
             [j \in Job |-> IF j \in S THEN "waiting" ELSE [i \in Job |-> Phase(i)][j]]
      BY <2>3, <2>4
    <3>3. [i \in Job |-> Holders(i)]' = [i \in Job |-> Holders(i)]
      BY <2>2
    <3> QED
      BY <3>1, <3>2, <3>3 DEF Lease!Reclaim
  <2> QED
    BY <2>5 DEF Lease!Next
<1>2. ASSUME NEW w \in Worker, NEW j \in Job, ClaimNextJob(w, j) PROVE Lease!Next
  <2>1. Holders(j) = {} /\ Phase(j) = "waiting"
    BY <1>2, PhaseFacts DEF ClaimNextJob, Holders, ExclusiveExecution
  <2>2. \A k \in Job : w \notin Holders(k)
    BY <1>2 DEF ClaimNextJob, Holders, Executing, Owning
  <2>3. Executing(w, j)' /\ \A k \in Job : k # j => ~Executing(w, k)'
    BY <1>2 DEF ClaimNextJob, Executing, Goto, Owning, TypeOK
  <2>4. \A v \in Worker, k \in Job : v # w => (Executing(v, k)' <=> Executing(v, k))
    BY <1>2 DEF ClaimNextJob, Executing, Goto, TypeOK
  <2>5. Holders(j)' = {w}
    BY <2>1, <2>3, <2>4 DEF Holders
  <2>6. \A k \in Job : k # j => Holders(k)' = Holders(k)
    BY <2>2, <2>3, <2>4 DEF Holders
  <2>7. Phase(j)' = "held"
    <3>1. job'[j].status = "PROCESSING"
      BY <2>3 DEF ExclusiveExecution
    <3> QED
      BY <2>5, <3>1, NextPhaseFacts
  <2>8. \A k \in Job : k # j => Phase(k)' = Phase(k)
    BY <1>2, <2>6, SamePhase DEF ClaimNextJob, TypeOK
  <2>9. [k \in Job |-> Phase(k)]' = [[k \in Job |-> Phase(k)] EXCEPT ![j] = "held"]
    BY <2>7, <2>8
  <2>10. [k \in Job |-> Holders(k)]' = [[k \in Job |-> Holders(k)] EXCEPT ![j] = {w}]
    BY <2>5, <2>6
  <2>11. Lease!Take(w, j)
    BY <2>1, <2>2, <2>9, <2>10 DEF Lease!Take
  <2> QED
    BY <2>11 DEF Lease!Next
<1>3. ASSUME NEW w \in Worker,
             \/ NothingClaimed(w)
             \/ MarkInspectionStarted(w)
             \/ \E class \in Failures : HandlerFails(w, class)
             \/ CaptureOpenAttempt(w)
             \/ CompleteAttempts(w)
             \/ FinalizeFailedAttempt(w)
      PROVE  UNCHANGED Lease!vars
  <2>1. \A v \in Worker, k \in Job : Executing(v, k)' <=> Executing(v, k)
    BY <1>3 DEF NothingClaimed, MarkInspectionStarted, HandlerFails, CaptureOpenAttempt,
                CompleteAttempts, FinalizeFailedAttempt, BecomeIdle, Executing, Goto,
                Owning, TypeOK
  <2>2. UNCHANGED job
    BY <1>3 DEF NothingClaimed, MarkInspectionStarted, HandlerFails, CaptureOpenAttempt,
                CompleteAttempts, FinalizeFailedAttempt
  <2> QED
    BY <2>1, <2>2, LeaseStutters
<1>4. ASSUME NEW w \in Worker, CompleteJobRow(w) PROVE Lease!Next
  <2>1. PICK k \in Job : exec[w].job = k
    BY <1>4 DEF CompleteJobRow, BusyHasJob, Busy, Idle
  <2>2. \A v \in Worker, j \in Job : Executing(v, j)' <=> v # w /\ Executing(v, j)
    BY <1>4 DEF CompleteJobRow, Executing, Goto, Owning, TypeOK
  <2>3. job'[k] = Released(job[k], "COMPLETED") /\ \A j \in Job : j # k => job'[j] = job[j]
    BY <1>4, <2>1 DEF CompleteJobRow, TypeOK
  <2>4. job'[k].status = "COMPLETED"
    BY <2>3, ReleasedType DEF TypeOK, Status, Terminal
  <2> QED
    BY <1>4, <2>1, <2>2, <2>3, <2>4, LeaseEnds DEF CompleteJobRow, Owning, Terminal
<1>5. ASSUME NEW w \in Worker, CompleteCanary(w) PROVE Lease!Next
  <2>1. PICK k \in Job : exec[w].job = k
    BY <1>5 DEF CompleteCanary, BusyHasJob, Busy, Idle
  <2>2. \A v \in Worker, j \in Job : Executing(v, j)' <=> v # w /\ Executing(v, j)
    BY <1>5 DEF CompleteCanary, BecomeIdle, Executing, Owning, TypeOK
  <2>3. /\ job'[k] \in {job[k], Released(job[k], "COMPLETED")}
        /\ \A j \in Job : j # k => job'[j] = job[j]
    BY <1>5, <2>1 DEF CompleteCanary, TypeOK
  <2>4. job[k].status = "PROCESSING"
    BY <1>5, <2>1 DEF CompleteCanary, ExclusiveExecution, Executing, Owning
  <2>5. job'[k].status \in {"PROCESSING", "COMPLETED"}
    BY <2>3, <2>4, ReleasedType DEF TypeOK, Status, Terminal
  <2> QED
    BY <1>5, <2>1, <2>2, <2>3, <2>5, LeaseEnds DEF CompleteCanary, Owning, Terminal
<1>6. ASSUME NEW w \in Worker, FailTransition(w) PROVE Lease!Next
  <2>1. PICK k \in Job : exec[w].job = k
    BY <1>6 DEF FailTransition, BusyHasJob, Busy, Idle
  <2>2. \A v \in Worker, j \in Job : Executing(v, j)' <=> v # w /\ Executing(v, j)
    BY <1>6 DEF FailTransition, Executing, Goto, Owning, TypeOK
  <2>3. job[k].status \notin Terminal
    BY <1>6, <2>1 DEF FailTransition, ExclusiveExecution, Executing, Owning, Terminal
  <2>4. /\ Disposed(job[k], fail[w]) \in JobRow
        /\ Disposed(job[k], fail[w]).status \in {"FAILED", "PENDING"}
    BY DisposedType DEF TypeOK
  <2>5. UpdateJob(k, Disposed(job[k], fail[w]))
    BY <1>6, <2>1 DEF FailTransition
  <2>6. /\ job'[k] = Disposed(job[k], fail[w])
        /\ \A j \in Job : j # k => job'[j] = job[j]
    BY <2>3, <2>4, <2>5, UpdateJobEffect
  <2> QED
    BY <1>6, <2>1, <2>2, <2>4, <2>6, LeaseEnds DEF FailTransition, Owning, Terminal
<1>7. ASSUME NEW w \in Worker, Crash(w) PROVE Lease!Next \/ UNCHANGED Lease!vars
  <2>1. PICK k \in Job : exec[w].job = k
    BY <1>7 DEF Crash, BusyHasJob
  <2>2. \A v \in Worker, j \in Job : Executing(v, j)' <=> v # w /\ Executing(v, j)
    BY <1>7 DEF Crash, BecomeIdle, Executing, Owning, TypeOK
  <2>3. CASE pc[w] \in Owning
    <3>1. job'[k].status = "PROCESSING"
      BY <1>7, <2>1, <2>3 DEF Crash, ExclusiveExecution, Executing
    <3> QED
      BY <1>7, <2>1, <2>2, <2>3, <3>1, LeaseEnds DEF Crash
  <2>4. CASE pc[w] \notin Owning
    BY <1>7, <2>2, <2>4, LeaseStutters DEF Crash, Executing
  <2> QED
    BY <2>3, <2>4
<1>8. ASSUME NEW w \in Worker, Heartbeat(w) PROVE UNCHANGED Lease!vars
  <2>1. \A j \in Job : job'[j] \in {job[j], [job[j] EXCEPT !.stale = FALSE]}
    BY <1>8 DEF Heartbeat, TypeOK
  <2>2. \A j \in Job : job[j] \in JobRow
    BY DEF TypeOK
  <2>3. \A j \in Job : job'[j].status = job[j].status
    BY <2>1, <2>2 DEF JobRow
  <2> QED
    BY <1>8, <2>3, LeaseStutters DEF Heartbeat, Executing
<1>9. ASSUME NEW j \in Job, Enqueue(j) PROVE Lease!Next \/ UNCHANGED Lease!vars
  <2>1. FreshJob \in JobRow /\ FreshJob.status = "PENDING"
    BY DEF FreshJob, JobRow, Status, Anchor
  <2> DEFINE r == Released(job[j], "PENDING")
             s == [r EXCEPT !.attempts = 0, !.blocked = FALSE, !.recovered = 0]
  <2>2. r \in JobRow /\ r.status = "PENDING"
    BY ReleasedType DEF TypeOK, Status, Terminal
  <2>3. \/ job[j].status = "ABSENT" /\ UpdateJob(j, FreshJob)
        \/ job[j].status \in Terminal /\ UpdateJob(j, s)
    BY <1>9 DEF Enqueue, Reopenable
  <2>4. UNCHANGED <<pc, exec>>
    BY <1>9 DEF Enqueue
  <2> HIDE DEF r
  <2>5. s \in JobRow /\ s.status = "PENDING"
    BY <2>2, EditedType DEF JobRow
  <2> HIDE DEF s
  <2> QED
    BY <2>1, <2>3, <2>4, <2>5, LeaseSubmits
<1>10. ASSUME NEW j \in Job, RepairCapacityFailure(j)
       PROVE  Lease!Next \/ UNCHANGED Lease!vars
  <2> DEFINE r == Released(job[j], "PENDING")
             s == [r EXCEPT !.attempts = LessOneAttempt(@)]
  <2>1. r \in JobRow /\ r.status = "PENDING"
    BY ReleasedType DEF TypeOK, Status, Terminal
  <2>2. job[j].status \in Terminal /\ UpdateJob(j, s) /\ UNCHANGED <<pc, exec>>
    BY <1>10 DEF RepairCapacityFailure, Terminal
  <2> HIDE DEF r
  <2>3. s \in JobRow /\ s.status = "PENDING"
    BY <2>1, EditedType DEF JobRow
  <2> HIDE DEF s
  <2> QED
    BY <2>2, <2>3, LeaseSubmits
<1>11. ASSUME NEW j \in Job, ResetAnchor(j) \/ AnchorAges(j) \/ LeaseExpires(j)
       PROVE  UNCHANGED Lease!vars
  <2>1. \A k \in Job : job'[k] \in {job[k], [job[k] EXCEPT !.anchor = "none"],
                                   [job[k] EXCEPT !.anchor = "aged"],
                                   [job[k] EXCEPT !.stale = TRUE]}
    BY <1>11 DEF ResetAnchor, AnchorAges, LeaseExpires, TypeOK
  <2>2. \A k \in Job : job[k] \in JobRow
    BY DEF TypeOK
  <2>3. \A k \in Job : job'[k].status = job[k].status
    BY <2>1, <2>2 DEF JobRow
  <2> QED
    BY <1>11, <2>3, LeaseStutters DEF ResetAnchor, AnchorAges, LeaseExpires, Executing
<1>12. ASSUME NEW s \in Scope, ReopenEventAges(s) PROVE UNCHANGED Lease!vars
  BY <1>12, LeaseStutters DEF ReopenEventAges, Executing
<1>13. ASSUME NEW j \in Job, CancelByHumanRejection(j) PROVE FALSE
  BY <1>13 DEF CancelByHumanRejection
<1> QED
  BY <1>u, <1>1, <1>2, <1>3, <1>4, <1>5, <1>6, <1>7, <1>8, <1>9, <1>10, <1>11, <1>12,
     <1>13 DEF Next, Tick

(* Without those three disturbances the tables, triggers and worker loops   *)
(* implement the lease specification: only its holder settles or requeues a *)
(* job, and only a job whose holder died is given to another.               *)
THEOREM LeaseImplemented == ASSUME Faults = {} PROVE Spec => ImplementsLease
<1>1. Init => Lease!Init
  <2> SUFFICES ASSUME Init PROVE Lease!Init
    OBVIOUS
  <2>1. \A j \in Job : job[j].status = "ABSENT"
    BY DEF Init, FreshJob
  <2>2. \A j \in Job : Phase(j) = "absent"
    BY <2>1, PhaseFacts
  <2>3. \A j \in Job : Holders(j) = {}
    BY DEF Init, Holders, Executing, Owning
  <2> QED
    BY <2>2, <2>3 DEF Lease!Init
<1>2. Init => TypeInv /\ ExclusiveExecution
  BY TypeInit, JobQueueAssumption DEF Init, ExclusiveExecution, Executing, Owning
<1>3. TypeInv /\ ExclusiveExecution /\ [Next]_vars => (TypeInv /\ ExclusiveExecution)'
  BY TypeStep, ExclusiveStep, JobQueueAssumption
<1>4. TypeInv /\ ExclusiveExecution /\ (TypeInv /\ ExclusiveExecution)' /\ [Next]_vars
         => [Lease!Next]_(Lease!vars)
  BY LeaseStep, JobQueueAssumption
<1> QED
  BY <1>1, <1>2, <1>3, <1>4, PTL DEF Spec, ImplementsLease, Lease!Spec
-----------------------------------------------------------------------------
(* What a step may do to a job, a claim and the attempt table, under every   *)
(* disturbance.  The safety and action properties below follow from these   *)
(* cases.                                                                   *)

(* The row of a job that was never enqueued.                                *)
AbsentIsFresh ==
    \A j \in Job : job[j].status = "ABSENT" => job[j].attempts = 0 /\ job[j].gen = 0

Kept(j) ==
    /\ job'[j].status = job[j].status
    /\ job'[j].attempts = job[j].attempts
    /\ job'[j].gen = job[j].gen
    /\ job'[j].lockedBy = job[j].lockedBy

(* A canary job is settled as COMPLETED by the worker its fence lets through. *)
Settles(j) ==
    /\ job'[j].status \in Terminal
    /\ job'[j].attempts = job[j].attempts
    /\ job'[j].gen = job[j].gen
    /\ j \in CanaryJob /\ job[j].status # "COMPLETED" /\ job'[j].status = "COMPLETED"
         => \E w \in Worker : pc[w] = "running" /\ exec[w].job = j /\ OwnsCanary(w)

GivesBack(w) == pc[w] = "captured" /\ fail[w].class \notin {"terminal", "ordinary"}

Requeues(j) ==
    /\ job[j].status \notin Terminal
    /\ job'[j].status = "PENDING"
    /\ job'[j].gen = job[j].gen
    /\ job'[j].attempts = job[j].attempts \/ \E w \in Worker : GivesBack(w)

Reopens(j) ==
    /\ job[j].status \in Terminal
    /\ job'[j].status = "PENDING"
    /\ job'[j].gen = job[j].gen + 1

(* An UPDATE through the trigger keeps the row, writes it, or reopens it.   *)
LEMMA UpdateJobCases ==
    ASSUME TypeOK, NEW j \in Job, NEW r \in JobRow, UpdateJob(j, r)
    PROVE  \/ job'[j] = job[j]
           \/ job'[j] = r /\ ~(job[j].status \in Terminal /\ r.status = "PENDING")
           \/ /\ job[j].status \in Terminal
              /\ job'[j].status = "PENDING"
              /\ job'[j].gen = r.gen + 1
  BY DEF UpdateJob, TypeOK, JobRow

LEMMA JobCases ==
    ASSUME JobQueueAssumption, TypeInv, AbsentIsFresh, [Next]_vars, NEW k \in Job
    PROVE  \/ Kept(k) \/ Settles(k) \/ Requeues(k) \/ Reopens(k)
           \/ \E w \in Worker : ClaimNextJob(w, k)
<1> USE DEF TypeInv
<1>0. job \in [Job -> JobRow] /\ job[k] \in JobRow
  BY DEF TypeOK
<1>k. ASSUME job'[k] = job[k] PROVE Kept(k)
  BY <1>k DEF Kept
<1>u. CASE UNCHANGED vars
  BY <1>u, <1>k DEF vars
<1>1. ASSUME NEW w \in Worker, RecoverStaleJobs(w) PROVE Kept(k) \/ Requeues(k)
  <2> DEFINE r == Released(job[k], "PENDING")
  <2>1. /\ r \in JobRow /\ r.status = "PENDING"
        /\ r.attempts = job[k].attempts /\ r.gen = job[k].gen
    BY <1>0, ReleasedType DEF Status
  <2>2. job'[k] = IF Stuck(k) THEN [r EXCEPT !.recovered = @ + 1] ELSE job[k]
    BY <1>1, RecoverType
  <2> HIDE DEF r
  <2>3. CASE Stuck(k)
    BY <2>1, <2>2, <2>3 DEF Requeues, Stuck, Terminal, JobRow
  <2>4. CASE ~Stuck(k)
    BY <2>2, <2>4, <1>k
  <2> QED
    BY <2>3, <2>4
<1>2. ASSUME NEW w \in Worker, NEW j \in Job, ClaimNextJob(w, j)
      PROVE  Kept(k) \/ ClaimNextJob(w, k)
  BY <1>0, <1>2, <1>k DEF ClaimNextJob
<1>3. ASSUME NEW w \in Worker,
             \/ NothingClaimed(w)
             \/ MarkInspectionStarted(w)
             \/ \E class \in Failures : HandlerFails(w, class)
             \/ CaptureOpenAttempt(w)
             \/ CompleteAttempts(w)
             \/ FinalizeFailedAttempt(w)
             \/ Crash(w)
      PROVE  Kept(k)
  BY <1>3, <1>k DEF NothingClaimed, MarkInspectionStarted, HandlerFails, CaptureOpenAttempt,
                    CompleteAttempts, FinalizeFailedAttempt, Crash
<1>4. ASSUME NEW w \in Worker, CompleteJobRow(w) PROVE Kept(k) \/ Settles(k)
  <2>1. CASE exec[w].job = k
    <3>1. job'[k] = Released(job[k], "COMPLETED") /\ k \notin CanaryJob
      BY <1>0, <1>4, <2>1 DEF CompleteJobRow
    <3> QED
      BY <1>0, <3>1, ReleasedType DEF Settles, Status, Terminal
  <2>2. CASE exec[w].job # k
    BY <1>0, <1>4, <2>2, <1>k DEF CompleteJobRow
  <2> QED
    BY <2>1, <2>2
<1>5. ASSUME NEW w \in Worker, CompleteCanary(w) PROVE Kept(k) \/ Settles(k)
  <2>1. CASE exec[w].job = k /\ OwnsCanary(w)
    <3>1. job'[k] = Released(job[k], "COMPLETED") /\ pc[w] = "running"
      BY <1>0, <1>5, <2>1 DEF CompleteCanary
    <3> QED
      BY <1>0, <2>1, <3>1, ReleasedType DEF Settles, Status, Terminal
  <2>2. CASE ~(exec[w].job = k /\ OwnsCanary(w))
    BY <1>0, <1>5, <2>2, <1>k DEF CompleteCanary
  <2> QED
    BY <2>1, <2>2
<1>6. ASSUME NEW w \in Worker, FailTransition(w)
      PROVE  Kept(k) \/ Settles(k) \/ Requeues(k) \/ Reopens(k)
  <2>1. exec[w].job \in Job /\ pc[w] = "captured"
    BY <1>6 DEF FailTransition, BusyHasJob, Busy, Idle
  <2> DEFINE r == Disposed(job[exec[w].job], fail[w])
  <2>2. r \in JobRow /\ UpdateJob(exec[w].job, r)
    BY <1>6, <2>1, DisposedType DEF FailTransition, TypeOK
  <2>3. CASE exec[w].job # k
    BY <2>1, <2>2, <2>3, UpdateJobEffect, <1>k
  <2>4. CASE exec[w].job = k
    <3>1. /\ r.status = IF Exhausted(fail[w]) THEN "FAILED" ELSE "PENDING"
          /\ r.gen = job[k].gen
          /\ r.attempts = job[k].attempts \/ GivesBack(w)
      <4>1. fail[w] \in FailLocals
        BY DEF TypeOK
      <4> QED
        BY <1>0, <2>1, <2>4, <4>1, DisposedType DEF GivesBack, Exhausted
    <3> HIDE DEF r
    <3>2. \/ job'[k] = job[k]
          \/ job'[k] = r /\ ~(job[k].status \in Terminal /\ r.status = "PENDING")
          \/ /\ job[k].status \in Terminal
             /\ job'[k].status = "PENDING"
             /\ job'[k].gen = r.gen + 1
      BY <2>2, <2>4, UpdateJobCases
    <3>3. CASE job'[k] = r /\ Exhausted(fail[w])
      <4>1. r.attempts = job[k].attempts
        BY <1>0, <2>4, <3>3, DisposedType DEF r, TypeOK
      <4> QED
        BY <3>1, <3>3, <4>1 DEF Settles, Terminal
    <3>4. CASE job'[k] = r /\ ~Exhausted(fail[w])
              /\ ~(job[k].status \in Terminal /\ r.status = "PENDING")
      BY <3>1, <3>4 DEF Requeues
    <3> QED
      BY <1>k, <3>1, <3>2, <3>3, <3>4 DEF Reopens
  <2> QED
    BY <2>3, <2>4
<1>7. ASSUME NEW w \in Worker, Heartbeat(w) PROVE Kept(k)
  BY <1>0, <1>7 DEF Heartbeat, Kept, JobRow
<1>8. ASSUME NEW j \in Job, ResetAnchor(j) \/ AnchorAges(j) \/ LeaseExpires(j) PROVE Kept(k)
  BY <1>0, <1>8 DEF ResetAnchor, AnchorAges, LeaseExpires, Kept, JobRow
<1>9. ASSUME NEW j \in Job, CancelByHumanRejection(j) PROVE Kept(k) \/ Settles(k)
  <2>1. CASE j = k
    <3> DEFINE r == Released(job[k], "FAILED")
    <3>1. r \in JobRow /\ r.status = "FAILED" /\ r.attempts = job[k].attempts /\ r.gen = job[k].gen
      BY <1>0, ReleasedType DEF Status, Terminal
    <3>2. job'[k] = [r EXCEPT !.blocked = FALSE]
      BY <1>0, <1>9, <2>1 DEF CancelByHumanRejection
    <3> HIDE DEF r
    <3> QED
      BY <3>1, <3>2 DEF Settles, Terminal, JobRow
  <2>2. CASE j # k
    BY <1>0, <1>9, <2>2, <1>k DEF CancelByHumanRejection
  <2> QED
    BY <2>1, <2>2
<1>10. ASSUME NEW j \in Job, Enqueue(j) PROVE Kept(k) \/ Requeues(k) \/ Reopens(k)
  <2> DEFINE p == Released(job[j], "PENDING")
             r == [p EXCEPT !.attempts = 0, !.blocked = FALSE, !.recovered = 0]
  <2>1. p \in JobRow /\ p.status = "PENDING" /\ p.gen = job[j].gen
    BY ReleasedType DEF TypeOK, Status
  <2>2. FreshJob \in JobRow /\ FreshJob.status = "PENDING" /\ FreshJob.attempts = 0
          /\ FreshJob.gen = 0
    BY DEF FreshJob, JobRow, Status, Anchor
  <2>3. \/ job[j].status = "ABSENT" /\ UpdateJob(j, FreshJob)
        \/ job[j].status \in Terminal /\ UpdateJob(j, r)
    BY <1>10 DEF Enqueue, Reopenable
  <2> HIDE DEF p
  <2>4. r \in JobRow /\ r.status = "PENDING" /\ r.gen = job[j].gen
    BY <2>1, EditedType DEF JobRow
  <2> HIDE DEF r
  <2>5. CASE j # k
    BY <2>2, <2>3, <2>4, <2>5, UpdateJobEffect, <1>k
  <2>6. CASE j = k /\ job[j].status = "ABSENT" /\ UpdateJob(j, FreshJob)
    <3>1. job'[k] = FreshJob \/ job'[k] = job[k]
      BY <2>2, <2>6, UpdateJobCases DEF Terminal
    <3> QED
      BY <2>2, <2>6, <3>1, <1>k DEF Requeues, AbsentIsFresh, Terminal
  <2>7. CASE j = k /\ job[j].status \in Terminal /\ UpdateJob(j, r)
    <3>1. \/ job'[k] = job[k]
          \/ /\ job[k].status \in Terminal
             /\ job'[k].status = "PENDING"
             /\ job'[k].gen = r.gen + 1
      BY <2>4, <2>7, UpdateJobCases
    <3> QED
      BY <2>4, <2>7, <3>1, <1>k DEF Reopens
  <2> QED
    BY <2>3, <2>5, <2>6, <2>7
<1>11. ASSUME NEW j \in Job, RepairCapacityFailure(j) PROVE Kept(k) \/ Reopens(k)
  <2> DEFINE p == Released(job[j], "PENDING")
             r == [p EXCEPT !.attempts = LessOneAttempt(@)]
  <2>1. p \in JobRow /\ p.status = "PENDING" /\ p.gen = job[j].gen
    BY ReleasedType DEF TypeOK, Status
  <2>2. job[j].status \in Terminal /\ UpdateJob(j, r)
    BY <1>11 DEF RepairCapacityFailure, Terminal
  <2> HIDE DEF p
  <2>3. r \in JobRow /\ r.status = "PENDING" /\ r.gen = job[j].gen
    BY <2>1, EditedType DEF JobRow
  <2> HIDE DEF r
  <2>4. CASE j # k
    BY <2>2, <2>3, <2>4, UpdateJobEffect, <1>k
  <2>5. CASE j = k
    <3>1. \/ job'[k] = job[k]
          \/ /\ job[k].status \in Terminal
             /\ job'[k].status = "PENDING"
             /\ job'[k].gen = r.gen + 1
      BY <2>2, <2>3, <2>5, UpdateJobCases
    <3> QED
      BY <2>3, <2>5, <3>1, <1>k DEF Reopens
  <2> QED
    BY <2>4, <2>5
<1>12. ASSUME NEW s \in Scope, ReopenEventAges(s) PROVE Kept(k)
  BY <1>12, <1>k DEF ReopenEventAges
<1> QED
  BY <1>u, <1>1, <1>2, <1>3, <1>4, <1>5, <1>6, <1>7, <1>8, <1>9, <1>10, <1>11, <1>12
     DEF Next, Tick

(* A worker that is busy after a step works on the claim it had, unless the *)
(* step is its claim.                                                       *)
LEMMA WorkerCases ==
    ASSUME TypeInv, [Next]_vars, NEW v \in Worker, Busy(v)'
    PROVE  \/ Busy(v) /\ exec'[v] = exec[v]
           \/ \E j \in Job : ClaimNextJob(v, j)
<1> USE DEF TypeInv, TypeOK, Busy, Idle
<1>u. CASE UNCHANGED vars
  BY <1>u DEF vars
<1>1. ASSUME NEW w \in Worker, NEW j \in Job, ClaimNextJob(w, j)
      PROVE  (Busy(v) /\ exec'[v] = exec[v]) \/ ClaimNextJob(v, j)
  BY <1>1 DEF ClaimNextJob, Goto
<1>2. ASSUME NEW w \in Worker,
             \/ RecoverStaleJobs(w)
             \/ NothingClaimed(w)
             \/ MarkInspectionStarted(w)
             \/ CompleteJobRow(w)
             \/ \E class \in Failures : HandlerFails(w, class)
             \/ CaptureOpenAttempt(w)
             \/ FailTransition(w)
      PROVE  Busy(v) /\ exec'[v] = exec[v]
  BY <1>2 DEF RecoverStaleJobs, NothingClaimed, MarkInspectionStarted, CompleteJobRow,
              HandlerFails, CaptureOpenAttempt, FailTransition, Goto
<1>3. ASSUME NEW w \in Worker,
             \/ CompleteAttempts(w)
             \/ CompleteCanary(w)
             \/ FinalizeFailedAttempt(w)
             \/ Crash(w)
      PROVE  Busy(v) /\ exec'[v] = exec[v]
  BY <1>3 DEF CompleteAttempts, CompleteCanary, FinalizeFailedAttempt, Crash, BecomeIdle
<1>4. ASSUME NEW w \in Worker, Heartbeat(w) PROVE Busy(v) /\ exec'[v] = exec[v]
  BY <1>4 DEF Heartbeat
<1>5. ASSUME NEW j \in Job,
             \/ Enqueue(j)
             \/ ResetAnchor(j)
             \/ CancelByHumanRejection(j)
             \/ RepairCapacityFailure(j)
             \/ LeaseExpires(j)
             \/ AnchorAges(j)
      PROVE  Busy(v) /\ exec'[v] = exec[v]
  BY <1>5 DEF Enqueue, ResetAnchor, CancelByHumanRejection, RepairCapacityFailure,
              LeaseExpires, AnchorAges
<1>6. ASSUME NEW s \in Scope, ReopenEventAges(s) PROVE Busy(v) /\ exec'[v] = exec[v]
  BY <1>6 DEF ReopenEventAges
<1> QED
  BY <1>u, <1>1, <1>2, <1>3, <1>4, <1>5, <1>6 DEF Next, Tick

(* Only a claim adds an attempt row, and no step changes whose attempt a row *)
(* is.                                                                      *)
SameAttempts ==
    /\ DOMAIN attempt' = DOMAIN attempt
    /\ \A n \in DOMAIN attempt : /\ attempt'[n].job = attempt[n].job
                                 /\ attempt'[n].number = attempt[n].number
                                 /\ attempt'[n].gen = attempt[n].gen

LEMMA AttemptCases ==
    ASSUME TypeInv, [Next]_vars
    PROVE  SameAttempts \/ \E w \in Worker, j \in Job : ClaimNextJob(w, j)
<1> USE DEF TypeInv
<1>0. attempt \in Seq(AttemptRow)
  BY DEF TypeOK
<1>k. ASSUME UNCHANGED attempt PROVE SameAttempts
  BY <1>k DEF SameAttempts
<1>f. ASSUME NEW S, NEW s \in {"COMPLETED", "FAILED"}, Finish(S, s) PROVE SameAttempts
  BY <1>0, <1>f, FinishKeepsRows DEF SameAttempts
<1>u. CASE UNCHANGED vars
  BY <1>u, <1>k DEF vars
<1>1. ASSUME NEW w \in Worker, RecoverStaleJobs(w) PROVE SameAttempts
  BY <1>1, <1>f DEF RecoverStaleJobs
<1>2. ASSUME NEW w \in Worker, MarkInspectionStarted(w) PROVE SameAttempts
  <2>1. DOMAIN attempt' = DOMAIN attempt
    BY <1>2 DEF MarkInspectionStarted
  <2>2. ASSUME NEW n \in DOMAIN attempt
        PROVE  /\ attempt'[n].job = attempt[n].job
               /\ attempt'[n].number = attempt[n].number
               /\ attempt'[n].gen = attempt[n].gen
    <3>1. attempt[n] \in AttemptRow
      BY <1>0
    <3>2. attempt'[n] = attempt[n] \/ attempt'[n] = [attempt[n] EXCEPT !.marked = TRUE]
      BY <1>2 DEF MarkInspectionStarted
    <3> QED
      BY <3>1, <3>2 DEF AttemptRow
  <2> QED
    BY <2>1, <2>2 DEF SameAttempts
<1>3. ASSUME NEW w \in Worker, CompleteAttempts(w) PROVE SameAttempts
  BY <1>3, <1>f DEF CompleteAttempts
<1>4. ASSUME NEW w \in Worker, CompleteCanary(w) PROVE SameAttempts
  BY <1>4, <1>f, <1>k DEF CompleteCanary
<1>5. ASSUME NEW w \in Worker, FinalizeFailedAttempt(w) PROVE SameAttempts
  BY <1>5, <1>f DEF FinalizeFailedAttempt
<1>6. ASSUME NEW w \in Worker,
             \/ NothingClaimed(w)
             \/ CompleteJobRow(w)
             \/ \E class \in Failures : HandlerFails(w, class)
             \/ CaptureOpenAttempt(w)
             \/ FailTransition(w)
             \/ Heartbeat(w)
             \/ Crash(w)
      PROVE  SameAttempts
  BY <1>6, <1>k DEF NothingClaimed, CompleteJobRow, HandlerFails, CaptureOpenAttempt,
                    FailTransition, Heartbeat, Crash
<1>7. ASSUME NEW j \in Job,
             \/ Enqueue(j)
             \/ ResetAnchor(j)
             \/ CancelByHumanRejection(j)
             \/ RepairCapacityFailure(j)
             \/ LeaseExpires(j)
             \/ AnchorAges(j)
      PROVE  SameAttempts
  BY <1>7, <1>k DEF Enqueue, ResetAnchor, CancelByHumanRejection, RepairCapacityFailure,
                    LeaseExpires, AnchorAges
<1>8. ASSUME NEW s \in Scope, ReopenEventAges(s) PROVE SameAttempts
  BY <1>8, <1>k DEF ReopenEventAges
<1> QED
  BY <1>u, <1>1, <1>2, <1>3, <1>4, <1>5, <1>6, <1>7, <1>8 DEF Next, Tick

(* A job that was never enqueued keeps its fresh row: TypeInv with this is   *)
(* the invariant that the cases of a job rest on.                           *)
RowInv == TypeInv /\ AbsentIsFresh

LEMMA RowInit == JobQueueAssumption /\ Init => RowInv
  BY TypeInit DEF RowInv, AbsentIsFresh, Init, FreshJob

LEMMA RowStep == JobQueueAssumption /\ RowInv /\ [Next]_vars => RowInv'
<1> SUFFICES ASSUME JobQueueAssumption, RowInv, [Next]_vars PROVE RowInv'
  OBVIOUS
<1>1. TypeInv'
  BY TypeStep DEF RowInv
<1>2. ASSUME NEW k \in Job, job'[k].status = "ABSENT"
      PROVE  job'[k].attempts = 0 /\ job'[k].gen = 0
  <2>1. ASSUME NEW w \in Worker, ClaimNextJob(w, k) PROVE FALSE
    BY <1>2, <2>1 DEF ClaimNextJob, RowInv, TypeInv, TypeOK, JobRow
  <2>2. Kept(k)
    BY <1>2, <2>1, JobCases DEF RowInv, Settles, Requeues, Reopens, Terminal
  <2> QED
    BY <1>2, <2>2 DEF Kept, RowInv, AbsentIsFresh
<1> QED
  BY <1>1, <1>2 DEF RowInv, AbsentIsFresh
-----------------------------------------------------------------------------
(* A job leaves a terminal status exactly when its generation goes up by    *)
(* one, under every disturbance: the trigger's numbering of reopens.        *)
THEOREM Generations == Spec => GenerationPerReopen
<1>1. Init => RowInv
  BY RowInit, JobQueueAssumption
<1>2. RowInv /\ [Next]_vars => RowInv'
  BY RowStep, JobQueueAssumption
<1>3. ASSUME RowInv, [Next]_vars, NEW k \in Job
      PROVE  /\ job'[k].gen \in {job[k].gen, job[k].gen + 1}
             /\ job'[k].gen > job[k].gen <=>
                   job[k].status \in Terminal /\ job'[k].status \notin Terminal
  <2>1. job[k].gen \in Nat
    BY <1>3 DEF RowInv, TypeInv, TypeOK, JobRow
  <2>2. ASSUME NEW w \in Worker, ClaimNextJob(w, k)
        PROVE  job'[k].gen = job[k].gen /\ job[k].status \notin Terminal
    BY <1>3, <2>2 DEF ClaimNextJob, RowInv, TypeInv, TypeOK, JobRow, Terminal
  <2> QED
    BY <1>3, <2>1, <2>2, JobCases, JobQueueAssumption
       DEF RowInv, Kept, Settles, Requeues, Reopens, Terminal
<1>4. RowInv /\ [Next]_vars =>
         [\A j \in Job :
             /\ job'[j].gen \in {job[j].gen, job[j].gen + 1}
             /\ job'[j].gen > job[j].gen <=>
                   job[j].status \in Terminal /\ job'[j].status \notin Terminal]_vars
  BY <1>3
<1> QED
  BY <1>1, <1>2, <1>4, PTL DEF Spec, GenerationPerReopen
-----------------------------------------------------------------------------
(* The rows of a job a claim leaves: its own new row is the last.           *)
LEMMA RowsAfterClaim ==
    ASSUME TypeInv, NEW w \in Worker, NEW j \in Job, ClaimNextJob(w, j), NEW k \in Job
    PROVE  /\ Len(attempt) + 1 \in DOMAIN attempt'
           /\ DOMAIN attempt' = DOMAIN attempt \cup {Len(attempt) + 1}
           /\ \A n \in DOMAIN attempt : attempt'[n] = attempt[n] /\ n < Len(attempt) + 1
           /\ attempt'[Len(attempt) + 1] = ClaimRow(j)
           /\ RowsOf(k)' = IF k = j THEN RowsOf(k) \cup {Len(attempt) + 1} ELSE RowsOf(k)
<1>1. attempt \in Seq(AttemptRow) /\ Len(attempt) \in Nat /\ DOMAIN attempt = 1..Len(attempt)
  BY DEF TypeInv, TypeOK
<1>2. /\ attempt' \in Seq(AttemptRow)
      /\ Len(attempt') = Len(attempt) + 1
      /\ \A n \in DOMAIN attempt : attempt'[n] = attempt[n]
      /\ attempt'[Len(attempt) + 1] = ClaimRow(j)
  BY ClaimType
<1>3. DOMAIN attempt' = DOMAIN attempt \cup {Len(attempt) + 1}
  BY <1>1, <1>2
<1>4. ClaimRow(j).job = j
  BY DEF ClaimRow
<1> QED
  BY <1>1, <1>2, <1>3, <1>4 DEF RowsOf

(* The claim of a job that stays PROCESSING remains its newest attempt, and *)
(* a claim of the job is its newest attempt.                                *)
LEMMA LeaseNamesStep ==
    ASSUME JobQueueAssumption, RowInv, LeaseNamesNewestClaim, [Next]_vars
    PROVE  LeaseNamesNewestClaim'
<1> USE DEF RowInv
<1> SUFFICES ASSUME NEW k \in Job, job'[k].status = "PROCESSING"
             PROVE  \E n \in RowsOf(k)' :
                       /\ IsNewest(n, RowsOf(k))'
                       /\ attempt'[n].number = job'[k].attempts
                       /\ attempt'[n].gen = job'[k].gen
                       /\ \A v \in Worker :
                             Busy(v)' /\ exec'[v].job = k /\ job'[k].lockedBy = v
                                => exec'[v].row = n
  BY DEF LeaseNamesNewestClaim, IsNewest
<1>0. job[k] \in JobRow
  BY DEF TypeInv, TypeOK
<1>1. CASE Kept(k)
  <2>1. PICK n \in RowsOf(k) :
           /\ IsNewest(n, RowsOf(k))
           /\ attempt[n].number = job[k].attempts
           /\ attempt[n].gen = job[k].gen
           /\ \A v \in Worker :
                 Busy(v) /\ exec[v].job = k /\ job[k].lockedBy = v => exec[v].row = n
    BY <1>1 DEF Kept, LeaseNamesNewestClaim
  <2>2. ASSUME NEW w \in Worker, ClaimNextJob(w, k) PROVE FALSE
    BY <1>1, <2>2 DEF ClaimNextJob, Kept
  <2>3. /\ RowsOf(k)' = RowsOf(k)
        /\ attempt'[n].number = attempt[n].number
        /\ attempt'[n].gen = attempt[n].gen
    <3>1. CASE SameAttempts
      BY <3>1 DEF SameAttempts, RowsOf
    <3>2. ASSUME NEW w \in Worker, NEW j \in Job, ClaimNextJob(w, j)
          PROVE  /\ RowsOf(k)' = RowsOf(k)
                 /\ attempt'[n] = attempt[n]
      <4>1. j # k
        BY <2>2, <3>2
      <4>2. n \in DOMAIN attempt
        BY DEF RowsOf
      <4> QED
        BY <3>2, <4>1, <4>2, RowsAfterClaim
    <3> QED
      BY <3>1, <3>2, AttemptCases
  <2>4. ASSUME NEW v \in Worker, Busy(v)', exec'[v].job = k, job'[k].lockedBy = v
        PROVE  exec'[v].row = n
    <3>1. ASSUME NEW j \in Job, ClaimNextJob(v, j) PROVE FALSE
      <4>1. j = k
        BY <2>4, <3>1 DEF ClaimNextJob, TypeInv, TypeOK
      <4> QED
        BY <2>2, <3>1, <4>1
    <3>2. Busy(v) /\ exec'[v] = exec[v]
      BY <2>4, <3>1, WorkerCases
    <3> QED
      BY <1>1, <2>1, <2>4, <3>2 DEF Kept
  <2> QED
    BY <1>1, <2>1, <2>3, <2>4 DEF Kept, IsNewest
<1>2. ASSUME NEW w \in Worker, ClaimNextJob(w, k)
      PROVE  \E n \in RowsOf(k)' :
                       /\ IsNewest(n, RowsOf(k))'
                       /\ attempt'[n].number = job'[k].attempts
                       /\ attempt'[n].gen = job'[k].gen
                       /\ \A v \in Worker :
                             Busy(v)' /\ exec'[v].job = k /\ job'[k].lockedBy = v
                                => exec'[v].row = n
  <2>0. PICK n \in Nat : n = Len(attempt) + 1
    BY DEF TypeInv, TypeOK
  <2>1. /\ RowsOf(k)' = RowsOf(k) \cup {n}
        /\ attempt'[n] = ClaimRow(k)
        /\ \A m \in RowsOf(k) : m \in Nat /\ m <= n
    BY <1>2, <2>0, RowsAfterClaim DEF RowsOf, TypeInv, TypeOK
  <2>2. /\ job'[k].attempts = job[k].attempts + 1
        /\ job'[k].gen = job[k].gen
        /\ job'[k].lockedBy = w
    BY <1>0, <1>2 DEF ClaimNextJob, TypeInv, TypeOK, JobRow
  <2>3. exec'[w].row = n
    BY <1>2, <2>0 DEF ClaimNextJob, TypeInv, TypeOK
  <2>4. ClaimRow(k).number = job[k].attempts + 1 /\ ClaimRow(k).gen = job[k].gen
    BY DEF ClaimRow
  <2>5. IsNewest(n, RowsOf(k))'
    BY <2>1 DEF IsNewest
  <2> QED
    BY <2>1, <2>2, <2>3, <2>4, <2>5
<1> QED
  BY <1>1, <1>2, JobCases DEF Settles, Requeues, Reopens, Terminal

(* A PROCESSING job is in its newest attempt, and locked_by names a worker   *)
(* that is in that very claim, if it is busy with the job at all: under     *)
(* every disturbance.                                                       *)
THEOREM LeaseNames == Spec => []LeaseNamesNewestClaim
<1>1. Init => RowInv /\ LeaseNamesNewestClaim
  BY RowInit, JobQueueAssumption DEF Init, LeaseNamesNewestClaim, FreshJob
<1>2. RowInv /\ LeaseNamesNewestClaim /\ [Next]_vars => (RowInv /\ LeaseNamesNewestClaim)'
  BY RowStep, LeaseNamesStep, JobQueueAssumption
<1> QED
  BY <1>1, <1>2, PTL DEF Spec

(* The fence of a canary job lets only the claim it is in complete it, and  *)
(* no newer attempt exists then: under every disturbance.                   *)
THEOREM CanaryClaims == Spec => CanaryCompletedByItsClaim
<1>1. Init => RowInv /\ LeaseNamesNewestClaim
  BY RowInit, JobQueueAssumption DEF Init, LeaseNamesNewestClaim, FreshJob
<1>2. RowInv /\ LeaseNamesNewestClaim /\ [Next]_vars => (RowInv /\ LeaseNamesNewestClaim)'
  BY RowStep, LeaseNamesStep, JobQueueAssumption
<1>3. ASSUME RowInv, LeaseNamesNewestClaim, [Next]_vars, NEW k \in CanaryJob,
             job[k].status # "COMPLETED", job'[k].status = "COMPLETED"
      PROVE  \E w \in Worker : /\ exec[w].job = k
                               /\ job[k].lockedBy = w
                               /\ IsNewest(exec[w].row, RowsOf(k))
  <2>1. k \in Job /\ job[k] \in JobRow
    BY <1>3, JobQueueAssumption DEF JobQueueAssumption, RowInv, TypeInv, TypeOK
  <2>2. ASSUME NEW w \in Worker, ClaimNextJob(w, k) PROVE FALSE
    BY <1>3, <2>1, <2>2 DEF ClaimNextJob, RowInv, TypeInv, TypeOK, JobRow
  <2>3. Settles(k)
    BY <1>3, <2>1, <2>2, JobCases, JobQueueAssumption DEF RowInv, Kept, Requeues, Reopens
  <2>4. PICK w \in Worker : pc[w] = "running" /\ exec[w].job = k /\ OwnsCanary(w)
    BY <1>3, <2>3 DEF Settles
  <2>5. job[k].status = "PROCESSING" /\ job[k].lockedBy = w /\ Busy(w)
    BY <2>4 DEF OwnsCanary, Busy, Idle
  <2> QED
    BY <1>3, <2>1, <2>4, <2>5 DEF LeaseNamesNewestClaim
<1>4. RowInv /\ LeaseNamesNewestClaim /\ [Next]_vars =>
         [\A j \in CanaryJob :
             job[j].status # "COMPLETED" /\ job'[j].status = "COMPLETED" =>
                 \E w \in Worker : /\ exec[w].job = j
                                   /\ job[j].lockedBy = w
                                   /\ IsNewest(exec[w].row, RowsOf(j))]_vars
  BY <1>3
<1> QED
  BY <1>1, <1>2, <1>4, PTL DEF Spec, CanaryCompletedByItsClaim
-----------------------------------------------------------------------------
(* An UPDATE through the trigger counts a reopen only where the cap allows  *)
(* one more.                                                                *)
LEMMA UpdateJobCounts ==
    ASSUME JobQueueAssumption, TypeOK, NEW j \in Job, NEW r \in JobRow, UpdateJob(j, r)
    PROVE  \/ UNCHANGED recent
           \/ ~ReopenBlocked(j) /\ recent' = [recent EXCEPT ![ScopeOf[j]] = @ + 1]
  BY DEF UpdateJob

LEMMA CapStep ==
    ASSUME JobQueueAssumption, TypeInv, ReopensWithinCap, [Next]_vars
    PROVE  ReopensWithinCap'
<1> USE DEF TypeInv
<1>0. recent \in [Scope -> Nat] /\ MaxReopens \in Nat
  BY DEF TypeOK, JobQueueAssumption
<1>u. ASSUME UNCHANGED recent PROVE ReopensWithinCap'
  BY <1>u DEF ReopensWithinCap
<1>1. ASSUME NEW j \in Job, NEW r \in JobRow, UpdateJob(j, r) PROVE ReopensWithinCap'
  <2>1. CASE ~ReopenBlocked(j) /\ recent' = [recent EXCEPT ![ScopeOf[j]] = @ + 1]
    <3> SUFFICES ASSUME GuardEnabled, NEW k \in RetryJob \cup EnrichJob
                 PROVE  recent'[ScopeOf[k]] <= MaxReopens
      BY DEF ReopensWithinCap
    <3>1. k \in Job /\ ScopeOf[k] \in Scope /\ ScopeOf[j] \in Scope
      BY DEF JobQueueAssumption
    <3>2. CASE ScopeOf[k] = ScopeOf[j]
      <4>1. j \in RetryJob \cup EnrichJob
        BY <3>1, <3>2 DEF JobQueueAssumption
      <4>2. ~(recent[ScopeOf[j]] >= MaxReopens)
        BY <2>1, <4>1 DEF ReopenBlocked
      <4> QED
        BY <1>0, <2>1, <3>1, <3>2, <4>2
    <3>3. CASE ScopeOf[k] # ScopeOf[j]
      BY <1>0, <2>1, <3>1, <3>3 DEF ReopensWithinCap
    <3> QED
      BY <3>2, <3>3
  <2> QED
    BY <1>1, <1>u, <2>1, UpdateJobCounts
<1>2. ASSUME NEW w \in Worker, FailTransition(w) PROVE ReopensWithinCap'
  <2>1. exec[w].job \in Job
    BY <1>2 DEF FailTransition, BusyHasJob, Busy, Idle
  <2>2. Disposed(job[exec[w].job], fail[w]) \in JobRow
    BY <2>1, DisposedType DEF TypeOK
  <2> QED
    BY <1>1, <1>2, <2>1, <2>2 DEF FailTransition
<1>3. ASSUME NEW j \in Job, Enqueue(j) PROVE ReopensWithinCap'
  <2>1. FreshJob \in JobRow
    BY DEF FreshJob, JobRow, Status, Anchor
  <2>2. [Released(job[j], "PENDING") EXCEPT !.attempts = 0, !.blocked = FALSE,
                                            !.recovered = 0] \in JobRow
    BY ReleasedType, EditedType DEF TypeOK, Status
  <2> QED
    BY <1>1, <1>3, <2>1, <2>2 DEF Enqueue
<1>4. ASSUME NEW j \in Job, RepairCapacityFailure(j) PROVE ReopensWithinCap'
  <2>1. [Released(job[j], "PENDING") EXCEPT !.attempts = LessOneAttempt(@)] \in JobRow
    BY ReleasedType, EditedType DEF TypeOK, Status
  <2> QED
    BY <1>1, <1>4, <2>1 DEF RepairCapacityFailure
<1>5. ASSUME NEW s \in Scope, ReopenEventAges(s) PROVE ReopensWithinCap'
  <2>1. \A t \in Scope : recent'[t] <= recent[t]
    BY <1>0, <1>5 DEF ReopenEventAges
  <2>2. \A t \in Scope : recent'[t] \in Nat /\ recent[t] \in Nat
    BY <1>0, <1>5 DEF ReopenEventAges
  <2>3. \A k \in RetryJob \cup EnrichJob : ScopeOf[k] \in Scope
    BY DEF JobQueueAssumption
  <2> QED
    BY <1>0, <2>1, <2>2, <2>3 DEF ReopensWithinCap
<1>6. ASSUME NEW w \in Worker,
             \/ RecoverStaleJobs(w)
             \/ \E j \in Job : ClaimNextJob(w, j)
             \/ NothingClaimed(w)
             \/ MarkInspectionStarted(w)
             \/ CompleteJobRow(w)
             \/ CompleteAttempts(w)
             \/ CompleteCanary(w)
             \/ \E class \in Failures : HandlerFails(w, class)
             \/ CaptureOpenAttempt(w)
             \/ FinalizeFailedAttempt(w)
             \/ Heartbeat(w)
             \/ Crash(w)
      PROVE  UNCHANGED recent
  BY <1>6 DEF RecoverStaleJobs, ClaimNextJob, NothingClaimed, MarkInspectionStarted,
              CompleteJobRow, CompleteAttempts, CompleteCanary, HandlerFails,
              CaptureOpenAttempt, FinalizeFailedAttempt, Heartbeat, Crash
<1>7. ASSUME NEW j \in Job,
             \/ ResetAnchor(j)
             \/ CancelByHumanRejection(j)
             \/ LeaseExpires(j)
             \/ AnchorAges(j)
      PROVE  UNCHANGED recent
  BY <1>7 DEF ResetAnchor, CancelByHumanRejection, LeaseExpires, AnchorAges
<1> QED
  BY <1>u, <1>2, <1>3, <1>4, <1>5, <1>6, <1>7 DEF Next, Tick, vars

(* A guarded scope is reopened at most MaxReopens times within the window,  *)
(* whichever job of the scope is reopened, and by whatever statement.       *)
THEOREM ReopensCapped == Spec => []ReopensWithinCap
<1>1. Init => TypeInv /\ ReopensWithinCap
  <2> SUFFICES ASSUME Init PROVE TypeInv /\ ReopensWithinCap
    OBVIOUS
  <2>1. \A k \in RetryJob \cup EnrichJob : recent[ScopeOf[k]] = 0
    BY JobQueueAssumption DEF JobQueueAssumption, Init
  <2> QED
    BY <2>1, TypeInit, JobQueueAssumption DEF JobQueueAssumption, ReopensWithinCap
<1>2. TypeInv /\ ReopensWithinCap /\ [Next]_vars => (TypeInv /\ ReopensWithinCap)'
  BY TypeStep, CapStep, JobQueueAssumption
<1> QED
  BY <1>1, <1>2, PTL DEF Spec
-----------------------------------------------------------------------------
(* What identifies the attempt a worker works on, as long as no failure     *)
(* gives its attempt back: attempts then never decreases in a generation,   *)
(* so a number and a generation name one row, and a busy worker's claim     *)
(* names the row it inserted.                                               *)
NothingGivenBack == \A w \in Worker : fail[w].class \in {"terminal", "ordinary"}

NumbersWithin ==
    \A n \in DOMAIN attempt :
        LET j == attempt[n].job
        IN  /\ attempt[n].gen <= job[j].gen
            /\ attempt[n].gen = job[j].gen => attempt[n].number <= job[j].attempts

SameClaim(m, n) ==
    /\ attempt[m].job = attempt[n].job
    /\ attempt[m].number = attempt[n].number
    /\ attempt[m].gen = attempt[n].gen

NumbersIdentify == \A m, n \in DOMAIN attempt : SameClaim(m, n) => m = n

ClaimsOnRecord ==
    \A w \in Worker :
        Busy(w) => /\ exec[w].row \in DOMAIN attempt
                   /\ attempt[exec[w].row].job = exec[w].job
                   /\ attempt[exec[w].row].number = exec[w].number
                   /\ attempt[exec[w].row].gen = exec[w].gen

RecordInv ==
    RowInv /\ NothingGivenBack /\ NumbersWithin /\ NumbersIdentify /\ ClaimsOnRecord

(* The class of a failure is one of those that may happen.                  *)
LEMMA NothingGivenBackStep ==
    ASSUME TypeInv, NothingGivenBack, Failures \subseteq {"terminal", "ordinary"}, [Next]_vars
    PROVE  NothingGivenBack'
<1> USE DEF TypeInv, TypeOK, NothingGivenBack
<1>u. CASE UNCHANGED vars
  BY <1>u DEF vars
<1>1. ASSUME NEW w \in Worker, NEW class \in Failures, HandlerFails(w, class)
      PROVE  NothingGivenBack'
  BY <1>1 DEF HandlerFails
<1>2. ASSUME NEW w \in Worker, CaptureOpenAttempt(w) PROVE NothingGivenBack'
  BY <1>2, CaptureEffect
<1>3. ASSUME NEW w \in Worker,
             \/ CompleteAttempts(w)
             \/ CompleteCanary(w)
             \/ FinalizeFailedAttempt(w)
             \/ Crash(w)
      PROVE  NothingGivenBack'
  BY <1>3 DEF CompleteAttempts, CompleteCanary, FinalizeFailedAttempt, Crash, BecomeIdle,
              NoFailure
<1>4. ASSUME NEW w \in Worker,
             \/ RecoverStaleJobs(w)
             \/ \E j \in Job : ClaimNextJob(w, j)
             \/ NothingClaimed(w)
             \/ MarkInspectionStarted(w)
             \/ CompleteJobRow(w)
             \/ FailTransition(w)
             \/ Heartbeat(w)
      PROVE  NothingGivenBack'
  BY <1>4 DEF RecoverStaleJobs, ClaimNextJob, NothingClaimed, MarkInspectionStarted,
              CompleteJobRow, FailTransition, Heartbeat
<1>5. ASSUME NEW j \in Job,
             \/ Enqueue(j)
             \/ ResetAnchor(j)
             \/ CancelByHumanRejection(j)
             \/ RepairCapacityFailure(j)
             \/ LeaseExpires(j)
             \/ AnchorAges(j)
      PROVE  NothingGivenBack'
  BY <1>5 DEF Enqueue, ResetAnchor, CancelByHumanRejection, RepairCapacityFailure,
              LeaseExpires, AnchorAges
<1>6. ASSUME NEW s \in Scope, ReopenEventAges(s) PROVE NothingGivenBack'
  BY <1>6 DEF ReopenEventAges
<1> QED
  BY <1>u, <1>1, <1>2, <1>3, <1>4, <1>5, <1>6 DEF Next, Tick

(* No row is overtaken by its job: attempts only grows in a generation, and *)
(* a claim's new row has the new number.                                    *)
LEMMA NumbersWithinStep ==
    ASSUME JobQueueAssumption, RecordInv, [Next]_vars
    PROVE  NumbersWithin'
<1> USE DEF RecordInv, RowInv
<1>t. /\ attempt \in Seq(AttemptRow)
      /\ job \in [Job -> JobRow]
      /\ job' \in [Job -> JobRow]
  BY TypeStep DEF TypeInv, TypeOK
<1>0. ASSUME NEW n \in DOMAIN attempt
      PROVE  /\ attempt[n] \in AttemptRow
             /\ attempt[n].job \in Job /\ attempt[n].gen \in Nat /\ attempt[n].number \in Nat
  <2>1. attempt[n] \in AttemptRow
    BY <1>0, <1>t
  <2> QED
    BY <2>1 DEF AttemptRow
<1>1. ASSUME NEW k \in Job
      PROVE  /\ job[k].gen <= job'[k].gen
             /\ job[k].gen = job'[k].gen => job[k].attempts <= job'[k].attempts
  <2>1. /\ job[k].gen \in Nat /\ job[k].attempts \in Nat
        /\ job'[k].gen \in Nat /\ job'[k].attempts \in Nat
    BY <1>t DEF JobRow
  <2>2. ASSUME NEW w \in Worker, ClaimNextJob(w, k)
        PROVE  job'[k].gen = job[k].gen /\ job'[k].attempts = job[k].attempts + 1
    BY <1>t, <2>2 DEF ClaimNextJob, JobRow
  <2>3. \A w \in Worker : ~GivesBack(w)
    BY DEF GivesBack, NothingGivenBack
  <2> QED
    BY <2>1, <2>2, <2>3, JobCases DEF Kept, Settles, Requeues, Reopens
<1>2. ASSUME NEW n \in DOMAIN attempt, attempt'[n].job = attempt[n].job,
             attempt'[n].number = attempt[n].number, attempt'[n].gen = attempt[n].gen
      PROVE  /\ attempt'[n].gen <= job'[attempt'[n].job].gen
             /\ attempt'[n].gen = job'[attempt'[n].job].gen
                  => attempt'[n].number <= job'[attempt'[n].job].attempts
  <2> DEFINE k == attempt[n].job
  <2>1. k \in Job /\ attempt[n].gen \in Nat /\ attempt[n].number \in Nat
    BY <1>0
  <2>2. /\ attempt[n].gen <= job[k].gen
        /\ attempt[n].gen = job[k].gen => attempt[n].number <= job[k].attempts
    BY DEF NumbersWithin
  <2>3. /\ job[k].gen \in Nat /\ job[k].attempts \in Nat
        /\ job'[k].gen \in Nat /\ job'[k].attempts \in Nat
    BY <1>t, <2>1 DEF JobRow
  <2>4. /\ job[k].gen <= job'[k].gen
        /\ job[k].gen = job'[k].gen => job[k].attempts <= job'[k].attempts
    BY <1>1, <2>1
  <2> HIDE DEF k
  <2>5. attempt'[n].job = k
    BY <1>2 DEF k
  <2> QED
    BY <1>2, <2>1, <2>2, <2>3, <2>4, <2>5
<1>3. CASE SameAttempts
  BY <1>2, <1>3 DEF SameAttempts, NumbersWithin
<1>4. ASSUME NEW w \in Worker, NEW j \in Job, ClaimNextJob(w, j) PROVE NumbersWithin'
  <2>1. /\ attempt'[Len(attempt) + 1].job = j
        /\ attempt'[Len(attempt) + 1].number = job[j].attempts + 1
        /\ attempt'[Len(attempt) + 1].gen = job[j].gen
    <3>1. attempt'[Len(attempt) + 1] = ClaimRow(j)
      BY <1>4, RowsAfterClaim
    <3> QED
      BY <3>1 DEF ClaimRow
  <2>2. job'[j].gen = job[j].gen /\ job'[j].attempts = job[j].attempts + 1
    BY <1>4, <1>t DEF ClaimNextJob, JobRow
  <2>3. job[j].gen \in Nat /\ job[j].attempts + 1 \in Nat
    BY <1>t DEF JobRow
  <2>4. ASSUME NEW n \in DOMAIN attempt'
        PROVE  /\ attempt'[n].gen <= job'[attempt'[n].job].gen
               /\ attempt'[n].gen = job'[attempt'[n].job].gen
                    => attempt'[n].number <= job'[attempt'[n].job].attempts
    <3>1. CASE n \in DOMAIN attempt
      BY <1>2, <1>4, <3>1, RowsAfterClaim
    <3>2. CASE n = Len(attempt) + 1
      BY <2>1, <2>2, <2>3, <3>2
    <3> QED
      BY <1>4, <3>1, <3>2, RowsAfterClaim
  <2> QED
    BY <2>4 DEF NumbersWithin
<1> QED
  BY <1>3, <1>4, AttemptCases

(* A claim's number is new, so rows stay told apart, and a claim is on      *)
(* record in the row it inserts.                                            *)
LEMMA ClaimsIdentified ==
    ASSUME JobQueueAssumption, RecordInv, [Next]_vars
    PROVE  NumbersIdentify' /\ ClaimsOnRecord'
<1> USE DEF RecordInv, RowInv
<1>t. /\ attempt \in Seq(AttemptRow)
      /\ job \in [Job -> JobRow]
      /\ exec \in [Worker -> Claim]
  BY DEF TypeInv, TypeOK
<1>1. CASE SameAttempts
  <2>1. NumbersIdentify'
    BY <1>1 DEF SameAttempts, NumbersIdentify, SameClaim
  <2>2. ASSUME NEW v \in Worker, Busy(v)', Busy(v), exec'[v] = exec[v]
        PROVE  /\ exec'[v].row \in DOMAIN attempt'
               /\ attempt'[exec'[v].row].job = exec'[v].job
               /\ attempt'[exec'[v].row].number = exec'[v].number
               /\ attempt'[exec'[v].row].gen = exec'[v].gen
    BY <1>1, <2>2 DEF SameAttempts, ClaimsOnRecord
  <2>3. ASSUME NEW v \in Worker, NEW j \in Job, ClaimNextJob(v, j) PROVE FALSE
    BY <1>1, <1>t, <2>3, RowsAfterClaim DEF SameAttempts
  <2> QED
    BY <2>1, <2>2, <2>3, WorkerCases DEF ClaimsOnRecord
<1>2. ASSUME NEW w \in Worker, NEW j \in Job, ClaimNextJob(w, j)
      PROVE  NumbersIdentify' /\ ClaimsOnRecord'
  <2>0. PICK l \in Nat : l = Len(attempt) + 1
    BY <1>t
  <2>1. /\ l \in DOMAIN attempt'
        /\ DOMAIN attempt' = DOMAIN attempt \cup {l}
        /\ \A n \in DOMAIN attempt : attempt'[n] = attempt[n]
        /\ attempt'[l] = ClaimRow(j)
        /\ attempt'[l].job = j
        /\ attempt'[l].number = job[j].attempts + 1
        /\ attempt'[l].gen = job[j].gen
    <3>1. /\ l \in DOMAIN attempt'
          /\ DOMAIN attempt' = DOMAIN attempt \cup {l}
          /\ \A n \in DOMAIN attempt : attempt'[n] = attempt[n]
          /\ attempt'[l] = ClaimRow(j)
      BY <1>2, <2>0, RowsAfterClaim
    <3> QED
      BY <3>1 DEF ClaimRow
  <2>2. ASSUME NEW n \in DOMAIN attempt,
               attempt[n].job = j, attempt[n].number = job[j].attempts + 1,
               attempt[n].gen = job[j].gen
        PROVE  FALSE
    <3>1. job[j].attempts \in Nat
      BY <1>t DEF JobRow
    <3> QED
      BY <2>2, <3>1 DEF NumbersWithin
  <2>3. NumbersIdentify'
    <3> SUFFICES ASSUME NEW m \in DOMAIN attempt', NEW n \in DOMAIN attempt', SameClaim(m, n)'
                 PROVE  m = n
      BY DEF NumbersIdentify
    <3>1. CASE m = l /\ n \in DOMAIN attempt
      BY <2>1, <2>2, <3>1 DEF SameClaim
    <3>2. CASE n = l /\ m \in DOMAIN attempt
      BY <2>1, <2>2, <3>2 DEF SameClaim
    <3>3. CASE m \in DOMAIN attempt /\ n \in DOMAIN attempt
      BY <2>1, <3>3 DEF SameClaim, NumbersIdentify
    <3> QED
      BY <2>1, <3>1, <3>2, <3>3
  <2>4. ASSUME NEW v \in Worker, Busy(v)'
        PROVE  /\ exec'[v].row \in DOMAIN attempt'
               /\ attempt'[exec'[v].row].job = exec'[v].job
               /\ attempt'[exec'[v].row].number = exec'[v].number
               /\ attempt'[exec'[v].row].gen = exec'[v].gen
    <3>1. CASE v = w
      <4>1. exec'[w] = [job |-> j, number |-> job[j].attempts + 1,
                        gen |-> job[j].gen, row |-> l]
        BY <1>2, <1>t, <2>0 DEF ClaimNextJob
      <4> QED
        BY <2>1, <3>1, <4>1
    <3>2. CASE v # w
      <4>1. Busy(v) /\ exec'[v] = exec[v]
        BY <1>2, <1>t, <2>4, <3>2 DEF ClaimNextJob, Busy, Goto, TypeInv, TypeOK
      <4> QED
        BY <2>1, <4>1 DEF ClaimsOnRecord
    <3> QED
      BY <3>1, <3>2
  <2> QED
    BY <2>3, <2>4 DEF ClaimsOnRecord
<1> QED
  BY <1>1, <1>2, AttemptCases

LEMMA RecordStep ==
    ASSUME JobQueueAssumption, Failures \subseteq {"terminal", "ordinary"}, RecordInv,
           [Next]_vars
    PROVE  RecordInv'
  BY RowStep, NothingGivenBackStep, NumbersWithinStep, ClaimsIdentified DEF RecordInv, RowInv

(* The inspection marker lands on the attempt of the worker that writes it  *)
(* or on none, even when other leases were lost, as long as no failure gives *)
(* its attempt back.                                                        *)
THEOREM MarksOwnAttempt ==
    ASSUME Failures \subseteq {"terminal", "ordinary"}
    PROVE  Spec => MarksNoNewerAttempt
<1>1. Init => RecordInv
  <2> SUFFICES ASSUME Init PROVE RecordInv
    OBVIOUS
  <2>1. attempt = <<>> /\ DOMAIN attempt = {}
    BY DEF Init
  <2>2. \A w \in Worker : fail[w].class = "terminal" /\ ~Busy(w)
    BY DEF Init, NoFailure, Busy, Idle
  <2> QED
    BY <2>1, <2>2, RowInit, JobQueueAssumption
       DEF RecordInv, NothingGivenBack, NumbersWithin, NumbersIdentify, ClaimsOnRecord
<1>2. RecordInv /\ [Next]_vars => RecordInv'
  BY RecordStep, JobQueueAssumption
<1>3. ASSUME RecordInv, Next, NEW w \in Worker, pc[w] = "running", pc'[w] = "inspecting"
      PROVE  MarkInspectionStarted(w)
  <2> USE DEF RecordInv, RowInv, TypeInv, TypeOK
  <2>1. ASSUME NEW v \in Worker, MarkInspectionStarted(v) PROVE v = w
    BY <1>3, <2>1 DEF MarkInspectionStarted, Goto
  <2>2. ASSUME NEW v \in Worker,
               \/ RecoverStaleJobs(v)
               \/ \E j \in Job : ClaimNextJob(v, j)
               \/ NothingClaimed(v)
               \/ CompleteJobRow(v)
               \/ CompleteAttempts(v)
               \/ CompleteCanary(v)
               \/ \E class \in Failures : HandlerFails(v, class)
               \/ CaptureOpenAttempt(v)
               \/ FailTransition(v)
               \/ FinalizeFailedAttempt(v)
               \/ Heartbeat(v)
               \/ Crash(v)
        PROVE  FALSE
    BY <1>3, <2>2 DEF RecoverStaleJobs, ClaimNextJob, NothingClaimed, CompleteJobRow,
                      CompleteAttempts, CompleteCanary, HandlerFails, CaptureOpenAttempt,
                      FailTransition, FinalizeFailedAttempt, Heartbeat, Crash, BecomeIdle, Goto
  <2>3. ASSUME NEW j \in Job,
               \/ Enqueue(j)
               \/ ResetAnchor(j)
               \/ CancelByHumanRejection(j)
               \/ RepairCapacityFailure(j)
               \/ LeaseExpires(j)
               \/ AnchorAges(j)
        PROVE  FALSE
    BY <1>3, <2>3 DEF Enqueue, ResetAnchor, CancelByHumanRejection, RepairCapacityFailure,
                      LeaseExpires, AnchorAges
  <2>4. ASSUME NEW s \in Scope, ReopenEventAges(s) PROVE FALSE
    BY <1>3, <2>4 DEF ReopenEventAges
  <2> QED
    BY <1>3, <2>1, <2>2, <2>3, <2>4 DEF Next, Tick
<1>4. ASSUME RecordInv, Next, NEW w \in Worker, pc[w] = "running", pc'[w] = "inspecting",
             NEW n \in DOMAIN attempt, attempt'[n].marked, ~attempt[n].marked
      PROVE  n <= exec[w].row
  <2>1. MarkInspectionStarted(w)
    BY <1>3, <1>4
  <2>2. n \in MarkableRows(w)
    BY <1>4, <2>1 DEF MarkInspectionStarted
  <2>3. Busy(w)
    BY <1>4 DEF Busy, Idle
  <2>4. exec[w].row \in DOMAIN attempt /\ SameClaim(n, exec[w].row)
    BY <1>4, <2>2, <2>3 DEF MarkableRows, OpenRowsOf, RowsOf, SameClaim, RecordInv, ClaimsOnRecord
  <2>5. n = exec[w].row
    BY <1>4, <2>4 DEF RecordInv, NumbersIdentify
  <2>6. n \in Nat
    BY <1>4 DEF RecordInv, RowInv, TypeInv, TypeOK
  <2> QED
    BY <2>5, <2>6
<1>5. RecordInv /\ [Next]_vars =>
         [\A w \in Worker :
             pc[w] = "running" /\ pc'[w] = "inspecting" =>
                 \A n \in DOMAIN attempt :
                     attempt'[n].marked /\ ~attempt[n].marked => n <= exec[w].row]_vars
  BY <1>4
<1> QED
  BY <1>1, <1>2, <1>5, PTL DEF Spec, MarksNoNewerAttempt
=============================================================================
