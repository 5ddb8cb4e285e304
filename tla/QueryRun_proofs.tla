-------------------------- MODULE QueryRun_proofs --------------------------
(***************************************************************************)
(* Theorems about QueryRun, for any length of the chain, any effective     *)
(* maximum of pages, any number of attempts, of faults and of sweeps.      *)
(***************************************************************************)
EXTENDS QueryRun, TLAPS

RunRow == [status : {"absent", "SCHEDULED", "RUNNING", "RETRYING"} \cup Terminal,
           continuation : {"RUNNING", "DEFERRED", "COMPLETE", "FAILED"},
           pages : 0 .. MostPages, due : BOOLEAN, child : BOOLEAN]
Places == {"idle", "claimed", "recovering", "fetching", "recorded", "linking", "linked", "finishing", "closing"}
JobRow == [status : {"absent"} \cup Open \cup Terminal, attempts : 0 .. MaxAttempts, at : Places]
SweepRow == [at : {"idle", "read", "resuming", "resumed"}, run : Segments, pages : 0 .. MostPages, child : BOOLEAN]

There(s) == run[s].status # "absent"
HasJob(s, n) == job[<<s, n>>].status # "absent"

\* Page n may have a job: it is the first one, or the page before it went on.
Due(s, n) == n = 1 \/ page[<<s, n - 1>>] \in {"continue", "defer"}

\* An observation holds a decision that the page allowed.
DecisionsAllowed == \A s \in Segments, n \in Pages : Observed(s, n) => page[<<s, n>>] \in Decisions(s, n)

\* Runs have jobs, and jobs have observations, never the other way round.
RowsNested == \A s \in Segments, n \in Pages : /\ Observed(s, n) => HasJob(s, n)
                                               /\ HasJob(s, n) => There(s)

\* An execution that is about to link met the ceiling; one that has linked has a child.
LinksBacked == \A s \in Segments, n \in Pages : /\ At(s, n, "linking") => page[<<s, n>>] = "ceiling"
                                                /\ At(s, n, "linked") => run[s].child

\* The row a sweep read, and the failures still to be written, are those of runs that are
\* there; the count has not fallen since, and the page a sweep resumes may have a job.
Behind(row) == /\ There(row.run) /\ row.pages <= run[row.run].pages
               /\ row.at = "resuming" => row.pages + 1 \in Pages /\ Due(row.run, row.pages + 1)
SweepBehind == \A w \in Sweepers : sweep[w].at # "idle" => Behind(sweep[w])
FailuresOfRuns == \A f \in failures : There(f[1])

RunInv == /\ RunTypeOK /\ PagesInOrder /\ ContinuationsLinked
          /\ DecisionsAllowed /\ RowsNested /\ LinksBacked /\ SweepBehind /\ FailuresOfRuns

LEMMA TypeParts ==
  RunTypeOK <=> /\ run \in [Segments -> RunRow]
                /\ page \in [Segments \X Pages -> {"none", "continue", "stop", "defer", "ceiling"}]
                /\ job \in [Segments \X Pages -> JobRow]
                /\ failures \in SUBSET (Segments \X BOOLEAN)
                /\ sweep \in [Sweepers -> SweepRow] /\ faults \in 0 .. MaxFaults
BY DEF RunTypeOK, RunRow, JobRow, Places, SweepRow

LEMMA FirstSegment == 1 \in Segments
BY RunsAssumption DEF RunsAssumption, Segments

LEMMA NoRows == NoRun \in RunRow /\ Scheduled \in RunRow /\ NoJob \in JobRow /\ Queued \in JobRow /\ NotSwept \in SweepRow
<1>. USE RunsAssumption, FirstSegment DEF RunsAssumption
<1>1. NoRun \in RunRow BY DEF NoRun, RunRow
<1>5. Scheduled \in RunRow BY <1>1 DEF Scheduled, RunRow
<1>2. NoJob \in JobRow BY DEF NoJob, JobRow, Places
<1>3. Queued \in JobRow BY <1>2 DEF Queued, JobRow, Open
<1>4. NotSwept \in SweepRow BY DEF NotSwept, SweepRow
<1>. QED BY <1>1, <1>2, <1>3, <1>4, <1>5

LEMMA RunInvInit == RunInit => RunInv
<1>. SUFFICES ASSUME RunInit PROVE RunInv OBVIOUS
<1>1. RunTypeOK BY NoRows, TypeParts, RunsAssumption DEF RunInit, RunsAssumption
<1>2. \A s \in Segments : run[s] = NoRun BY DEF RunInit
<1>3. \A s \in Segments, n \in Pages : page[<<s, n>>] = "none" /\ job[<<s, n>>] = NoJob BY DEF RunInit
<1>4. \A s \in Segments, n \in Pages : ~Observed(s, n) BY <1>3 DEF Observed
<1>5. PagesInOrder
  <2>. SUFFICES ASSUME NEW s \in Segments, NEW n \in Pages
               PROVE /\ ~(n <= run[s].pages)
                     /\ ~(job[<<s, n>>].status # "absent")
                     /\ ~At(s, n, "fetching")
    BY <1>4 DEF PagesInOrder
  <2>1. run[s].pages = 0 BY <1>2 DEF NoRun
  <2>2. n \in Nat /\ n >= 1 BY RunsAssumption DEF Pages, RunsAssumption
  <2>3. job[<<s, n>>].status = "absent" BY <1>3 DEF NoJob
  <2>. QED BY <2>1, <2>2, <2>3 DEF At
<1>6. ContinuationsLinked BY <1>2 DEF ContinuationsLinked, NoRun
<1>7. DecisionsAllowed /\ RowsNested /\ LinksBacked
  BY <1>3, <1>4 DEF DecisionsAllowed, RowsNested, LinksBacked, HasJob, At, NoJob
<1>8. SweepBehind /\ FailuresOfRuns BY DEF RunInit, SweepBehind, FailuresOfRuns, NotSwept
<1>. QED BY <1>1, <1>5, <1>6, <1>7, <1>8 DEF RunInv

(***************************************************************************)
(* Steps that bring no run and no observation                              *)
(***************************************************************************)
RunsKept == \A s \in Segments : /\ run'[s].status = "absent" <=> run[s].status = "absent"
                                /\ run'[s].pages = run[s].pages
                                /\ run'[s].child = run[s].child

JobsDue ==
  \A s \in Segments, n \in Pages :
    /\ HasJob(s, n) => job'[<<s, n>>].status # "absent"
    /\ job'[<<s, n>>].status # "absent" => HasJob(s, n) \/ (There(s) /\ Due(s, n))
    /\ At(s, n, "fetching")' => At(s, n, "fetching") \/ ~Observed(s, n)
    /\ At(s, n, "linking")' => At(s, n, "linking") \/ page[<<s, n>>] = "ceiling"
    /\ At(s, n, "linked")' => At(s, n, "linked") \/ run[s].child

SweepKept == \A w \in Sweepers : sweep'[w] = sweep[w] \/ sweep'[w].at = "idle" \/ Behind(sweep'[w])
FailuresKept == \A f \in failures' : f \in failures \/ There(f[1])

LEMMA QuietStep ==
  ASSUME RunInv, RunTypeOK', page' = page, RunsKept, JobsDue, SweepKept, FailuresKept
  PROVE  RunInv'
<1>1. \A s \in Segments, n \in Pages : Observed(s, n)' <=> Observed(s, n) BY DEF Observed
<1>2. PagesInOrder'
  <2>. SUFFICES ASSUME NEW s \in Segments, NEW n \in Pages
               PROVE /\ Observed(s, n)' <=> n <= run'[s].pages
                     /\ job'[<<s, n>>].status # "absent" => n = 1 \/ page'[<<s, n - 1>>] \in {"continue", "defer"}
                     /\ At(s, n, "fetching")' => ~Observed(s, n)'
    BY DEF PagesInOrder
  <2>1. Observed(s, n)' <=> n <= run'[s].pages BY <1>1 DEF RunsKept, RunInv, PagesInOrder
  <2>2. job'[<<s, n>>].status # "absent" => n = 1 \/ page'[<<s, n - 1>>] \in {"continue", "defer"}
    BY DEF JobsDue, RunInv, PagesInOrder, HasJob, Due
  <2>3. At(s, n, "fetching")' => ~Observed(s, n)' BY <1>1 DEF JobsDue, RunInv, PagesInOrder
  <2>. QED BY <2>1, <2>2, <2>3
<1>3. ContinuationsLinked'
  <2>. SUFFICES ASSUME NEW s \in Segments
               PROVE /\ run'[s].child <=> s + 1 \in Segments /\ run'[s + 1].status # "absent"
                     /\ run'[s].child => Observed(s, run[s].pages)' /\ page'[<<s, run'[s].pages>>] = "ceiling"
    BY DEF ContinuationsLinked
  <2>1. run'[s].child <=> s + 1 \in Segments /\ run'[s + 1].status # "absent"
    BY DEF RunInv, ContinuationsLinked, RunsKept
  <2>2. run'[s].child => Observed(s, run[s].pages) /\ page[<<s, run[s].pages>>] = "ceiling"
    BY DEF RunInv, ContinuationsLinked, RunsKept
  <2>. QED BY <2>1, <2>2 DEF RunsKept, Observed
<1>4. DecisionsAllowed' BY <1>1 DEF RunInv, DecisionsAllowed
<1>5. RowsNested' BY <1>1 DEF RunInv, RowsNested, RunsKept, JobsDue, There, HasJob
<1>6. LinksBacked' BY DEF RunInv, LinksBacked, RunsKept, JobsDue
<1>7. SweepBehind'
  <2>. SUFFICES ASSUME NEW w \in Sweepers, sweep'[w].at # "idle"
               PROVE  /\ run'[sweep'[w].run].status # "absent" /\ sweep'[w].pages <= run'[sweep'[w].run].pages
                      /\ sweep'[w].at = "resuming" =>
                           sweep'[w].pages + 1 \in Pages /\ Due(sweep'[w].run, sweep'[w].pages + 1)
    BY DEF SweepBehind, Behind, There, Due
  <2>1. Behind(sweep'[w]) BY DEF SweepKept, RunInv, SweepBehind
  <2>2. sweep'[w].run \in Segments BY DEF RunTypeOK
  <2>. QED BY <2>1, <2>2 DEF Behind, RunsKept, There
<1>8. FailuresOfRuns'
  <2>. SUFFICES ASSUME NEW f \in failures' PROVE run'[f[1]].status # "absent" BY DEF FailuresOfRuns, There
  <2>1. f[1] \in Segments BY DEF RunTypeOK
  <2>2. There(f[1]) BY DEF FailuresKept, RunInv, FailuresOfRuns
  <2>. QED BY <2>1, <2>2 DEF RunsKept, There
<1>. QED BY <1>2, <1>3, <1>4, <1>5, <1>6, <1>7, <1>8 DEF RunInv

(***************************************************************************)
(* What a step does to one job and to one run                              *)
(***************************************************************************)
\* A job that is there is written, and is at a place its page allows.
LEMMA JobWritten ==
  ASSUME RunInv, NEW s \in Segments, NEW n \in Pages, NEW j \in JobRow,
         HasJob(s, n), j.status # "absent", job' = [job EXCEPT ![<<s, n>>] = j],
         j.status = "PROCESSING" /\ j.at = "fetching" => At(s, n, "fetching") \/ ~Observed(s, n),
         j.status = "PROCESSING" /\ j.at = "linking" => At(s, n, "linking") \/ page[<<s, n>>] = "ceiling",
         j.status = "PROCESSING" /\ j.at = "linked" => At(s, n, "linked") \/ run[s].child
  PROVE  job' \in [Segments \X Pages -> JobRow] /\ JobsDue
<1>1. job \in [Segments \X Pages -> JobRow] BY TypeParts DEF RunInv
<1>2. job' \in [Segments \X Pages -> JobRow] BY <1>1
<1>3. \A t \in Segments, m \in Pages :
        job'[<<t, m>>] = IF t = s /\ m = n THEN j ELSE job[<<t, m>>]
  BY <1>1
<1>4. JobsDue
  <2>. SUFFICES ASSUME NEW t \in Segments, NEW m \in Pages
               PROVE /\ HasJob(t, m) => job'[<<t, m>>].status # "absent"
                     /\ job'[<<t, m>>].status # "absent" => HasJob(t, m) \/ (There(t) /\ Due(t, m))
                     /\ At(t, m, "fetching")' => At(t, m, "fetching") \/ ~Observed(t, m)
                     /\ At(t, m, "linking")' => At(t, m, "linking") \/ page[<<t, m>>] = "ceiling"
                     /\ At(t, m, "linked")' => At(t, m, "linked") \/ run[t].child
    BY DEF JobsDue
  <2>1. CASE t = s /\ m = n BY <1>3, <2>1 DEF At, HasJob
  <2>2. CASE ~(t = s /\ m = n) BY <1>3, <2>2 DEF At, HasJob
  <2>. QED BY <2>1, <2>2
<1>. QED BY <1>2, <1>4

\* An execution goes on to another place.
LEMMA Moved ==
  ASSUME RunInv, NEW s \in Segments, NEW n \in Pages, NEW place \in Places,
         job[<<s, n>>].status = "PROCESSING", Goto(s, n, place),
         place = "fetching" => ~Observed(s, n),
         place = "linking" => page[<<s, n>>] = "ceiling",
         place = "linked" => run[s].child
  PROVE  job' \in [Segments \X Pages -> JobRow] /\ JobsDue
<1>. DEFINE j == [job[<<s, n>>] EXCEPT !.at = place]
<1>1. job \in [Segments \X Pages -> JobRow] BY TypeParts DEF RunInv
<1>2. job[<<s, n>>] \in JobRow BY <1>1
<1>3. j \in JobRow /\ j.status = "PROCESSING" /\ j.at = place BY <1>2 DEF JobRow
<1>4. job' = [job EXCEPT ![<<s, n>>] = j] BY <1>1 DEF Goto
<1>5. HasJob(s, n) BY DEF HasJob
<1>. HIDE DEF j
<1>. QED BY <1>3, <1>4, <1>5, JobWritten

\* A job is enqueued that may be there.
LEMMA EnqueuedRow ==
  ASSUME NEW j \in JobRow, NEW reopen \in BOOLEAN
  PROVE  Enqueued(j, reopen) \in JobRow /\ Enqueued(j, reopen) \in {j, Queued}
BY NoRows DEF Enqueued

LEMMA JobEnqueued ==
  ASSUME RunInv, NEW s \in Segments, NEW n \in Pages, NEW reopen \in BOOLEAN,
         HasJob(s, n) \/ (There(s) /\ Due(s, n)),
         job' = [job EXCEPT ![<<s, n>>] = Enqueued(@, reopen)]
  PROVE  job' \in [Segments \X Pages -> JobRow] /\ JobsDue
<1>. DEFINE j == Enqueued(job[<<s, n>>], reopen)
<1>1. job \in [Segments \X Pages -> JobRow] BY TypeParts DEF RunInv
<1>2. j \in JobRow /\ j \in {job[<<s, n>>], Queued} BY <1>1, EnqueuedRow
<1>3. job' = [job EXCEPT ![<<s, n>>] = j] BY <1>1
<1>4. HasJob(s, n) => j.status # "absent" BY <1>2 DEF HasJob, Queued, NoJob
<1>5. j.status = "PROCESSING" => j = job[<<s, n>>] BY <1>2 DEF Queued, NoJob
<1>. HIDE DEF j
<1>6. job' \in [Segments \X Pages -> JobRow] BY <1>1, <1>2, <1>3
<1>7. \A t \in Segments, m \in Pages :
        job'[<<t, m>>] = IF t = s /\ m = n THEN j ELSE job[<<t, m>>]
  BY <1>1, <1>3
<1>8. JobsDue
  <2>. SUFFICES ASSUME NEW t \in Segments, NEW m \in Pages
               PROVE /\ HasJob(t, m) => job'[<<t, m>>].status # "absent"
                     /\ job'[<<t, m>>].status # "absent" => HasJob(t, m) \/ (There(t) /\ Due(t, m))
                     /\ At(t, m, "fetching")' => At(t, m, "fetching") \/ ~Observed(t, m)
                     /\ At(t, m, "linking")' => At(t, m, "linking") \/ page[<<t, m>>] = "ceiling"
                     /\ At(t, m, "linked")' => At(t, m, "linked") \/ run[t].child
    BY DEF JobsDue
  <2>1. CASE t = s /\ m = n BY <1>4, <1>5, <1>7, <2>1 DEF At, HasJob
  <2>2. CASE ~(t = s /\ m = n) BY <1>7, <2>2 DEF At, HasJob
  <2>. QED BY <2>1, <2>2
<1>. QED BY <1>6, <1>8

LEMMA JobsUnchanged ==
  ASSUME RunInv, job' = job
  PROVE  job' \in [Segments \X Pages -> JobRow] /\ JobsDue
BY TypeParts DEF RunInv, JobsDue, HasJob, At

\* A run that is there is written, but for its count and its child.
LEMMA RunWritten ==
  ASSUME RunInv, NEW s \in Segments, NEW r \in RunRow, There(s), r.status # "absent",
         r.pages = run[s].pages, r.child = run[s].child, run' = [run EXCEPT ![s] = r]
  PROVE  run' \in [Segments -> RunRow] /\ RunsKept
<1>1. run \in [Segments -> RunRow] BY TypeParts DEF RunInv
<1>2. \A t \in Segments : run'[t] = IF t = s THEN r ELSE run[t] BY <1>1
<1>3. run' \in [Segments -> RunRow] BY <1>1
<1>. QED BY <1>2, <1>3 DEF RunsKept, There

LEMMA RunsUnchanged ==
  ASSUME RunInv, run' = run
  PROVE  run' \in [Segments -> RunRow] /\ RunsKept
BY TypeParts DEF RunInv, RunsKept

\* A row that ends, fails or is deferred is a row of the same run.
SameRun(s, r) == r \in RunRow /\ r.status # "absent" /\ r.pages = run[s].pages /\ r.child = run[s].child

LEMMA Endings ==
  ASSUME RunInv, NEW s \in Segments, There(s)
  PROVE  /\ SameRun(s, Completed(s)) /\ SameRun(s, Deferred(s))
         /\ \A terminal \in BOOLEAN : SameRun(s, Failed(s, terminal))
<1>1. run[s] \in RunRow BY TypeParts DEF RunInv
<1>2. SameRun(s, run[s]) BY <1>1 DEF SameRun, There
<1>3. SameRun(s, Completed(s)) BY <1>1, <1>2 DEF SameRun, Completed, RunRow, Terminal
<1>4. SameRun(s, Deferred(s)) BY <1>1, <1>2 DEF SameRun, Deferred, RunRow, There
<1>5. SameRun(s, Failed(s, TRUE)) BY <1>1, <1>2 DEF SameRun, Failed, RunRow, Terminal
<1>6. SameRun(s, Failed(s, FALSE)) BY <1>1, <1>2 DEF SameRun, Failed, RunRow
<1>. QED BY <1>3, <1>4, <1>5, <1>6

\* An execution belongs to a run that is there.
LEMMA Executing ==
  ASSUME RunInv, NEW s \in Segments, NEW n \in Pages, NEW place, At(s, n, place)
  PROVE  There(s) /\ HasJob(s, n) /\ job[<<s, n>>].status = "PROCESSING" /\ job[<<s, n>>] \in JobRow
<1>1. job[<<s, n>>].status = "PROCESSING" BY DEF At
<1>2. HasJob(s, n) BY <1>1 DEF HasJob
<1>. QED BY <1>1, <1>2, TypeParts DEF RunInv, RowsNested

LEMMA OthersUnchanged ==
  ASSUME RunInv
  PROVE  /\ UNCHANGED failures => failures' \in SUBSET (Segments \X BOOLEAN) /\ FailuresKept
         /\ UNCHANGED sweep => sweep' \in [Sweepers -> SweepRow] /\ SweepKept
         /\ UNCHANGED page => page' \in [Segments \X Pages -> {"none", "continue", "stop", "defer", "ceiling"}]
         /\ UNCHANGED faults => faults' \in 0 .. MaxFaults
         /\ faults < MaxFaults /\ faults' = faults + 1 => faults' \in 0 .. MaxFaults
BY TypeParts, RunsAssumption DEF RunInv, FailuresKept, SweepKept, RunsAssumption

\* The parts of a quiet step, put together.
LEMMA Quiet ==
  ASSUME RunInv, page' = page, run' \in [Segments -> RunRow], RunsKept,
         job' \in [Segments \X Pages -> JobRow], JobsDue, sweep' \in [Sweepers -> SweepRow], SweepKept,
         failures' \in SUBSET (Segments \X BOOLEAN), FailuresKept, faults' \in 0 .. MaxFaults
  PROVE  RunInv'
<1>1. RunTypeOK'
  BY OthersUnchanged DEF RunTypeOK, RunRow, JobRow, Places, SweepRow
<1>. QED BY <1>1, QuietStep

(***************************************************************************)
(* The worker of a page job                                                *)
(***************************************************************************)
LEMMA ClaimStep == ASSUME RunInv, NEW s \in Segments, NEW n \in Pages, Claim(s, n) PROVE RunInv'
<1>. DEFINE j == [status |-> "PROCESSING", at |-> "claimed",
                  attempts |-> IF job[<<s, n>>].attempts < MaxAttempts THEN job[<<s, n>>].attempts + 1
                               ELSE job[<<s, n>>].attempts]
<1>1. job \in [Segments \X Pages -> JobRow] BY TypeParts DEF RunInv
<1>2. job[<<s, n>>] \in JobRow /\ HasJob(s, n) BY <1>1 DEF Claim, HasJob
<1>3. j.attempts \in 0 .. MaxAttempts BY <1>2, RunsAssumption DEF JobRow, RunsAssumption
<1>4. j \in JobRow BY <1>3 DEF JobRow, Open, Places
<1>5. job' = [job EXCEPT ![<<s, n>>] = j] BY <1>1 DEF Claim
<1>6. j.status = "PROCESSING" /\ j.at = "claimed" OBVIOUS
<1>. HIDE DEF j
<1>7. job' \in [Segments \X Pages -> JobRow] /\ JobsDue BY <1>2, <1>4, <1>5, <1>6, JobWritten
<1>8. run' \in [Segments -> RunRow] /\ RunsKept BY RunsUnchanged DEF Claim
<1>. QED BY <1>7, <1>8, OthersUnchanged, Quiet DEF Claim

LEMMA WithholdStep == ASSUME RunInv, NEW s \in Segments, NEW n \in Pages, Withhold(s, n) PROVE RunInv'
<1>1. There(s) /\ job[<<s, n>>].status = "PROCESSING" BY Executing DEF Withhold
<1>2. SameRun(s, Failed(s, TRUE)) BY <1>1, Endings
<1>3. run' \in [Segments -> RunRow] /\ RunsKept BY <1>1, <1>2, RunWritten DEF Withhold, SameRun
<1>4. job' \in [Segments \X Pages -> JobRow] /\ JobsDue BY <1>1, Moved DEF Withhold, Places
<1>. QED BY <1>3, <1>4, OthersUnchanged, Quiet DEF Withhold

LEMMA StartRunStep == ASSUME RunInv, NEW s \in Segments, NEW n \in Pages, StartRun(s, n) PROVE RunInv'
<1>1. There(s) /\ job[<<s, n>>].status = "PROCESSING" BY Executing DEF StartRun
<1>2. job' \in [Segments \X Pages -> JobRow] /\ JobsDue
  <2>. DEFINE place == IF Ended(s) THEN "closing" ELSE IF Observed(s, n) THEN "recovering" ELSE "fetching"
  <2>1. place \in Places BY DEF Places
  <2>2. Goto(s, n, place) BY DEF StartRun
  <2>3. /\ place = "fetching" => ~Observed(s, n)
        /\ place # "linking" /\ place # "linked"
    OBVIOUS
  <2>. HIDE DEF place
  <2>. QED BY <1>1, <2>1, <2>2, <2>3, Moved
<1>3. CASE Ended(s)
  BY <1>2, <1>3, RunsUnchanged, OthersUnchanged, Quiet DEF StartRun
<1>4. CASE ~Ended(s)
  <2>. DEFINE r == [run[s] EXCEPT !.status = "RUNNING"]
  <2>1. run \in [Segments -> RunRow] BY TypeParts DEF RunInv
  <2>2. run' = [run EXCEPT ![s] = r] BY <1>4, <2>1 DEF StartRun
  <2>3. run[s] \in RunRow BY <2>1
  <2>4. r \in RunRow /\ r.status # "absent" /\ r.pages = run[s].pages /\ r.child = run[s].child
    BY <2>3 DEF RunRow
  <2>. HIDE DEF r
  <2>5. run' \in [Segments -> RunRow] /\ RunsKept BY <1>1, <2>2, <2>4, RunWritten
  <2>. QED BY <1>2, <2>5, OthersUnchanged, Quiet DEF StartRun
<1>. QED BY <1>3, <1>4

LEMMA DeferRunStep == ASSUME RunInv, NEW s \in Segments, NEW n \in Pages, DeferRun(s, n) PROVE RunInv'
<1>1. There(s) /\ job[<<s, n>>].status = "PROCESSING" BY Executing DEF DeferRun
<1>2. SameRun(s, Deferred(s)) BY <1>1, Endings
<1>3. run' \in [Segments -> RunRow] /\ RunsKept BY <1>1, <1>2, RunWritten DEF DeferRun, SameRun
<1>4. job' \in [Segments \X Pages -> JobRow] /\ JobsDue BY <1>1, Moved DEF DeferRun, Places
<1>5. faults' \in 0 .. MaxFaults BY OthersUnchanged DEF DeferRun
<1>. QED BY <1>3, <1>4, <1>5, OthersUnchanged, Quiet DEF DeferRun

LEMMA DenyStep == ASSUME RunInv, NEW s \in Segments, NEW n \in Pages, Deny(s, n) PROVE RunInv'
<1>1. There(s) /\ job[<<s, n>>].status = "PROCESSING" BY Executing DEF Deny
<1>2. job' \in [Segments \X Pages -> JobRow] /\ JobsDue BY <1>1, Moved DEF Deny, Places
<1>3. run' \in [Segments -> RunRow] /\ RunsKept BY RunsUnchanged DEF Deny
<1>4. faults' \in 0 .. MaxFaults BY OthersUnchanged DEF Deny
<1>. QED BY <1>2, <1>3, <1>4, OthersUnchanged, Quiet DEF Deny

LEMMA CompleteStep == ASSUME RunInv, NEW s \in Segments, NEW n \in Pages, Complete(s, n) PROVE RunInv'
<1>1. There(s) /\ job[<<s, n>>].status = "PROCESSING" BY Executing DEF Complete
<1>2. SameRun(s, Completed(s)) BY <1>1, Endings
<1>3. run' \in [Segments -> RunRow] /\ RunsKept BY <1>1, <1>2, RunWritten DEF Complete, SameRun
<1>4. job' \in [Segments \X Pages -> JobRow] /\ JobsDue BY <1>1, Moved DEF Complete, Places
<1>. QED BY <1>3, <1>4, OthersUnchanged, Quiet DEF Complete

LEMMA RecoverStep == ASSUME RunInv, NEW s \in Segments, NEW n \in Pages, Recover(s, n) PROVE RunInv'
<1>1. job[<<s, n>>].status = "PROCESSING" BY Executing DEF Recover
<1>2. /\ Recovery(s, n) \in {"recorded", "linking", "linked", "closing", "finishing"}
      /\ Recovery(s, n) = "linking" => page[<<s, n>>] = "ceiling"
      /\ Recovery(s, n) = "linked" => run[s].child
  BY DEF Recovery
<1>3. job' \in [Segments \X Pages -> JobRow] /\ JobsDue BY <1>1, <1>2, Moved DEF Recover, Places
<1>4. run' \in [Segments -> RunRow] /\ RunsKept BY RunsUnchanged DEF Recover
<1>. QED BY <1>3, <1>4, OthersUnchanged, Quiet DEF Recover

\* A job that is over, or queued again, has no execution.
LEMMA Returned ==
  ASSUME RunInv, NEW s \in Segments, NEW n \in Pages, job[<<s, n>>].status = "PROCESSING",
         NEW status \in {"PENDING", "COMPLETED", "FAILED"},
         job' = [job EXCEPT ![<<s, n>>].status = status, ![<<s, n>>].at = "idle"]
  PROVE  job' \in [Segments \X Pages -> JobRow] /\ JobsDue
<1>. DEFINE j == [job[<<s, n>>] EXCEPT !.status = status, !.at = "idle"]
<1>1. job \in [Segments \X Pages -> JobRow] BY TypeParts DEF RunInv
<1>2. job[<<s, n>>] \in JobRow BY <1>1
<1>3. j \in JobRow /\ j.status = status BY <1>2 DEF JobRow, Open, Terminal, Places
<1>4. job' = [job EXCEPT ![<<s, n>>] = j] BY <1>1
<1>5. HasJob(s, n) BY DEF HasJob
<1>6. j.status # "absent" /\ j.status # "PROCESSING" BY <1>3
<1>. HIDE DEF j
<1>. QED BY <1>3, <1>4, <1>5, <1>6, JobWritten

LEMMA CloseStep == ASSUME RunInv, NEW s \in Segments, NEW n \in Pages, Close(s, n) PROVE RunInv'
<1>1. job[<<s, n>>].status = "PROCESSING" BY Executing DEF Close
<1>2. job' \in [Segments \X Pages -> JobRow] /\ JobsDue BY <1>1, Returned DEF Close
<1>3. run' \in [Segments -> RunRow] /\ RunsKept BY RunsUnchanged DEF Close
<1>. QED BY <1>2, <1>3, OthersUnchanged, Quiet DEF Close

LEMMA FailJobStep == ASSUME RunInv, NEW s \in Segments, NEW n \in Pages, FailJob(s, n) PROVE RunInv'
<1>. DEFINE terminal == job[<<s, n>>].attempts >= MaxAttempts
<1>1. There(s) /\ job[<<s, n>>].status = "PROCESSING" BY Executing DEF FailJob
<1>2. /\ job' = [job EXCEPT ![<<s, n>>].status = IF terminal THEN "FAILED" ELSE "PENDING", ![<<s, n>>].at = "idle"]
      /\ failures' = failures \cup {<<s, terminal>>} /\ UNCHANGED <<run, page, sweep, faults>>
  BY DEF FailJob
<1>3. terminal \in BOOLEAN OBVIOUS
<1>. HIDE DEF terminal
<1>4. (IF terminal THEN "FAILED" ELSE "PENDING") \in {"PENDING", "COMPLETED", "FAILED"} OBVIOUS
<1>5. job' \in [Segments \X Pages -> JobRow] /\ JobsDue BY <1>1, <1>2, <1>4, Returned
<1>6. failures' \in SUBSET (Segments \X BOOLEAN) BY <1>2, <1>3, TypeParts DEF RunInv
<1>7. FailuresKept BY <1>1, <1>2 DEF FailuresKept
<1>8. run' \in [Segments -> RunRow] /\ RunsKept BY <1>2, RunsUnchanged
<1>. QED BY <1>2, <1>5, <1>6, <1>7, <1>8, OthersUnchanged, Quiet

LEMMA FailRunStep == ASSUME RunInv, NEW f \in failures, FailRun(f) PROVE RunInv'
<1>1. f[1] \in Segments /\ f[2] \in BOOLEAN /\ There(f[1]) BY TypeParts DEF RunInv, FailuresOfRuns
<1>2. SameRun(f[1], Failed(f[1], f[2])) BY <1>1, Endings
<1>3. run' \in [Segments -> RunRow] /\ RunsKept BY <1>1, <1>2, RunWritten DEF FailRun, SameRun
<1>4. failures' \in SUBSET (Segments \X BOOLEAN) /\ FailuresKept BY TypeParts DEF RunInv, FailRun, FailuresKept
<1>. QED BY <1>3, <1>4, JobsUnchanged, OthersUnchanged, Quiet DEF FailRun

LEMMA WorkerDiesStep == ASSUME RunInv, WorkerDies PROVE RunInv'
<1>1. UNCHANGED <<run, page, sweep>> /\ faults' \in 0 .. MaxFaults BY OthersUnchanged DEF WorkerDies
<1>2. run' \in [Segments -> RunRow] /\ RunsKept BY <1>1, RunsUnchanged
<1>3. CASE \E x \in Segments \X Pages :
             /\ job[x].status = "PROCESSING"
             /\ job' = [job EXCEPT ![x].status = "PENDING", ![x].at = "idle"] /\ UNCHANGED failures
  <2>1. PICK x \in Segments \X Pages :
             /\ job[x].status = "PROCESSING"
             /\ job' = [job EXCEPT ![x].status = "PENDING", ![x].at = "idle"] /\ UNCHANGED failures
    BY <1>3
  <2>2. PICK s \in Segments, n \in Pages : x = <<s, n>> OBVIOUS
  <2>3. job' \in [Segments \X Pages -> JobRow] /\ JobsDue BY <2>1, <2>2, Returned
  <2>. QED BY <1>1, <1>2, <2>1, <2>3, OthersUnchanged, Quiet
<1>4. CASE \E f \in failures : failures' = failures \ {f} /\ UNCHANGED job
  <2>1. failures' \in SUBSET (Segments \X BOOLEAN) /\ FailuresKept BY <1>4, TypeParts DEF RunInv, FailuresKept
  <2>. QED BY <1>1, <1>2, <1>4, <2>1, JobsUnchanged, OthersUnchanged, Quiet
<1>. QED BY <1>3, <1>4 DEF WorkerDies

\* One job is enqueued, and the execution of another goes on to its end.
LEMMA EnqueuedAndMoved ==
  ASSUME RunInv, NEW s \in Segments, NEW n \in Pages, job[<<s, n>>].status = "PROCESSING",
         NEW t \in Segments, NEW m \in Pages, ~(t = s /\ m = n), There(t), Due(t, m),
         NEW reopen \in BOOLEAN, NEW place \in {"closing", "finishing"},
         job' = [job EXCEPT ![<<t, m>>] = Enqueued(@, reopen), ![<<s, n>>].at = place]
  PROVE  job' \in [Segments \X Pages -> JobRow] /\ JobsDue
<1>. DEFINE i == Enqueued(job[<<t, m>>], reopen)
            j == [job[<<s, n>>] EXCEPT !.at = place]
<1>1. job \in [Segments \X Pages -> JobRow] BY TypeParts DEF RunInv
<1>2. i \in JobRow /\ i \in {job[<<t, m>>], Queued} BY <1>1, EnqueuedRow
<1>3. job[<<s, n>>] \in JobRow BY <1>1
<1>4. j \in JobRow /\ j.status = "PROCESSING" /\ j.at = place BY <1>3 DEF JobRow, Places
<1>5. job' = [job EXCEPT ![<<t, m>>] = i, ![<<s, n>>] = j] BY <1>1
<1>6. i.status # "absent" BY <1>2 DEF Enqueued, Queued, NoJob
<1>7. i.status = "PROCESSING" => i = job[<<t, m>>] BY <1>2 DEF Queued, NoJob
<1>. HIDE DEF i, j
<1>8. job' \in [Segments \X Pages -> JobRow] BY <1>1, <1>2, <1>4, <1>5
<1>9. \A u \in Segments, k \in Pages :
        job'[<<u, k>>] = IF u = s /\ k = n THEN j ELSE IF u = t /\ k = m THEN i ELSE job[<<u, k>>]
  BY <1>1, <1>5
<1>10. JobsDue
  <2>. SUFFICES ASSUME NEW u \in Segments, NEW k \in Pages
               PROVE /\ HasJob(u, k) => job'[<<u, k>>].status # "absent"
                     /\ job'[<<u, k>>].status # "absent" => HasJob(u, k) \/ (There(u) /\ Due(u, k))
                     /\ At(u, k, "fetching")' => At(u, k, "fetching") \/ ~Observed(u, k)
                     /\ At(u, k, "linking")' => At(u, k, "linking") \/ page[<<u, k>>] = "ceiling"
                     /\ At(u, k, "linked")' => At(u, k, "linked") \/ run[u].child
    BY DEF JobsDue
  <2>1. CASE u = s /\ k = n BY <1>4, <1>9, <2>1 DEF At, HasJob
  <2>2. CASE u = t /\ k = m BY <1>6, <1>7, <1>9, <2>2 DEF At, HasJob
  <2>3. CASE ~(u = s /\ k = n) /\ ~(u = t /\ k = m) BY <1>9, <2>3 DEF At, HasJob
  <2>. QED BY <2>1, <2>2, <2>3
<1>. QED BY <1>8, <1>10

\* A run that writes only whether it goes on.
LEMMA GoesOn ==
  ASSUME RunInv, NEW s \in Segments, There(s), run' = [run EXCEPT ![s].continuation = "RUNNING"]
  PROVE  run' \in [Segments -> RunRow] /\ RunsKept
<1>. DEFINE r == [run[s] EXCEPT !.continuation = "RUNNING"]
<1>1. run \in [Segments -> RunRow] BY TypeParts DEF RunInv
<1>2. run[s] \in RunRow BY <1>1
<1>3. r \in RunRow /\ r.status # "absent" /\ r.pages = run[s].pages /\ r.child = run[s].child
  BY <1>2 DEF RunRow, There
<1>4. run' = [run EXCEPT ![s] = r] BY <1>1
<1>. HIDE DEF r
<1>. QED BY <1>3, <1>4, RunWritten

\* A page that goes on is not the last one that may be fetched.
LEMMA NextAllowed ==
  ASSUME RunInv, NEW s \in Segments, NEW n \in Pages, page[<<s, n>>] \in {"continue", "defer"}
  PROVE  n + 1 \in Pages /\ Due(s, n + 1)
<1>1. Observed(s, n) BY DEF Observed
<1>2. page[<<s, n>>] \in Decisions(s, n) BY <1>1 DEF RunInv, DecisionsAllowed
<1>3. n < EffectivePages[s] BY <1>2 DEF Decisions
<1>4. n \in Nat /\ MostPages \in Nat /\ EffectivePages[s] \in 1 .. MostPages
  BY RunsAssumption DEF RunsAssumption, Pages
<1>5. n + 1 \in Pages BY <1>3, <1>4 DEF Pages
<1>6. (n + 1) - 1 = n BY <1>4
<1>. QED BY <1>5, <1>6 DEF Due

LEMMA ExtendStep == ASSUME RunInv, NEW s \in Segments, NEW n \in Pages, Extend(s, n) PROVE RunInv'
<1>1. There(s) /\ job[<<s, n>>].status = "PROCESSING" BY Executing DEF Extend
<1>2. n + 1 \in Pages /\ Due(s, n + 1) BY NextAllowed DEF Extend
<1>3. n + 1 # n BY RunsAssumption DEF Pages, RunsAssumption
<1>4. job' \in [Segments \X Pages -> JobRow] /\ JobsDue
  BY <1>1, <1>2, <1>3, EnqueuedAndMoved DEF Extend
<1>5. run' \in [Segments -> RunRow] /\ RunsKept BY <1>1, GoesOn DEF Extend
<1>. QED BY <1>4, <1>5, OthersUnchanged, Quiet DEF Extend

LEMMA EnqueueChildStep == ASSUME RunInv, NEW s \in Segments, NEW n \in Pages, EnqueueChild(s, n) PROVE RunInv'
<1>1. job[<<s, n>>].status = "PROCESSING" BY Executing DEF EnqueueChild
<1>2. run[s].child BY DEF EnqueueChild, RunInv, LinksBacked
<1>3. s + 1 \in Segments /\ There(s + 1) BY <1>2 DEF RunInv, ContinuationsLinked, There
<1>4. 1 \in Pages /\ s + 1 # s BY RunsAssumption DEF Pages, Segments, RunsAssumption
<1>5. Due(s + 1, 1) BY DEF Due
<1>6. job' \in [Segments \X Pages -> JobRow] /\ JobsDue
  BY <1>1, <1>3, <1>4, <1>5, EnqueuedAndMoved DEF EnqueueChild
<1>7. run' \in [Segments -> RunRow] /\ RunsKept BY RunsUnchanged DEF EnqueueChild
<1>. QED BY <1>6, <1>7, OthersUnchanged, Quiet DEF EnqueueChild

(***************************************************************************)
(* The sweep, and time                                                     *)
(***************************************************************************)
\* One sweep goes on, with a row of its run.
LEMMA SweepWritten ==
  ASSUME RunInv, NEW w \in Sweepers, NEW row \in SweepRow, row.at # "idle" => Behind(row),
         sweep' = [sweep EXCEPT ![w] = row]
  PROVE  sweep' \in [Sweepers -> SweepRow] /\ SweepKept
<1>1. sweep \in [Sweepers -> SweepRow] BY TypeParts DEF RunInv
<1>2. \A v \in Sweepers : sweep'[v] = IF v = w THEN row ELSE sweep[v] BY <1>1
<1>. QED BY <1>1, <1>2 DEF SweepKept

\* A sweep is at work on a run that is there, and may leave it or end it.
LEMMA AtWork ==
  ASSUME RunInv, NEW w \in Sweepers, sweep[w].at # "idle"
  PROVE  /\ sweep[w] \in SweepRow /\ sweep[w].run \in Segments /\ There(sweep[w].run) /\ Behind(sweep[w])
         /\ SameRun(sweep[w].run, Completed(sweep[w].run)) /\ SameRun(sweep[w].run, Deferred(sweep[w].run))
         /\ SameRun(sweep[w].run, Failed(sweep[w].run, TRUE))
         /\ Swept(w) => sweep' \in [Sweepers -> SweepRow] /\ SweepKept
<1>1. sweep[w] \in SweepRow BY TypeParts DEF RunInv
<1>2. sweep[w].run \in Segments BY <1>1 DEF SweepRow
<1>3. Behind(sweep[w]) /\ There(sweep[w].run) BY DEF RunInv, SweepBehind, Behind
<1>4. NotSwept \in SweepRow /\ NotSwept.at = "idle" BY NoRows DEF NotSwept
<1>5. Swept(w) => sweep' \in [Sweepers -> SweepRow] /\ SweepKept BY <1>4, SweepWritten DEF Swept
<1>. QED BY <1>1, <1>2, <1>3, <1>5, Endings

\* A sweep goes on with the row it has; what it is about to resume is due.
LEMMA GoneOn ==
  ASSUME RunInv, NEW w \in Sweepers, sweep[w].at # "idle", NEW place \in {"resuming", "resumed"}, SweepOn(w, place),
         place = "resuming" => NextPage(w) \in Pages /\ Due(sweep[w].run, NextPage(w))
  PROVE  sweep' \in [Sweepers -> SweepRow] /\ SweepKept
<1>. DEFINE row == [sweep[w] EXCEPT !.at = place]
<1>1. sweep[w] \in SweepRow /\ Behind(sweep[w]) BY AtWork
<1>2. row \in SweepRow /\ row.at = place /\ row.run = sweep[w].run /\ row.pages = sweep[w].pages
  BY <1>1 DEF SweepRow
<1>3. sweep' = [sweep EXCEPT ![w] = row] BY TypeParts DEF RunInv, SweepOn
<1>. HIDE DEF row
<1>4. Behind(row) BY <1>1, <1>2 DEF Behind, NextPage
<1>. QED BY <1>2, <1>3, <1>4, SweepWritten

LEMMA SweepReadStep == ASSUME RunInv, NEW w \in Sweepers, NEW s \in Segments, SweepRead(w, s) PROVE RunInv'
<1>. DEFINE row == [at |-> "read", run |-> s, pages |-> run[s].pages, child |-> run[s].child]
<1>1. run[s] \in RunRow /\ There(s) BY TypeParts DEF RunInv, SweepRead, Resumable, There
<1>2. row \in SweepRow /\ row.at = "read" /\ row.run = s /\ row.pages = run[s].pages
  BY <1>1 DEF SweepRow, RunRow
<1>3. run[s].pages \in Nat BY <1>1, RunsAssumption DEF RunRow, RunsAssumption
<1>4. sweep' = [sweep EXCEPT ![w] = row] BY DEF SweepRead
<1>. HIDE DEF row
<1>5. Behind(row) BY <1>1, <1>2, <1>3 DEF Behind
<1>6. sweep' \in [Sweepers -> SweepRow] /\ SweepKept BY <1>2, <1>4, <1>5, SweepWritten
<1>7. run' \in [Segments -> RunRow] /\ RunsKept BY RunsUnchanged DEF SweepRead
<1>. QED BY <1>6, <1>7, JobsUnchanged, OthersUnchanged, Quiet DEF SweepRead

LEMMA SweepSkipsStep == ASSUME RunInv, NEW w \in Sweepers, SweepSkips(w) PROVE RunInv'
<1>1. sweep[w].at # "idle" /\ Swept(w) /\ UNCHANGED <<run, page, job, failures, faults>> BY DEF SweepSkips, Sweeping
<1>2. sweep' \in [Sweepers -> SweepRow] /\ SweepKept BY <1>1, AtWork
<1>. QED BY <1>1, <1>2, RunsUnchanged, JobsUnchanged, OthersUnchanged, Quiet

\* The page a sweep takes up is the first one, or the page before it went on.
LEMMA TakenUp ==
  ASSUME RunInv, NEW w \in Sweepers, sweep[w].at # "idle", ~Ends(sweep[w].run, sweep[w].pages)
  PROVE  NextPage(w) \in Pages /\ Due(sweep[w].run, NextPage(w))
<1>. DEFINE s == sweep[w].run
            n == sweep[w].pages
<1>1. sweep[w] \in SweepRow /\ s \in Segments /\ Behind(sweep[w]) BY AtWork
<1>2. n \in Nat /\ n <= MostPages /\ MostPages \in Nat /\ n <= run[s].pages
  BY <1>1, RunsAssumption DEF SweepRow, RunsAssumption, Behind
<1>3. CASE n = 0
  <2>1. EffectivePages[s] \in 1 .. MostPages BY <1>1, RunsAssumption DEF RunsAssumption, Pages
  <2>2. 1 \in Pages BY <1>2, <2>1 DEF Pages
  <2>. QED BY <1>3, <2>2 DEF Due, NextPage
<1>4. CASE n > 0
  <2>1. n \in Pages BY <1>2, <1>4 DEF Pages
  <2>2. Observed(s, n) BY <1>1, <1>2, <2>1 DEF RunInv, PagesInOrder
  <2>3. page[<<s, n>>] \in {"none", "continue", "stop", "defer", "ceiling"} BY <1>1, <2>1, TypeParts DEF RunInv
  <2>4. page[<<s, n>>] \in {"continue", "defer"} BY <1>4, <2>2, <2>3 DEF Ends, Observed
  <2>. QED BY <1>1, <2>1, <2>4, NextAllowed DEF NextPage
<1>. QED BY <1>2, <1>3, <1>4

LEMMA SweepLocksStep == ASSUME RunInv, NEW w \in Sweepers, SweepLocks(w) PROVE RunInv'
<1>1. sweep[w].at # "idle" /\ UNCHANGED <<run, page, job, failures, faults>> BY DEF SweepLocks, Sweeping
<1>2. NextPage(w) \in Pages /\ Due(sweep[w].run, NextPage(w)) BY <1>1, TakenUp DEF SweepLocks
<1>3. Swept(w) => sweep' \in [Sweepers -> SweepRow] /\ SweepKept BY <1>1, AtWork
<1>4. SweepOn(w, "resuming") => sweep' \in [Sweepers -> SweepRow] /\ SweepKept BY <1>1, <1>2, GoneOn
<1>5. Swept(w) \/ SweepOn(w, "resuming") BY DEF SweepLocks
<1>. QED BY <1>1, <1>3, <1>4, <1>5, RunsUnchanged, JobsUnchanged, OthersUnchanged, Quiet

\* The steps that end a sweep of a run, and may end the run or defer it.
LEMMA SweptStep ==
  ASSUME RunInv, NEW w \in Sweepers, sweep[w].at # "idle", Swept(w), UNCHANGED <<page, job, failures>>,
         faults' \in 0 .. MaxFaults, NEW r \in RunRow, SameRun(sweep[w].run, r), run' = [run EXCEPT ![sweep[w].run] = r]
  PROVE  RunInv'
<1>1. sweep[w].run \in Segments /\ There(sweep[w].run) /\ sweep' \in [Sweepers -> SweepRow] /\ SweepKept BY AtWork
<1>2. run' \in [Segments -> RunRow] /\ RunsKept BY <1>1, RunWritten DEF SameRun
<1>. QED BY <1>1, <1>2, JobsUnchanged, OthersUnchanged, Quiet

LEMMA SweepRetiresStep == ASSUME RunInv, NEW w \in Sweepers, SweepRetires(w) PROVE RunInv'
<1>1. sweep[w].at # "idle" /\ faults' \in 0 .. MaxFaults BY OthersUnchanged DEF SweepRetires, Sweeping
<1>2. SameRun(sweep[w].run, Failed(sweep[w].run, TRUE)) BY <1>1, AtWork
<1>. QED BY <1>1, <1>2, SweptStep DEF SweepRetires, SameRun

LEMMA SweepFinalizesStep == ASSUME RunInv, NEW w \in Sweepers, SweepFinalizes(w) PROVE RunInv'
<1>1. sweep[w].at # "idle" /\ faults' \in 0 .. MaxFaults BY OthersUnchanged DEF SweepFinalizes, Sweeping
<1>2. SameRun(sweep[w].run, Completed(sweep[w].run)) BY <1>1, AtWork
<1>. QED BY <1>1, <1>2, SweptStep DEF SweepFinalizes, SameRun

LEMMA SweepDeniedStep == ASSUME RunInv, NEW w \in Sweepers, SweepDenied(w) PROVE RunInv'
<1>1. sweep[w].at # "idle" /\ faults' \in 0 .. MaxFaults BY OthersUnchanged DEF SweepDenied, Sweeping
<1>2. SameRun(sweep[w].run, Completed(sweep[w].run)) /\ SameRun(sweep[w].run, Deferred(sweep[w].run)) BY <1>1, AtWork
<1>. QED BY <1>1, <1>2, SweptStep DEF SweepDenied, SameRun

LEMMA SweepEnqueuesStep == ASSUME RunInv, NEW w \in Sweepers, SweepEnqueues(w) PROVE RunInv'
<1>1. sweep[w].at = "resuming" /\ UNCHANGED <<run, page, failures, faults>> BY DEF SweepEnqueues, Sweeping
<1>2. sweep[w].run \in Segments /\ There(sweep[w].run) /\ Behind(sweep[w]) BY <1>1, AtWork
<1>3. NextPage(w) \in Pages /\ Due(sweep[w].run, NextPage(w)) BY <1>1, <1>2 DEF Behind, NextPage
<1>4. job' \in [Segments \X Pages -> JobRow] /\ JobsDue BY <1>2, <1>3, JobEnqueued DEF SweepEnqueues
<1>5. sweep' \in [Sweepers -> SweepRow] /\ SweepKept BY <1>1, GoneOn DEF SweepEnqueues
<1>. QED BY <1>1, <1>4, <1>5, RunsUnchanged, OthersUnchanged, Quiet

LEMMA SweepResumedStep == ASSUME RunInv, NEW w \in Sweepers, SweepResumed(w) PROVE RunInv'
<1>1. sweep[w].at # "idle" BY DEF SweepResumed, Sweeping
<1>2. /\ sweep[w].run \in Segments /\ There(sweep[w].run)
      /\ Swept(w) => sweep' \in [Sweepers -> SweepRow] /\ SweepKept
  BY <1>1, AtWork
<1>3. run' \in [Segments -> RunRow] /\ RunsKept BY <1>2, GoesOn DEF SweepResumed
<1>. QED BY <1>2, <1>3, JobsUnchanged, OthersUnchanged, Quiet DEF SweepResumed

LEMMA SweepFailsStep == ASSUME RunInv, NEW w \in Sweepers, SweepFails(w) PROVE RunInv'
<1>1. sweep[w].at # "idle" /\ Swept(w) /\ UNCHANGED <<run, page, job, failures>> BY DEF SweepFails, Sweeping
<1>2. sweep' \in [Sweepers -> SweepRow] /\ SweepKept BY <1>1, AtWork
<1>3. faults' \in 0 .. MaxFaults BY OthersUnchanged DEF SweepFails
<1>. QED BY <1>1, <1>2, <1>3, RunsUnchanged, JobsUnchanged, OthersUnchanged, Quiet

LEMMA DeferralPassesStep == ASSUME RunInv, NEW s \in Segments, DeferralPasses(s) PROVE RunInv'
<1>. DEFINE r == [run[s] EXCEPT !.due = TRUE]
<1>1. run \in [Segments -> RunRow] BY TypeParts DEF RunInv
<1>2. run[s] \in RunRow BY <1>1
<1>3. r \in RunRow /\ r.status = run[s].status /\ r.pages = run[s].pages /\ r.child = run[s].child
  BY <1>2 DEF RunRow
<1>4. run' = [run EXCEPT ![s] = r] BY <1>1 DEF DeferralPasses
<1>. HIDE DEF r
<1>5. \A t \in Segments : run'[t] = IF t = s THEN r ELSE run[t] BY <1>1, <1>4
<1>6. run' \in [Segments -> RunRow] /\ RunsKept BY <1>1, <1>3, <1>4, <1>5 DEF RunsKept
<1>. QED BY <1>6, JobsUnchanged, OthersUnchanged, Quiet DEF DeferralPasses

(***************************************************************************)
(* Steps that bring an observation or a run                                *)
(***************************************************************************)
\* A run that is not there has no rows at all.
LEMMA NotThere ==
  ASSUME RunInv, NEW s \in Segments, ~There(s)
  PROVE  /\ run[s].pages = 0 /\ run[s].child = FALSE
         /\ \A n \in Pages : ~HasJob(s, n) /\ ~Observed(s, n)
<1>1. \A n \in Pages : ~HasJob(s, n) /\ ~Observed(s, n) BY DEF RunInv, RowsNested
<1>2. run[s] \in RunRow BY TypeParts DEF RunInv
<1>3. run[s].child \in BOOLEAN /\ run[s].pages \in 0 .. MostPages BY <1>2 DEF RunRow
<1>4. run[s].pages \notin Pages
  <2>. SUFFICES ASSUME run[s].pages \in Pages PROVE FALSE OBVIOUS
  <2>1. run[s].pages <= run[s].pages BY RunsAssumption DEF Pages, RunsAssumption
  <2>2. Observed(s, run[s].pages) BY <2>1 DEF RunInv, PagesInOrder
  <2>. QED BY <1>1, <2>2
<1>5. run[s].pages = 0 BY <1>3, <1>4, RunsAssumption DEF Pages, RunsAssumption
<1>6. ~run[s].child BY <1>4 DEF RunInv, ContinuationsLinked, Observed
<1>. QED BY <1>1, <1>3, <1>5, <1>6

\* The page before one that has a job is the last that was observed, if that one is not.
LEMMA CountBefore ==
  ASSUME RunInv, NEW s \in Segments, NEW n \in Pages, HasJob(s, n), ~Observed(s, n)
  PROVE  run[s].pages = n - 1 /\ ~run[s].child
<1>1. run[s] \in RunRow BY TypeParts DEF RunInv
<1>2. run[s].pages \in Nat /\ n \in Nat /\ n >= 1 /\ n <= MostPages /\ MostPages \in Nat
  BY <1>1, RunsAssumption DEF RunRow, RunsAssumption, Pages
<1>3. ~(n <= run[s].pages) BY DEF RunInv, PagesInOrder
<1>4. n = 1 \/ page[<<s, n - 1>>] \in {"continue", "defer"} BY DEF RunInv, PagesInOrder, HasJob
<1>5. CASE n = 1
  <2>1. run[s].pages = 0 BY <1>2, <1>3, <1>5
  <2>2. ~Observed(s, 0) BY <1>2 DEF Observed, Pages
  <2>3. ~run[s].child BY <2>1, <2>2 DEF RunInv, ContinuationsLinked
  <2>. QED BY <1>5, <2>1, <2>3
<1>6. CASE n # 1
  <2>1. n - 1 \in Pages BY <1>2, <1>6 DEF Pages
  <2>2. Observed(s, n - 1) BY <1>4, <1>6, <2>1 DEF Observed
  <2>3. n - 1 <= run[s].pages BY <2>1, <2>2 DEF RunInv, PagesInOrder
  <2>4. run[s].pages = n - 1 BY <1>2, <1>3, <2>3
  <2>5. ~run[s].child BY <1>4, <1>6, <2>4 DEF RunInv, ContinuationsLinked
  <2>. QED BY <2>4, <2>5
<1>. QED BY <1>5, <1>6

LEMMA RecordPageStep ==
  ASSUME RunInv, NEW s \in Segments, NEW n \in Pages, NEW decision \in Decisions(s, n), RecordPage(s, n, decision)
  PROVE  RunInv'
<1>. DEFINE place == CASE decision = "stop" -> "finishing" [] decision = "ceiling" -> "linking" [] OTHER -> "recorded"
            r == [run[s] EXCEPT !.pages = n]
            j == [job[<<s, n>>] EXCEPT !.at = place]
<1>1. /\ There(s) /\ HasJob(s, n) /\ job[<<s, n>>].status = "PROCESSING" /\ job[<<s, n>>] \in JobRow
      /\ page[<<s, n>>] = "none"
  BY Executing DEF RecordPage
<1>2. ~Observed(s, n) BY <1>1 DEF Observed
<1>3. run[s].pages = n - 1 /\ ~run[s].child BY <1>1, <1>2, CountBefore
<1>4. /\ run \in [Segments -> RunRow] /\ page \in [Segments \X Pages -> {"none", "continue", "stop", "defer", "ceiling"}]
      /\ job \in [Segments \X Pages -> JobRow]
  BY TypeParts DEF RunInv
<1>5. n \in Nat /\ n >= 1 /\ n <= MostPages /\ MostPages \in Nat BY RunsAssumption DEF RunsAssumption, Pages
<1>6. decision \in {"continue", "stop", "defer", "ceiling"} BY DEF Decisions
<1>7. run' = [run EXCEPT ![s] = r]
  <2>1. run[s].pages < n BY <1>3, <1>5
  <2>. QED BY <1>4, <2>1 DEF RecordPage
<1>8. r \in RunRow /\ r.status = run[s].status /\ r.pages = n /\ r.child = run[s].child
  <2>1. run[s] \in RunRow BY <1>4
  <2>. QED BY <1>5, <2>1 DEF RunRow
<1>9. place \in {"finishing", "linking", "recorded"} /\ (place = "linking" => decision = "ceiling")
  BY <1>6
<1>10. job' = [job EXCEPT ![<<s, n>>] = j] BY <1>4 DEF RecordPage, Goto
<1>. HIDE DEF place
<1>11. j \in JobRow /\ j.status = "PROCESSING" /\ j.at = place BY <1>1, <1>9 DEF JobRow, Places
<1>. HIDE DEF r, j
<1>12. /\ page' = [page EXCEPT ![<<s, n>>] = decision]
       /\ UNCHANGED <<failures, sweep, faults>>
  BY DEF RecordPage
<1>13. \A t \in Segments : run'[t] = IF t = s THEN r ELSE run[t] BY <1>4, <1>7
<1>14. \A t \in Segments, m \in Pages : page'[<<t, m>>] = IF t = s /\ m = n THEN decision ELSE page[<<t, m>>]
  BY <1>4, <1>12
<1>15. \A t \in Segments, m \in Pages : job'[<<t, m>>] = IF t = s /\ m = n THEN j ELSE job[<<t, m>>]
  BY <1>4, <1>10
<1>16. \A t \in Segments, m \in Pages : Observed(t, m)' <=> Observed(t, m) \/ (t = s /\ m = n)
  BY <1>6, <1>14 DEF Observed
<1>17. RunTypeOK'
  <2>1. run' \in [Segments -> RunRow] BY <1>4, <1>7, <1>8
  <2>2. page' \in [Segments \X Pages -> {"none", "continue", "stop", "defer", "ceiling"}] BY <1>4, <1>6, <1>12
  <2>3. job' \in [Segments \X Pages -> JobRow] BY <1>4, <1>10, <1>11
  <2>4. failures' \in SUBSET (Segments \X BOOLEAN) /\ sweep' \in [Sweepers -> SweepRow] /\ faults' \in 0 .. MaxFaults
    BY <1>12, TypeParts DEF RunInv
  <2>. QED BY <2>1, <2>2, <2>3, <2>4 DEF RunTypeOK, RunRow, JobRow, Places, SweepRow
<1>18. PagesInOrder'
  <2>. SUFFICES ASSUME NEW t \in Segments, NEW m \in Pages
               PROVE /\ Observed(t, m)' <=> m <= run'[t].pages
                     /\ job'[<<t, m>>].status # "absent" => m = 1 \/ page'[<<t, m - 1>>] \in {"continue", "defer"}
                     /\ At(t, m, "fetching")' => ~Observed(t, m)'
    BY DEF PagesInOrder
  <2>1. Observed(t, m) <=> m <= run[t].pages BY DEF RunInv, PagesInOrder
  <2>2. m \in Nat /\ m >= 1 BY RunsAssumption DEF Pages, RunsAssumption
  <2>3. Observed(t, m)' <=> m <= run'[t].pages
    <3>1. CASE t = s BY <1>3, <1>5, <1>8, <1>13, <1>16, <2>1, <2>2, <3>1
    <3>2. CASE t # s BY <1>13, <1>16, <2>1, <3>2
    <3>. QED BY <3>1, <3>2
  <2>4. job'[<<t, m>>].status # "absent" => m = 1 \/ page'[<<t, m - 1>>] \in {"continue", "defer"}
    <3>. SUFFICES ASSUME job'[<<t, m>>].status # "absent", m # 1
                 PROVE page'[<<t, m - 1>>] \in {"continue", "defer"}
      OBVIOUS
    <3>1. HasJob(t, m) BY <1>1, <1>15 DEF HasJob
    <3>2. page[<<t, m - 1>>] \in {"continue", "defer"} BY <3>1 DEF RunInv, PagesInOrder, HasJob
    <3>3. m <= MostPages BY <1>5 DEF Pages
    <3>4. m - 1 \in Pages BY <2>2, <3>3, <1>5 DEF Pages
    <3>5. ~(t = s /\ m - 1 = n) BY <1>1, <3>2
    <3>. QED BY <1>14, <3>2, <3>4, <3>5
  <2>5. At(t, m, "fetching")' => ~Observed(t, m)'
    <3>1. CASE t = s /\ m = n BY <1>9, <1>11, <1>15, <3>1 DEF At
    <3>2. CASE ~(t = s /\ m = n)
      <4>1. job'[<<t, m>>] = job[<<t, m>>] /\ (Observed(t, m)' <=> Observed(t, m)) BY <1>15, <1>16, <3>2
      <4>2. At(t, m, "fetching") => ~Observed(t, m) BY DEF RunInv, PagesInOrder
      <4>. QED BY <4>1, <4>2 DEF At
    <3>. QED BY <3>1, <3>2
  <2>. QED BY <2>3, <2>4, <2>5
<1>19. ContinuationsLinked'
  <2>. SUFFICES ASSUME NEW t \in Segments
               PROVE /\ run'[t].child <=> t + 1 \in Segments /\ run'[t + 1].status # "absent"
                     /\ run'[t].child => run'[t].pages = run[t].pages /\ Observed(t, run[t].pages)'
                                         /\ page'[<<t, run[t].pages>>] = "ceiling"
    BY DEF ContinuationsLinked, Observed
  <2>1. run'[t].child <=> t + 1 \in Segments /\ run'[t + 1].status # "absent"
    BY <1>8, <1>13 DEF RunInv, ContinuationsLinked
  <2>2. ASSUME run'[t].child
        PROVE  run'[t].pages = run[t].pages /\ Observed(t, run[t].pages)' /\ page'[<<t, run[t].pages>>] = "ceiling"
    <3>1. t # s BY <1>3, <1>8, <1>13, <2>2
    <3>2. run'[t] = run[t] BY <1>13, <3>1
    <3>3. Observed(t, run[t].pages) /\ page[<<t, run[t].pages>>] = "ceiling"
      BY <2>2, <3>2 DEF RunInv, ContinuationsLinked
    <3>4. run[t].pages \in Pages BY <3>3 DEF Observed
    <3>. QED BY <1>14, <1>16, <3>1, <3>2, <3>3, <3>4
  <2>. QED BY <2>1, <2>2
<1>20. DecisionsAllowed' BY <1>14, <1>16 DEF RunInv, DecisionsAllowed
<1>21. RowsNested'
  <2>1. \A t \in Segments, m \in Pages : HasJob(t, m)' <=> HasJob(t, m) BY <1>1, <1>11, <1>15 DEF HasJob
  <2>2. \A t \in Segments : There(t)' <=> There(t) BY <1>8, <1>13 DEF There
  <2>. QED BY <1>1, <1>16, <2>1, <2>2 DEF RunInv, RowsNested
<1>22. LinksBacked'
  <2>. SUFFICES ASSUME NEW t \in Segments, NEW m \in Pages
               PROVE /\ At(t, m, "linking")' => page'[<<t, m>>] = "ceiling"
                     /\ At(t, m, "linked")' => run'[t].child
    BY DEF LinksBacked
  <2>1. CASE t = s /\ m = n BY <1>9, <1>11, <1>14, <1>15, <2>1 DEF At
  <2>2. CASE ~(t = s /\ m = n) BY <1>8, <1>13, <1>14, <1>15, <2>2 DEF At, RunInv, LinksBacked
  <2>. QED BY <2>1, <2>2
<1>23. SweepBehind'
  <2>. SUFFICES ASSUME NEW w \in Sweepers, sweep[w].at # "idle"
               PROVE  /\ run'[sweep[w].run].status # "absent" /\ sweep[w].pages <= run'[sweep[w].run].pages
                      /\ sweep[w].at = "resuming" =>
                           /\ sweep[w].pages + 1 \in Pages
                           /\ \/ sweep[w].pages + 1 = 1
                              \/ page'[<<sweep[w].run, (sweep[w].pages + 1) - 1>>] \in {"continue", "defer"}
    BY <1>12 DEF SweepBehind, Behind, There, Due
  <2>1. sweep[w] \in SweepRow BY TypeParts DEF RunInv
  <2>2. sweep[w].run \in Segments /\ sweep[w].pages \in Nat /\ sweep[w].pages <= MostPages
    BY <1>5, <2>1 DEF SweepRow
  <2>3. Behind(sweep[w]) BY DEF RunInv, SweepBehind
  <2>4. run'[sweep[w].run].status # "absent" /\ sweep[w].pages <= run'[sweep[w].run].pages
    <3>1. CASE sweep[w].run = s BY <1>3, <1>5, <1>8, <1>13, <2>2, <2>3, <3>1 DEF Behind, There
    <3>2. CASE sweep[w].run # s BY <1>13, <2>2, <2>3, <3>2 DEF Behind, There
    <3>. QED BY <3>1, <3>2
  <2>5. ASSUME sweep[w].at = "resuming", sweep[w].pages + 1 # 1
        PROVE  page'[<<sweep[w].run, (sweep[w].pages + 1) - 1>>] \in {"continue", "defer"}
    <3>1. page[<<sweep[w].run, (sweep[w].pages + 1) - 1>>] \in {"continue", "defer"} BY <2>3, <2>5 DEF Behind, Due
    <3>2. (sweep[w].pages + 1) - 1 \in Pages BY <1>5, <2>2, <2>5 DEF Pages
    <3>3. ~(sweep[w].run = s /\ (sweep[w].pages + 1) - 1 = n) BY <1>1, <3>1
    <3>. QED BY <1>14, <2>2, <3>1, <3>2, <3>3
  <2>. QED BY <2>3, <2>4, <2>5 DEF Behind
<1>24. FailuresOfRuns'
  <2>1. \A f \in failures : f[1] \in Segments BY TypeParts DEF RunInv
  <2>. QED BY <1>8, <1>12, <1>13, <2>1 DEF RunInv, FailuresOfRuns, There
<1>. QED BY <1>17, <1>18, <1>19, <1>20, <1>21, <1>22, <1>23, <1>24 DEF RunInv

\* A run is linked, and nothing of it is there yet.
LEMMA LinkStep == ASSUME RunInv, NEW s \in Segments, NEW n \in Pages, Link(s, n) PROVE RunInv'
<1>1. There(s) /\ HasJob(s, n) /\ job[<<s, n>>].status = "PROCESSING" BY Executing DEF Link
<1>2. page[<<s, n>>] = "ceiling" BY DEF Link, RunInv, LinksBacked
<1>3. /\ run \in [Segments -> RunRow] /\ job \in [Segments \X Pages -> JobRow]
  BY TypeParts DEF RunInv
<1>4. UNCHANGED <<page, failures, sweep, faults>> /\ Goto(s, n, "linked") BY DEF Link
<1>5. CASE run[s].child
  <2>1. job' \in [Segments \X Pages -> JobRow] /\ JobsDue BY <1>1, <1>4, <1>5, Moved DEF Places
  <2>2. run' \in [Segments -> RunRow] /\ RunsKept BY <1>5, RunsUnchanged DEF Link
  <2>. QED BY <1>4, <2>1, <2>2, OthersUnchanged, Quiet
<1>6. CASE ~run[s].child
  <2>. DEFINE r == [run[s] EXCEPT !.child = TRUE]
              j == [job[<<s, n>>] EXCEPT !.at = "linked"]
  <2>1. n \in Nat /\ n >= 1 /\ n <= MostPages /\ MostPages \in Nat /\ LastRun \in Nat /\ s \in Nat /\ s >= 1 /\ s <= LastRun
    BY RunsAssumption DEF RunsAssumption, Pages, Segments
  <2>2. Observed(s, n) BY <1>2 DEF Observed
  <2>3. s + 1 \in Segments
    <3>1. "ceiling" \in Decisions(s, n) BY <1>2, <2>2 DEF RunInv, DecisionsAllowed
    <3>2. s < LastRun BY <3>1 DEF Decisions
    <3>. QED BY <2>1, <3>2 DEF Segments
  <2>4. ~There(s + 1) BY <1>6, <2>3 DEF RunInv, ContinuationsLinked, There
  <2>5. /\ run[s + 1].pages = 0 /\ run[s + 1].child = FALSE
        /\ \A m \in Pages : ~HasJob(s + 1, m) /\ ~Observed(s + 1, m)
    BY <2>3, <2>4, NotThere
  <2>6. run[s].pages = n
    <3>1. run[s] \in RunRow BY <1>3
    <3>2. run[s].pages \in Nat /\ run[s].pages <= MostPages BY <3>1, <2>1 DEF RunRow
    <3>3. n <= run[s].pages BY <2>2 DEF RunInv, PagesInOrder
    <3>4. ASSUME n + 1 <= run[s].pages PROVE FALSE
      <4>1. n + 1 \in Pages BY <2>1, <3>2, <3>4 DEF Pages
      <4>2. Observed(s, n + 1) BY <3>4, <4>1 DEF RunInv, PagesInOrder
      <4>3. HasJob(s, n + 1) BY <4>1, <4>2 DEF RunInv, RowsNested
      <4>4. n + 1 # 1 /\ (n + 1) - 1 = n BY <2>1
      <4>5. page[<<s, (n + 1) - 1>>] \in {"continue", "defer"} BY <4>1, <4>3, <4>4 DEF RunInv, PagesInOrder, HasJob
      <4>. QED BY <1>2, <4>4, <4>5
    <3>. QED BY <2>1, <3>2, <3>3, <3>4
  <2>7. run' = [run EXCEPT ![s] = r, ![s + 1] = Scheduled] BY <1>3, <1>6 DEF Link
  <2>8. job' = [job EXCEPT ![<<s, n>>] = j] BY <1>3, <1>4 DEF Goto
  <2>9. r \in RunRow /\ r.status = run[s].status /\ r.pages = n /\ r.child = TRUE
    <3>1. run[s] \in RunRow BY <1>3
    <3>. QED BY <2>6, <3>1 DEF RunRow
  <2>10. j \in JobRow /\ j.status = "PROCESSING" /\ j.at = "linked"
    <3>1. job[<<s, n>>] \in JobRow BY <1>3
    <3>. QED BY <1>1, <3>1 DEF JobRow, Places
  <2>11. Scheduled \in RunRow /\ Scheduled.status = "SCHEDULED" /\ Scheduled.pages = 0 /\ Scheduled.child = FALSE
    BY NoRows DEF Scheduled, NoRun
  <2>. HIDE DEF r, j
  <2>12. \A t \in Segments : run'[t] = IF t = s THEN r ELSE IF t = s + 1 THEN Scheduled ELSE run[t]
    <3>1. s # s + 1 BY <2>1
    <3>. QED BY <1>3, <2>7, <3>1
  <2>13. \A t \in Segments, m \in Pages : job'[<<t, m>>] = IF t = s /\ m = n THEN j ELSE job[<<t, m>>]
    BY <1>3, <2>8
  <2>14. \A t \in Segments, m \in Pages : Observed(t, m)' <=> Observed(t, m) BY <1>4 DEF Observed
  <2>15. \A t \in Segments : run'[t].pages = run[t].pages BY <2>5, <2>6, <2>9, <2>11, <2>12
  <2>16. \A t \in Segments : There(t) => run'[t].status # "absent" BY <1>1, <2>9, <2>11, <2>12 DEF There
  <2>17. \A t \in Segments, m \in Pages : HasJob(t, m)' <=> HasJob(t, m) BY <1>1, <2>10, <2>13 DEF HasJob
  <2>18. RunTypeOK'
    <3>1. run' \in [Segments -> RunRow] BY <1>3, <2>7, <2>9, <2>11
    <3>2. job' \in [Segments \X Pages -> JobRow] BY <1>3, <2>8, <2>10
    <3>. QED BY <1>4, <3>1, <3>2, TypeParts DEF RunInv, RunTypeOK, RunRow, JobRow, Places, SweepRow
  <2>19. PagesInOrder'
    <3>. SUFFICES ASSUME NEW t \in Segments, NEW m \in Pages
                 PROVE /\ Observed(t, m)' <=> m <= run'[t].pages
                       /\ job'[<<t, m>>].status # "absent" => m = 1 \/ page'[<<t, m - 1>>] \in {"continue", "defer"}
                       /\ At(t, m, "fetching")' => ~Observed(t, m)'
      BY DEF PagesInOrder
    <3>1. Observed(t, m)' <=> m <= run'[t].pages BY <2>14, <2>15 DEF RunInv, PagesInOrder
    <3>2. job'[<<t, m>>].status # "absent" => m = 1 \/ page'[<<t, m - 1>>] \in {"continue", "defer"}
      BY <1>4, <2>17 DEF RunInv, PagesInOrder, HasJob
    <3>3. At(t, m, "fetching")' => ~Observed(t, m)'
      <4>1. At(t, m, "fetching") => ~Observed(t, m) BY DEF RunInv, PagesInOrder
      <4>2. At(t, m, "fetching")' => At(t, m, "fetching") BY <2>10, <2>13 DEF At
      <4>. QED BY <2>14, <4>1, <4>2
    <3>. QED BY <3>1, <3>2, <3>3
  <2>20. ContinuationsLinked'
    <3>. SUFFICES ASSUME NEW t \in Segments
                 PROVE /\ run'[t].child <=> t + 1 \in Segments /\ run'[t + 1].status # "absent"
                       /\ run'[t].child => Observed(t, run[t].pages) /\ page[<<t, run[t].pages>>] = "ceiling"
      BY <1>4, <2>15 DEF ContinuationsLinked, Observed
    <3>1. t \in Nat BY RunsAssumption DEF Segments, RunsAssumption
    <3>2. CASE t = s
      <4>1. run'[t] = r /\ run'[t + 1] = Scheduled BY <2>1, <2>3, <2>12, <3>2
      <4>. QED BY <1>2, <2>2, <2>3, <2>6, <2>9, <2>11, <3>2, <4>1
    <3>3. CASE t = s + 1
      <4>1. run'[t] = Scheduled BY <2>1, <2>12, <3>3
      <4>2. ~(t + 1 \in Segments /\ run[t + 1].status # "absent") BY <2>5, <3>3 DEF RunInv, ContinuationsLinked
      <4>3. t + 1 # s /\ t + 1 # s + 1 BY <2>1, <3>3
      <4>. QED BY <2>11, <2>12, <4>1, <4>2, <4>3
    <3>4. CASE t # s /\ t # s + 1
      <4>1. run'[t] = run[t] BY <2>12, <3>4
      <4>2. t + 1 # s + 1 BY <2>1, <3>1, <3>4
      <4>3. t + 1 \in Segments => (run'[t + 1].status = "absent" <=> run[t + 1].status = "absent")
        BY <2>9, <2>12, <4>2
      <4>. QED BY <4>1, <4>3 DEF RunInv, ContinuationsLinked
    <3>. QED BY <3>2, <3>3, <3>4
  <2>21. DecisionsAllowed' BY <1>4, <2>14 DEF RunInv, DecisionsAllowed
  <2>22. RowsNested' BY <2>14, <2>16, <2>17 DEF RunInv, RowsNested, There
  <2>23. LinksBacked'
    <3>. SUFFICES ASSUME NEW t \in Segments, NEW m \in Pages
                 PROVE /\ At(t, m, "linking")' => page[<<t, m>>] = "ceiling"
                       /\ At(t, m, "linked")' => run'[t].child
      BY <1>4 DEF LinksBacked
    <3>1. CASE t = s /\ m = n BY <2>9, <2>10, <2>12, <2>13, <3>1 DEF At
    <3>2. CASE ~(t = s /\ m = n)
      <4>1. job'[<<t, m>>] = job[<<t, m>>] BY <2>13, <3>2
      <4>2. At(t, m, "linked") => t # s + 1 BY <2>5 DEF At, HasJob
      <4>. QED BY <2>9, <2>12, <4>1, <4>2 DEF At, RunInv, LinksBacked
    <3>. QED BY <3>1, <3>2
  <2>24. SweepBehind'
    <3>1. \A w \in Sweepers : sweep[w].run \in Segments BY TypeParts DEF RunInv, SweepRow
    <3>. QED BY <1>4, <2>15, <2>16, <3>1 DEF RunInv, SweepBehind, Behind, There, Due
  <2>25. FailuresOfRuns'
    <3>1. \A f \in failures : f[1] \in Segments BY TypeParts DEF RunInv
    <3>. QED BY <1>4, <2>16, <3>1 DEF RunInv, FailuresOfRuns, There
  <2>. QED BY <2>18, <2>19, <2>20, <2>21, <2>22, <2>23, <2>24, <2>25 DEF RunInv
<1>. QED BY <1>5, <1>6

LEMMA ScheduleStep == ASSUME RunInv, Schedule PROVE RunInv'
<1>1. 1 \in Segments /\ ~There(1) BY FirstSegment DEF Schedule, There
<1>2. /\ run[1].pages = 0 /\ run[1].child = FALSE
      /\ \A m \in Pages : ~HasJob(1, m) /\ ~Observed(1, m)
  BY <1>1, NotThere
<1>3. /\ run \in [Segments -> RunRow] /\ job \in [Segments \X Pages -> JobRow]
  BY TypeParts DEF RunInv
<1>4. /\ run' = [run EXCEPT ![1] = Scheduled] /\ job' = [job EXCEPT ![<<1, 1>>] = Queued]
      /\ UNCHANGED <<page, failures, sweep, faults>>
  BY DEF Schedule
<1>5. 1 \in Pages
  <2>1. EffectivePages[1] \in 1 .. MostPages /\ MostPages \in Nat
    BY <1>1, RunsAssumption DEF RunsAssumption, Pages
  <2>. QED BY <2>1 DEF Pages
<1>6. Scheduled \in RunRow /\ Scheduled.status = "SCHEDULED" /\ Scheduled.pages = 0 /\ Scheduled.child = FALSE
  BY NoRows DEF Scheduled, NoRun
<1>7. Queued \in JobRow /\ Queued.status = "PENDING" BY NoRows DEF Queued, NoJob
<1>8. \A t \in Segments : run'[t] = IF t = 1 THEN Scheduled ELSE run[t] BY <1>3, <1>4
<1>9. \A t \in Segments, m \in Pages : job'[<<t, m>>] = IF t = 1 /\ m = 1 THEN Queued ELSE job[<<t, m>>]
  BY <1>1, <1>3, <1>4, <1>5
<1>10. \A t \in Segments, m \in Pages : Observed(t, m)' <=> Observed(t, m) BY <1>4 DEF Observed
<1>11. \A t \in Segments : run'[t].pages = run[t].pages /\ run'[t].child = run[t].child BY <1>2, <1>6, <1>8
<1>12. \A t \in Segments : /\ run'[t].status # "absent" <=> There(t) \/ t = 1
  BY <1>6, <1>8 DEF There
<1>13. \A t \in Segments, m \in Pages :
         /\ At(t, m, "fetching")' => At(t, m, "fetching")
         /\ At(t, m, "linking")' => At(t, m, "linking")
         /\ At(t, m, "linked")' => At(t, m, "linked")
  BY <1>7, <1>9 DEF At
<1>14. \A t \in Segments, m \in Pages : HasJob(t, m)' <=> HasJob(t, m) \/ (t = 1 /\ m = 1)
  BY <1>7, <1>9 DEF HasJob
<1>15. RunTypeOK'
  <2>1. run' \in [Segments -> RunRow] BY <1>3, <1>4, <1>6
  <2>2. job' \in [Segments \X Pages -> JobRow] BY <1>3, <1>4, <1>7
  <2>. QED BY <1>4, <2>1, <2>2, TypeParts DEF RunInv, RunTypeOK, RunRow, JobRow, Places, SweepRow
<1>16. PagesInOrder'
  <2>. SUFFICES ASSUME NEW t \in Segments, NEW m \in Pages
               PROVE /\ Observed(t, m)' <=> m <= run'[t].pages
                     /\ job'[<<t, m>>].status # "absent" => m = 1 \/ page'[<<t, m - 1>>] \in {"continue", "defer"}
                     /\ At(t, m, "fetching")' => ~Observed(t, m)'
    BY DEF PagesInOrder
  <2>1. Observed(t, m)' <=> m <= run'[t].pages BY <1>10, <1>11 DEF RunInv, PagesInOrder
  <2>2. job'[<<t, m>>].status # "absent" => m = 1 \/ page'[<<t, m - 1>>] \in {"continue", "defer"}
    BY <1>4, <1>14 DEF RunInv, PagesInOrder, HasJob
  <2>3. At(t, m, "fetching") => ~Observed(t, m) BY DEF RunInv, PagesInOrder
  <2>. QED BY <1>10, <1>13, <2>1, <2>2, <2>3
<1>17. ContinuationsLinked'
  <2>. SUFFICES ASSUME NEW t \in Segments
               PROVE /\ run'[t].child <=> t + 1 \in Segments /\ run'[t + 1].status # "absent"
                     /\ run'[t].child => Observed(t, run[t].pages) /\ page[<<t, run[t].pages>>] = "ceiling"
    BY <1>4, <1>11 DEF ContinuationsLinked, Observed
  <2>1. t + 1 # 1 BY RunsAssumption DEF Segments, RunsAssumption
  <2>2. t + 1 \in Segments => (run'[t + 1].status # "absent" <=> run[t + 1].status # "absent")
    BY <1>12, <2>1 DEF There
  <2>. QED BY <1>11, <2>2 DEF RunInv, ContinuationsLinked
<1>18. DecisionsAllowed' BY <1>4, <1>10 DEF RunInv, DecisionsAllowed
<1>19. RowsNested' BY <1>10, <1>12, <1>14 DEF RunInv, RowsNested, There
<1>20. LinksBacked' BY <1>4, <1>11, <1>13 DEF RunInv, LinksBacked
<1>21. SweepBehind'
  <2>1. \A w \in Sweepers : sweep[w].run \in Segments BY TypeParts DEF RunInv, SweepRow
  <2>. QED BY <1>4, <1>11, <1>12, <2>1 DEF RunInv, SweepBehind, Behind, There, Due
<1>22. FailuresOfRuns'
  <2>1. \A f \in failures : f[1] \in Segments BY TypeParts DEF RunInv
  <2>. QED BY <1>4, <1>12, <2>1 DEF RunInv, FailuresOfRuns, There
<1>. QED BY <1>15, <1>16, <1>17, <1>18, <1>19, <1>20, <1>21, <1>22 DEF RunInv

LEMMA RunInvNext == RunInv /\ [RunNext]_runVars => RunInv'
<1>. SUFFICES ASSUME RunInv, [RunNext]_runVars PROVE RunInv' OBVIOUS
<1>1. CASE Schedule BY <1>1, ScheduleStep
<1>2. CASE WorkerDies BY <1>2, WorkerDiesStep
<1>3. CASE \E w \in Sweepers : SweepStep(w)
  <2>. PICK w \in Sweepers : SweepStep(w) BY <1>3
  <2>. QED
    BY SweepRetiresStep, SweepSkipsStep, SweepFinalizesStep, SweepLocksStep, SweepDeniedStep, SweepEnqueuesStep,
       SweepResumedStep
    DEF SweepStep
<1>4. CASE \E w \in Sweepers : SweepFails(w) \/ \E s \in Segments : SweepRead(w, s)
  BY <1>4, SweepFailsStep, SweepReadStep
<1>5. CASE \E s \in Segments : DeferralPasses(s) BY <1>5, DeferralPassesStep
<1>6. CASE \E s \in Segments : \E n \in Pages : Work(s, n)
  <2>. PICK s \in Segments, n \in Pages : Work(s, n) BY <1>6
  <2>. QED
    BY ClaimStep, WithholdStep, StartRunStep, DeferRunStep, ExtendStep, DenyStep, LinkStep, EnqueueChildStep,
       CompleteStep, CloseStep, RecoverStep, FailJobStep, RecordPageStep DEF Work
<1>7. CASE \E f \in failures : FailRun(f) BY <1>7, FailRunStep
<1>8. CASE UNCHANGED runVars
  BY <1>8, RunsUnchanged, JobsUnchanged, OthersUnchanged, Quiet DEF runVars
<1>. QED BY <1>1, <1>2, <1>3, <1>4, <1>5, <1>6, <1>7, <1>8 DEF RunNext

\* The rows of a chain of runs have their types, in every behaviour.
THEOREM RunTypeCorrect == RunSpec => []RunTypeOK
<1>1. RunInv => RunTypeOK BY DEF RunInv
<1>. QED BY <1>1, RunInvInit, RunInvNext, PTL DEF RunSpec

\* However many pages, retries, crashes and sweeps there are, a run pays for its pages in
\* order, each after one that went on, and for none that is durable.
THEOREM OrderedPages == RunSpec => []PagesInOrder
<1>1. RunInv => PagesInOrder BY DEF RunInv
<1>. QED BY <1>1, RunInvInit, RunInvNext, PTL DEF RunSpec

\* A continuation is started once, and only of a run that met the safety ceiling.
THEOREM LinkedContinuations == RunSpec => []ContinuationsLinked
<1>1. RunInv => ContinuationsLinked BY DEF RunInv
<1>. QED BY <1>1, RunInvInit, RunInvNext, PTL DEF RunSpec

(***************************************************************************)
(* What is durable stays                                                   *)
(***************************************************************************)
RowFollows(old, new) == /\ old.status \in Terminal => new.status = old.status
                        /\ new.pages >= old.pages
                        /\ old.child => new.child
RunsFollow == \A s \in Segments : RowFollows(run[s], run'[s])

LEMMA RowItself ==
  ASSUME RunInv, NEW s \in Segments
  PROVE  run[s] \in RunRow /\ run[s].pages \in Nat /\ RowFollows(run[s], run[s])
<1>1. run[s] \in RunRow BY TypeParts DEF RunInv
<1>2. run[s].pages \in Nat BY <1>1, RunsAssumption DEF RunRow, RunsAssumption
<1>. QED BY <1>1, <1>2 DEF RowFollows

LEMMA OneRowFollows ==
  ASSUME RunInv, NEW s \in Segments, NEW r, RowFollows(run[s], r), run' = [run EXCEPT ![s] = r]
  PROVE  RunsFollow
<1>1. run \in [Segments -> RunRow] BY TypeParts DEF RunInv
<1>2. \A t \in Segments : run'[t] = IF t = s THEN r ELSE run[t] BY <1>1
<1>. QED BY <1>2, RowItself DEF RunsFollow

LEMMA SameRowsFollow == ASSUME RunInv, run' = run PROVE RunsFollow
BY RowItself DEF RunsFollow

\* The ends of a run leave one that is over as it is.
LEMMA EndingsFollow ==
  ASSUME RunInv, NEW s \in Segments
  PROVE  /\ RowFollows(run[s], Completed(s)) /\ RowFollows(run[s], Deferred(s))
         /\ \A terminal \in BOOLEAN : RowFollows(run[s], Failed(s, terminal))
<1>1. run[s] \in RunRow /\ run[s].pages \in Nat BY RowItself
<1>2. RowFollows(run[s], Completed(s)) BY <1>1 DEF RowFollows, Completed, Ended, RunRow
<1>3. RowFollows(run[s], Deferred(s)) BY <1>1 DEF RowFollows, Deferred, Ended, RunRow
<1>4. \A terminal \in BOOLEAN : RowFollows(run[s], Failed(s, terminal)) BY <1>1 DEF RowFollows, Failed, Ended, RunRow
<1>. QED BY <1>2, <1>3, <1>4

\* Whether a run goes on says nothing of its end.
LEMMA GoingOnFollows ==
  ASSUME RunInv, NEW s \in Segments, run' = [run EXCEPT ![s].continuation = "RUNNING"]
  PROVE  RunsFollow
<1>. DEFINE r == [run[s] EXCEPT !.continuation = "RUNNING"]
<1>1. run \in [Segments -> RunRow] BY TypeParts DEF RunInv
<1>2. run[s] \in RunRow /\ run[s].pages \in Nat BY RowItself
<1>3. RowFollows(run[s], r) BY <1>2 DEF RowFollows, RunRow
<1>4. run' = [run EXCEPT ![s] = r] BY <1>1
<1>. HIDE DEF r
<1>. QED BY <1>3, <1>4, OneRowFollows

LEMMA StartRunFollows == ASSUME RunInv, NEW s \in Segments, NEW n \in Pages, StartRun(s, n) PROVE RunsFollow
<1>1. CASE Ended(s) BY <1>1, SameRowsFollow DEF StartRun
<1>2. CASE ~Ended(s)
  <2>. DEFINE r == [run[s] EXCEPT !.status = "RUNNING"]
  <2>1. run \in [Segments -> RunRow] BY TypeParts DEF RunInv
  <2>2. run[s] \in RunRow /\ run[s].pages \in Nat BY RowItself
  <2>3. RowFollows(run[s], r) BY <1>2, <2>2 DEF RowFollows, RunRow, Ended
  <2>4. run' = [run EXCEPT ![s] = r] BY <1>2, <2>1 DEF StartRun
  <2>. HIDE DEF r
  <2>. QED BY <2>3, <2>4, OneRowFollows
<1>. QED BY <1>1, <1>2

LEMMA RecordPageFollows ==
  ASSUME RunInv, NEW s \in Segments, NEW n \in Pages, NEW decision, RecordPage(s, n, decision)
  PROVE  RunsFollow
<1>. DEFINE r == [run[s] EXCEPT !.pages = IF @ < n THEN n ELSE @]
<1>1. run \in [Segments -> RunRow] BY TypeParts DEF RunInv
<1>2. run[s] \in RunRow /\ run[s].pages \in Nat BY RowItself
<1>3. n \in Nat BY RunsAssumption DEF Pages, RunsAssumption
<1>4. RowFollows(run[s], r) BY <1>2, <1>3 DEF RowFollows, RunRow
<1>5. run' = [run EXCEPT ![s] = r] BY <1>1 DEF RecordPage
<1>. HIDE DEF r
<1>. QED BY <1>4, <1>5, OneRowFollows

\* A row that is inserted replaces none.
LEMMA NewRowFollows ==
  ASSUME RunInv, NEW s \in Segments, ~There(s)
  PROVE  RowFollows(run[s], Scheduled)
<1>1. run[s].pages = 0 /\ run[s].child = FALSE BY NotThere
<1>2. run[s].status = "absent" BY DEF There
<1>3. Scheduled.pages = 0 BY DEF Scheduled, NoRun
<1>. QED BY <1>1, <1>2, <1>3 DEF RowFollows, Terminal

LEMMA LinkFollows == ASSUME RunInv, NEW s \in Segments, NEW n \in Pages, Link(s, n) PROVE RunsFollow
<1>1. CASE run[s].child BY <1>1, SameRowsFollow DEF Link
<1>2. CASE ~run[s].child
  <2>. DEFINE r == [run[s] EXCEPT !.child = TRUE]
  <2>1. run \in [Segments -> RunRow] BY TypeParts DEF RunInv
  <2>2. run[s] \in RunRow /\ run[s].pages \in Nat BY RowItself
  <2>3. RowFollows(run[s], r) BY <2>2 DEF RowFollows, RunRow
  <2>4. run' = [run EXCEPT ![s] = r, ![s + 1] = Scheduled] BY <1>2, <2>1 DEF Link
  <2>. HIDE DEF r
  <2>5. s + 1 # s BY RunsAssumption DEF Segments, RunsAssumption
  <2>6. \A t \in Segments : run'[t] = IF t = s THEN r ELSE IF t = s + 1 THEN Scheduled ELSE run[t]
    BY <2>1, <2>4, <2>5
  <2>7. s + 1 \in Segments => ~There(s + 1) BY <1>2 DEF RunInv, ContinuationsLinked, There
  <2>8. s + 1 \in Segments => RowFollows(run[s + 1], Scheduled) BY <2>7, NewRowFollows
  <2>. QED BY <2>3, <2>6, <2>8, RowItself DEF RunsFollow
<1>. QED BY <1>1, <1>2

LEMMA RunsNext == ASSUME RunInv, [RunNext]_runVars PROVE RunsFollow
<1>1. ASSUME NEW s \in Segments, NEW n \in Pages, Work(s, n) PROVE RunsFollow
  <2>1. CASE Claim(s, n) \/ Deny(s, n) \/ EnqueueChild(s, n) \/ Close(s, n) \/ Recover(s, n) \/ FailJob(s, n)
    BY <2>1, SameRowsFollow DEF Claim, Deny, EnqueueChild, Close, Recover, FailJob
  <2>2. CASE Withhold(s, n) \/ DeferRun(s, n) \/ Complete(s, n)
    BY <2>2, EndingsFollow, OneRowFollows DEF Withhold, DeferRun, Complete
  <2>3. CASE StartRun(s, n) BY <2>3, StartRunFollows
  <2>4. CASE Extend(s, n) BY <2>4, GoingOnFollows DEF Extend
  <2>5. CASE Link(s, n) BY <2>5, LinkFollows
  <2>6. CASE \E decision \in Decisions(s, n) : RecordPage(s, n, decision) BY <2>6, RecordPageFollows
  <2>. QED BY <1>1, <2>1, <2>2, <2>3, <2>4, <2>5, <2>6 DEF Work
<1>2. CASE Schedule
  <2>1. 1 \in Segments /\ ~There(1) BY <1>2, FirstSegment DEF Schedule, There
  <2>. QED BY <1>2, <2>1, NewRowFollows, OneRowFollows DEF Schedule
<1>3. CASE WorkerDies BY <1>3, SameRowsFollow DEF WorkerDies
<1>4. ASSUME NEW w \in Sweepers, SweepStep(w) PROVE RunsFollow
  <2>1. sweep[w].run \in Segments BY TypeParts DEF RunInv, SweepRow
  <2>2. CASE SweepRetires(w) \/ SweepFinalizes(w) \/ SweepDenied(w)
    BY <2>1, <2>2, EndingsFollow, OneRowFollows DEF SweepRetires, SweepFinalizes, SweepDenied
  <2>3. CASE SweepSkips(w) \/ SweepLocks(w) \/ SweepEnqueues(w)
    BY <2>3, SameRowsFollow DEF SweepSkips, SweepLocks, SweepEnqueues
  <2>4. CASE SweepResumed(w) BY <2>1, <2>4, GoingOnFollows DEF SweepResumed
  <2>. QED BY <1>4, <2>2, <2>3, <2>4 DEF SweepStep
<1>5. ASSUME NEW w \in Sweepers, SweepFails(w) \/ \E s \in Segments : SweepRead(w, s) PROVE RunsFollow
  BY <1>5, SameRowsFollow DEF SweepFails, SweepRead
<1>6. ASSUME NEW s \in Segments, DeferralPasses(s) PROVE RunsFollow
  <2>. DEFINE r == [run[s] EXCEPT !.due = TRUE]
  <2>1. run \in [Segments -> RunRow] BY TypeParts DEF RunInv
  <2>2. run[s] \in RunRow /\ run[s].pages \in Nat BY RowItself
  <2>3. RowFollows(run[s], r) BY <2>2 DEF RowFollows, RunRow
  <2>4. run' = [run EXCEPT ![s] = r] BY <1>6, <2>1 DEF DeferralPasses
  <2>. HIDE DEF r
  <2>. QED BY <2>3, <2>4, OneRowFollows
<1>7. ASSUME NEW f \in failures, FailRun(f) PROVE RunsFollow
  <2>1. f[1] \in Segments /\ f[2] \in BOOLEAN BY TypeParts DEF RunInv
  <2>. QED BY <1>7, <2>1, EndingsFollow, OneRowFollows DEF FailRun
<1>8. CASE UNCHANGED runVars BY <1>8, SameRowsFollow DEF runVars
<1>. QED BY <1>1, <1>2, <1>3, <1>4, <1>5, <1>6, <1>7, <1>8 DEF RunNext

\* A step keeps all observations, or records one of a page that had none.
LEMMA PagesNext ==
  ASSUME RunInv, [RunNext]_runVars, NEW s \in Segments, NEW n \in Pages, Observed(s, n)
  PROVE  page'[<<s, n>>] = page[<<s, n>>]
<1>1. CASE page' = page BY <1>1
<1>2. CASE \E t \in Segments, m \in Pages, decision \in {"continue", "stop", "defer", "ceiling"} : RecordPage(t, m, decision)
  <2>. PICK t \in Segments, m \in Pages, decision \in {"continue", "stop", "defer", "ceiling"} : RecordPage(t, m, decision)
    BY <1>2
  <2>1. page \in [Segments \X Pages -> {"none", "continue", "stop", "defer", "ceiling"}] BY TypeParts DEF RunInv
  <2>2. page[<<t, m>>] = "none" /\ page' = [page EXCEPT ![<<t, m>>] = decision] BY DEF RecordPage
  <2>3. ~(s = t /\ n = m) BY <2>2 DEF Observed
  <2>. QED BY <2>1, <2>2, <2>3
<1>3. \A t \in Segments, m \in Pages : Decisions(t, m) \subseteq {"continue", "stop", "defer", "ceiling"}
  BY DEF Decisions
<1>4. ASSUME NEW t \in Segments, NEW m \in Pages, Work(t, m) PROVE page' = page \/ \E decision \in Decisions(t, m) : RecordPage(t, m, decision)
  BY <1>4 DEF Work, Claim, Withhold, StartRun, DeferRun, Extend, Deny, Link, EnqueueChild, Complete, Close, Recover, FailJob
<1>5. ASSUME NEW w \in Sweepers, SweepStep(w) \/ SweepFails(w) \/ \E t \in Segments : SweepRead(w, t)
      PROVE  page' = page
  BY <1>5 DEF SweepStep, SweepRetires, SweepSkips, SweepFinalizes, SweepLocks, SweepDenied, SweepEnqueues, SweepResumed,
              SweepFails, SweepRead
<1>. QED BY <1>1, <1>2, <1>3, <1>4, <1>5 DEF RunNext, runVars, Schedule, WorkerDies, DeferralPasses, FailRun

\* A run that ended keeps its end, no count falls, no continuation is lost, no observation is
\* replaced, although the sweep and late failures write rows they read long before.
THEOREM DurableHistory == RunSpec => HistoryKept
<1>1. RunInv /\ [RunNext]_runVars =>
        [\A s \in Segments :
           /\ Ended(s) => run'[s].status = run[s].status
           /\ run'[s].pages >= run[s].pages
           /\ run[s].child => run'[s].child
           /\ \A n \in Pages : Observed(s, n) => page'[<<s, n>>] = page[<<s, n>>]]_runVars
  <2>. SUFFICES ASSUME RunInv, [RunNext]_runVars, NEW s \in Segments
               PROVE  /\ Ended(s) => run'[s].status = run[s].status
                      /\ run'[s].pages >= run[s].pages
                      /\ run[s].child => run'[s].child
                      /\ \A n \in Pages : Observed(s, n) => page'[<<s, n>>] = page[<<s, n>>]
    OBVIOUS
  <2>1. RowFollows(run[s], run'[s]) BY RunsNext DEF RunsFollow
  <2>. QED BY <2>1, PagesNext DEF RowFollows, Ended
<1>. QED BY <1>1, RunInvInit, RunInvNext, PTL DEF RunSpec, HistoryKept
=============================================================================
