---------------------- MODULE YouTubeRequestScheduler ----------------------
(***************************************************************************)
(* The in-process queue in front of every YouTube Data API request         *)
(* (src/server/youtubeRequestScheduler.ts) and the provenance fence that   *)
(* travels through it (src/server/officialYouTubeQuotaFence.ts).           *)
(*                                                                         *)
(* Callers push requests; one drain loop takes them one at a time, paced   *)
(* by a minimum interval, and retries a request according to the class of  *)
(* its error.  Clocks are abstracted to two flags the code derives from    *)
(* them: which queued requests have waited starvationMs (aged), and        *)
(* whether nextStartAt has passed (paced).  The code's                     *)
(* adaptiveIntervalMs is never raised, so the interval is constant.        *)
(***************************************************************************)
EXTENDS Naturals

CONSTANTS Requests,      \* the requests that may ever be pushed
          NoRequest,     \* no request selected
          MaxRetries,    \* maxRuntimeRateLimitRetries, 30 in production
          MaxCoolings,   \* bound on the short shared pauses the providers answer with
          Priority,      \* request -> the priority its caller gives
          Lineage        \* request -> the origins that its caller's enclosing contexts declared

ASSUME SchedulerAssumption == NoRequest \notin Requests /\ MaxRetries \in Nat /\ MaxCoolings \in Nat

Priorities == {"manual", "autonomous", "enrichment", "incident-recovery"}
Origins == {"NORMAL", "PROBE", "UNKNOWN"}

ASSUME CallersAssumption == /\ Priority \in [Requests -> Priorities]
                            /\ Lineage \in [Requests -> SUBSET Origins]

VARIABLES sequence,   \* the next sequence number
          status,     \* request -> new, queued, selected, resolved or rejected
          entry,      \* request -> the sequence number and quotaOrigin of its QueuedRequest
          aged,       \* queued requests that have waited starvationMs
          paced,      \* the pacing interval since the last start is over
          drain,      \* the drain loop: its place, its request and its locals
          coolings,   \* short shared pauses answered so far (bounded)
          contexts,   \* request -> origins its call was dispatched under
          limited     \* request -> rate-limit answers its dispatches got

vars == <<sequence, status, entry, aged, paced, drain, coolings, contexts, limited>>

Rank == [p \in Priorities |-> CASE p = "manual" -> 0 [] p = "autonomous" -> 1
                                [] p = "enrichment" -> 2 [] p = "incident-recovery" -> 3]

\* The most restrictive of the origins a call chain declared; no evidence is NORMAL.
MergedOrigin(lineage) == IF "PROBE" \in lineage THEN "PROBE"
                         ELSE IF "UNKNOWN" \in lineage THEN "UNKNOWN" ELSE "NORMAL"

Entry == [seq : Nat, origin : Origins]
Drain == [at : {"idle", "top", "pacing", "calling", "cooling"}, request : Requests \cup {NoRequest},
          retries : 0 .. MaxRetries, origin : Origins]
Blank == [seq |-> 0, origin |-> "NORMAL"]
Loop(at, r, retries, origin) == [at |-> at, request |-> r, retries |-> retries, origin |-> origin]
Asleep == Loop("idle", NoRequest, 0, "NORMAL")

TypeOK ==
  /\ sequence \in Nat /\ coolings \in 0 .. MaxCoolings /\ paced \in BOOLEAN
  /\ status \in [Requests -> {"new", "queued", "selected", "resolved", "rejected"}]
  /\ entry \in [Requests -> Entry]
  /\ aged \in SUBSET Requests
  /\ drain \in Drain
  /\ contexts \in [Requests -> SUBSET Origins]
  /\ limited \in [Requests -> Nat]

Init ==
  /\ sequence = 0 /\ coolings = 0 /\ paced = TRUE /\ aged = {} /\ drain = Asleep
  /\ status = [r \in Requests |-> "new"]
  /\ entry = [r \in Requests |-> Blank]
  /\ contexts = [r \in Requests |-> {}]
  /\ limited = [r \in Requests |-> 0]

Queue == {r \in Requests : status[r] = "queued"}

(***************************************************************************)
(* run: the caller's context, narrowed by every enclosing                  *)
(* runWithOfficialYouTubeQuotaOrigin, must be known; it is captured in the *)
(* entry.  The push starts the drain loop, in the caller's context, unless *)
(* one is running.                                                         *)
(***************************************************************************)
Push(r) ==
  LET origin == MergedOrigin(Lineage[r]) IN
  /\ status[r] = "new" /\ origin # "UNKNOWN"
  /\ entry' = [entry EXCEPT ![r] = [seq |-> sequence, origin |-> origin]]
  /\ sequence' = sequence + 1
  /\ status' = [status EXCEPT ![r] = "queued"]
  /\ drain' = IF drain.at = "idle" THEN Loop("top", NoRequest, 0, origin) ELSE drain
  /\ UNCHANGED <<aged, paced, coolings, contexts, limited>>

\* Time passes: entries age in the order they were pushed, and the interval runs out.
Age(r) ==
  /\ r \in Queue \ aged
  /\ \A q \in Queue \ aged : entry[r].seq <= entry[q].seq
  /\ aged' = aged \cup {r}
  /\ UNCHANGED <<sequence, status, entry, paced, drain, coolings, contexts, limited>>

Pace ==
  /\ ~paced /\ paced' = TRUE
  /\ UNCHANGED <<sequence, status, entry, aged, drain, coolings, contexts, limited>>

\* A priority queue that looks at starvation only within the best rank.
Preferred_PriorityFirst ==
  {r \in Queue : \A q \in Queue : Rank[Priority[r]] <= Rank[Priority[q]]}

\* takeNextRequest: manual work, else whatever has starved, else the best rank; the oldest of these.
Preferred ==
  LET manual == {r \in Queue : Priority[r] = "manual"}
      starved == Queue \cap aged
  IN IF manual # {} THEN manual
     ELSE IF starved # {} THEN starved
     ELSE {r \in Queue : \A q \in Queue : Rank[Priority[r]] <= Rank[Priority[q]]}

IsNext(r) == r \in Preferred /\ \A q \in Preferred : entry[r].seq <= entry[q].seq

\* The asynchronous context in which the loop was started.
Context_OfDrainer(r) == drain.origin

\* The origin a call runs under: the captured one, whoever drains the queue.
Context(r) == entry[r].origin

\* processQueue: an empty queue ends the loop; before nextStartAt it waits, then takes.
Drained == /\ drain.at = "top" /\ Queue = {}
           /\ drain' = Asleep
           /\ UNCHANGED <<sequence, status, entry, aged, paced, coolings, contexts, limited>>

WaitForPace == /\ drain.at = "top" /\ Queue # {} /\ ~paced
               /\ drain' = Loop("pacing", NoRequest, 0, drain.origin)
               /\ UNCHANGED <<sequence, status, entry, aged, paced, coolings, contexts, limited>>

Take(r) ==
  /\ drain.at \in {"top", "pacing"} /\ paced /\ IsNext(r)
  /\ status' = [status EXCEPT ![r] = "selected"]
  /\ paced' = FALSE
  /\ drain' = Loop("calling", r, 0, drain.origin)
  /\ contexts' = [contexts EXCEPT ![r] = @ \cup {Context(r)}]
  /\ aged' = aged \ {r}
  /\ UNCHANGED <<sequence, entry, coolings, limited>>

\* An error that escapes ends the loop.
Settle_StopsOnError(r, verdict) ==
  /\ status' = [status EXCEPT ![r] = verdict]
  /\ drain' = IF verdict = "rejected" THEN Asleep ELSE Loop("top", NoRequest, 0, drain.origin)
  /\ UNCHANGED <<sequence, entry, aged, paced, coolings, contexts>>

\* The request is settled and the loop goes on.
Settle(r, verdict) ==
  /\ status' = [status EXCEPT ![r] = verdict]
  /\ drain' = Loop("top", NoRequest, 0, drain.origin)
  /\ UNCHANGED <<sequence, entry, aged, paced, coolings, contexts>>

Calling(r) == drain.at = "calling" /\ drain.request = r

Succeed(r) == Calling(r) /\ Settle(r, "resolved") /\ UNCHANGED limited

\* A refused probe, a provider-local quarantine too long to absorb, or any other error.
Fail(r) == Calling(r) /\ Settle(r, "rejected") /\ UNCHANGED limited

\* A short pause of the shared runtime: absorbed here and never counted as a retry.
Cool(r) ==
  /\ Calling(r) /\ coolings < MaxCoolings
  /\ coolings' = coolings + 1
  /\ drain' = Loop("cooling", r, drain.retries, drain.origin)
  /\ UNCHANGED <<sequence, status, entry, aged, paced, contexts, limited>>

\* The retries are counted anew after a pause.
Resume_CountsAnew(r) ==
  /\ drain.at = "cooling" /\ drain.request = r /\ paced
  /\ paced' = FALSE
  /\ drain' = Loop("calling", r, 0, drain.origin)
  /\ contexts' = [contexts EXCEPT ![r] = @ \cup {Context(r)}]
  /\ UNCHANGED <<sequence, status, entry, aged, coolings, limited>>

Resume(r) ==
  /\ drain.at = "cooling" /\ drain.request = r /\ paced
  /\ paced' = FALSE
  /\ drain' = Loop("calling", r, drain.retries, drain.origin)
  /\ contexts' = [contexts EXCEPT ![r] = @ \cup {Context(r)}]
  /\ UNCHANGED <<sequence, status, entry, aged, coolings, limited>>

\* A raw 429.  A dispatch that holds a quota reservation is surfaced at once; any
\* other is replayed at once, on another provider, while retries remain.
MayReplay(reserved) == ~reserved /\ drain.retries < MaxRetries

RateLimited(r, reserved) ==
  /\ Calling(r)
  /\ limited' = [limited EXCEPT ![r] = @ + 1]
  /\ IF MayReplay(reserved)
     THEN /\ drain' = Loop("calling", r, drain.retries + 1, drain.origin)
          /\ contexts' = [contexts EXCEPT ![r] = @ \cup {Context(r)}]
          /\ UNCHANGED <<sequence, status, entry, aged, paced, coolings>>
     ELSE Settle(r, "rejected")

Answer(r) == Succeed(r) \/ Fail(r) \/ Cool(r) \/ RateLimited(r, TRUE) \/ RateLimited(r, FALSE)
Step(r) == Take(r) \/ Resume(r)

SchedulerNext ==
  \/ \E r \in Requests : Push(r) \/ Age(r) \/ Step(r) \/ Answer(r)
  \/ Pace \/ Drained \/ WaitForPace

SchedulerSpec == Init /\ [][SchedulerNext]_vars

\* The timers fire, the event loop runs the continuations, and every call is answered.
SchedulerFairness ==
  /\ WF_vars(Pace) /\ WF_vars(WaitForPace \/ Drained)
  /\ WF_vars(\E r \in Requests : Step(r))
  /\ WF_vars(\E r \in Requests : Answer(r))
FairSchedulerSpec == SchedulerSpec /\ SchedulerFairness

(***************************************************************************)
(* Properties                                                              *)
(***************************************************************************)
\* Work begun under a probe is dispatched as probe work, and no other work is,
\* whichever caller's context drains the shared queue and however often it is retried.
ProvenanceKept ==
  \A r \in Requests : contexts[r] \subseteq {IF "PROBE" \in Lineage[r] THEN "PROBE" ELSE "NORMAL"}

\* A request that has waited starvationMs is overtaken by manual work only.
AgedNotOvertaken ==
  [][\A r, s \in Requests :
       /\ status[s] = "queued" /\ status'[s] = "selected"
       /\ r \in Queue \cap aged /\ entry[r].seq < entry[s].seq
       => Priority[s] = "manual"]_vars

\* However pauses and retries alternate, a request gets at most MaxRetries + 1
\* rate-limit answers from the providers.
ReplaysBounded == \A r \in Requests : limited[r] <= MaxRetries + 1

\* Every pushed request is settled, once manual work and pauses stop coming.
EveryRequestSettled ==
  Queue # {} ~> \A r \in Requests : status[r] \in {"new", "resolved", "rejected"}
=============================================================================
