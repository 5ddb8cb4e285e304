-------------------------- MODULE YouTubeKeyHealth --------------------------
(***************************************************************************)
(* Health of the pool of YouTube API keys: the in-memory cooldown of each  *)
(* key (src/server/youtubeProviderCooldown.ts), the durable suspension     *)
(* rows that survive a restart (src/server/youtubeKeyHealth.ts, dbCore.ts) *)
(* and the calls that read and write both (src/server/youtube.ts).         *)
(*                                                                         *)
(* Verdicts on a key are ordered by its failure generation.  A call        *)
(* remembers the generation it was dispatched under, and rehabilitates its *)
(* key only while that is still the newest.  Durable writes go through one *)
(* in-process chain, in order of arrival.  Clocks become the steps that a  *)
(* horizon passes; a retry horizon always passes after the chained writes. *)
(***************************************************************************)
EXTENDS Naturals, Sequences, SequencesExt

CONSTANTS PoolKeys, Calls, NoKey,
          MaxFailures,  \* bound on the verdicts against keys per process life
          MaxWrites     \* bound on the durable writes that wait at a time

ASSUME HealthAssumption == NoKey \notin PoolKeys

VARIABLES generation,  \* key -> failureGenerations
          quarantine,  \* key -> the quarantines in force: daily, local, suspended
          confirming,  \* keys rate limited within the confirmation window
          paused,      \* the short pause of the shared runtime
          candidates,  \* suspensionCandidates: keys that may own a durable row
          hydrated,    \* the durable rows were loaded since the process started
          blind,       \* keys dispatched since then, because a load had failed
          rows,        \* key -> its durable row: none, fresh, or due for a probe
          unsaved,     \* keys whose newest suspension could not be written
          chain,       \* suspensionWriteChain: writes not finished yet
          call         \* call -> the key it is on the wire with, and its generation

healthVars == <<generation, quarantine, confirming, paused, candidates, hydrated, blind, rows, unsaved, chain, call>>

NoCall == [key |-> NoKey, generation |-> 0]
Write(kind, k, g) == [kind |-> kind, key |-> k, generation |-> g]
Writes == [kind : {"persist", "clear", "deleting", "deleted"}, key : PoolKeys, generation : Nat]

HealthTypeOK ==
  /\ generation \in [PoolKeys -> Nat]
  /\ quarantine \in [PoolKeys -> SUBSET {"daily", "local", "suspended"}]
  /\ confirming \in SUBSET PoolKeys /\ candidates \in SUBSET PoolKeys /\ unsaved \in SUBSET PoolKeys /\ blind \in SUBSET PoolKeys
  /\ paused \in BOOLEAN /\ hydrated \in BOOLEAN
  /\ rows \in [PoolKeys -> {"none", "fresh", "due"}]
  /\ chain \in Seq(Writes)
  /\ call \in [Calls -> [key : PoolKeys \cup {NoKey}, generation : Nat]]

Fresh ==
  /\ generation = [k \in PoolKeys |-> 0] /\ quarantine = [k \in PoolKeys |-> {}]
  /\ confirming = {} /\ paused = FALSE /\ candidates = {} /\ hydrated = FALSE /\ blind = {}
  /\ chain = <<>> /\ call = [c \in Calls |-> NoCall]

HealthInit == Fresh /\ rows = [k \in PoolKeys |-> "none"] /\ unsaved = {}

Pending(k) == \E i \in DOMAIN chain : chain[i].key = k

(***************************************************************************)
(* The first dispatch loads the durable rows; restoreSuspended counts as a *)
(* verdict.  A load that fails is not cached, and its caller goes on.      *)
(***************************************************************************)
Hydrate ==
  /\ ~hydrated
  /\ hydrated' = TRUE
  /\ LET kept == {k \in PoolKeys : rows[k] # "none"} IN
     /\ generation' = [k \in PoolKeys |-> IF k \in kept THEN generation[k] + 1 ELSE generation[k]]
     /\ candidates' = candidates \cup kept
     /\ quarantine' = [k \in PoolKeys |-> IF k \notin kept THEN quarantine[k]
                                      ELSE IF rows[k] = "fresh" THEN {"suspended"} ELSE {}]
  /\ UNCHANGED <<confirming, paused, blind, rows, unsaved, chain, call>>

Eligible(k) == ~paused /\ quarantine[k] = {}

\* youtubeFetch: an eligible key, and its generation captured before the request leaves.
Dispatch(c, k) ==
  /\ call[c] = NoCall /\ Eligible(k)
  /\ call' = [call EXCEPT ![c] = [key |-> k, generation |-> generation[k]]]
  /\ blind' = IF hydrated THEN blind ELSE blind \cup {k}
  /\ UNCHANGED <<generation, quarantine, confirming, paused, candidates, hydrated, rows, unsaved, chain>>

\* failed: a newer verdict.  A suspension replaces every other quarantine and is
\* written durably; a rate limit pauses the runtime when another key confirms it.
FailureQuarantine(k, kind) ==
  CASE kind = "suspended" -> {"suspended"}
    [] kind = "daily" -> (quarantine[k] \ {"local"}) \cup {"daily"}
    [] OTHER -> quarantine[k] \cup {"local"}

Failed(c, kind) ==
  LET k == call[c].key IN
  /\ k # NoKey /\ SumFunctionOnSet(generation, PoolKeys) < MaxFailures /\ Len(chain) < MaxWrites
  /\ generation' = [generation EXCEPT ![k] = @ + 1]
  /\ quarantine' = [quarantine EXCEPT ![k] = FailureQuarantine(k, kind)]
  /\ paused' = (paused \/ (kind = "local" /\ confirming \ {k} # {}))
  /\ confirming' = IF kind = "local" THEN confirming \cup {k} ELSE confirming \ {k}
  /\ IF kind = "suspended"
     THEN /\ candidates' = candidates \cup {k}
          /\ chain' = Append(chain, Write("persist", k, 0))
     ELSE UNCHANGED <<candidates, chain>>
  /\ call' = [call EXCEPT ![c] = NoCall]
  /\ UNCHANGED <<hydrated, blind, rows, unsaved>>

\* readYouTubeJsonObject: a response that is still current lifts the quarantine of its
\* key, and queues the clearing of a row the key may own.
Current_Always(k, g) == TRUE
Current(k, g) == generation[k] = g

Succeeded(c) ==
  LET k == call[c].key
      g == call[c].generation
      suspect == "suspended" \in quarantine[k] \/ k \in candidates
  IN
  /\ k # NoKey /\ Len(chain) < MaxWrites
  /\ IF Current(k, g)
     THEN /\ quarantine' = [quarantine EXCEPT ![k] = {}]
          /\ confirming' = confirming \ {k}
          /\ chain' = IF suspect THEN Append(chain, Write("clear", k, g)) ELSE chain
     ELSE UNCHANGED <<quarantine, confirming, chain>>
  /\ call' = [call EXCEPT ![c] = NoCall]
  /\ UNCHANGED <<generation, paused, candidates, hydrated, blind, rows, unsaved>>

\* serializeYouTubeSuspensionWrite: only the write at the head of the chain may run.
Runnable(i) == i = 1

Persist(i, saved) ==
  LET k == chain[i].key IN
  /\ Runnable(i) /\ chain[i].kind = "persist"
  /\ IF saved THEN rows' = [rows EXCEPT ![k] = "fresh"] /\ unsaved' = unsaved \ {k}
              ELSE unsaved' = unsaved \cup {k} /\ UNCHANGED rows
  /\ chain' = RemoveAt(chain, i)
  /\ UNCHANGED <<generation, quarantine, confirming, paused, candidates, hydrated, blind, call>>

\* clearYouTubeSuspensionIfCurrent: checked, deleted, and checked again before the
\* key stops being a candidate.  A delete that fails leaves row and candidate.
ClearStart(i) ==
  LET k == chain[i].key IN
  /\ Runnable(i) /\ chain[i].kind = "clear"
  /\ chain' = IF Current(k, chain[i].generation)
              THEN [chain EXCEPT ![i].kind = "deleting"] ELSE RemoveAt(chain, i)
  /\ UNCHANGED <<generation, quarantine, confirming, paused, candidates, hydrated, blind, rows, unsaved, call>>

ClearDelete(i, deleted) ==
  LET k == chain[i].key IN
  /\ Runnable(i) /\ chain[i].kind = "deleting"
  /\ IF deleted THEN /\ rows' = [rows EXCEPT ![k] = "none"]
                     /\ chain' = [chain EXCEPT ![i].kind = "deleted"]
                ELSE chain' = RemoveAt(chain, i) /\ UNCHANGED rows
  /\ UNCHANGED <<generation, quarantine, confirming, paused, candidates, hydrated, blind, unsaved, call>>

Resolves(k, g) == Current(k, g)

ClearResolve(i) ==
  LET k == chain[i].key IN
  /\ Runnable(i) /\ chain[i].kind = "deleted"
  /\ candidates' = IF Resolves(k, chain[i].generation) THEN candidates \ {k} ELSE candidates
  /\ chain' = RemoveAt(chain, i)
  /\ UNCHANGED <<generation, quarantine, confirming, paused, hydrated, blind, rows, unsaved, call>>

WriteStep == \E i \in DOMAIN chain :
  ClearStart(i) \/ ClearResolve(i) \/ \E done \in BOOLEAN : Persist(i, done) \/ ClearDelete(i, done)

\* Horizons pass: the suspension's in memory and on its row, the other quarantines,
\* the confirmation window and the pause.
SuspensionElapses(k) ==
  /\ ~Pending(k)
  /\ "suspended" \in quarantine[k] \/ rows[k] = "fresh"
  /\ quarantine' = [quarantine EXCEPT ![k] = @ \ {"suspended"}]
  /\ rows' = [rows EXCEPT ![k] = IF @ = "fresh" THEN "due" ELSE @]
  /\ UNCHANGED <<generation, confirming, paused, candidates, hydrated, blind, unsaved, chain, call>>

CooldownElapses(k, kind) ==
  /\ kind \in quarantine[k]
  /\ quarantine' = [quarantine EXCEPT ![k] = @ \ {kind}]
  /\ confirming' = IF kind = "local" THEN confirming \ {k} ELSE confirming
  /\ UNCHANGED <<generation, paused, candidates, hydrated, blind, rows, unsaved, chain, call>>

WindowElapses ==
  /\ confirming' \in SUBSET confirming /\ paused' \in {FALSE, paused}
  /\ UNCHANGED <<generation, quarantine, candidates, hydrated, blind, rows, unsaved, chain, call>>

\* The process restarts: only the rows survive.
Restart == /\ generation' = [k \in PoolKeys |-> 0] /\ quarantine' = [k \in PoolKeys |-> {}]
           /\ confirming' = {} /\ paused' = FALSE /\ candidates' = {} /\ hydrated' = FALSE /\ blind' = {}
           /\ chain' = <<>> /\ call' = [c \in Calls |-> NoCall] /\ unsaved' = {}
           /\ UNCHANGED rows

HealthNext ==
  \/ Hydrate \/ WriteStep \/ WindowElapses \/ Restart
  \/ \E c \in Calls : \/ Succeeded(c)
                     \/ \E k \in PoolKeys : Dispatch(c, k)
                     \/ \E kind \in {"daily", "local", "suspended"} : Failed(c, kind)
  \/ \E k \in PoolKeys : SuspensionElapses(k) \/ \E kind \in {"daily", "local"} : CooldownElapses(k, kind)

HealthSpec == HealthInit /\ [][HealthNext]_healthVars

(***************************************************************************)
(* Properties                                                              *)
(***************************************************************************)
\* Once the writes of a key are done, memory and its row agree.  A key suspended in memory
\* has its row, unless writing that failed: a clear never removes a newer suspension.  And
\* a loaded row that is not due keeps its key suspended: neither a restart nor an overtaken
\* response rehabilitates it (a key used before the load may lose a newer verdict to it).
\* A row always belongs to a candidate, so that a later success can clear it.
MemoryMatchesRows ==
  \A k \in PoolKeys : ~Pending(k) =>
    /\ "suspended" \in quarantine[k] => rows[k] # "none" \/ k \in unsaved
    /\ hydrated /\ k \notin blind /\ rows[k] = "fresh" => "suspended" \in quarantine[k]
    /\ hydrated /\ rows[k] # "none" => k \in candidates
=============================================================================
