--------------------------- MODULE YouTubeKeyCap ---------------------------
(***************************************************************************)
(* The daily caps on official YouTube units, per API key and for probe     *)
(* work, while enforcement is on: reservation before the HTTP request      *)
(* (src/server/quotaKeyCapShadow.ts), the request itself                   *)
(* (src/server/youtube.ts) and the charge that settles it (incrementQuota  *)
(* in src/server/dbCore.ts).                                               *)
(*                                                                         *)
(* A reservation transaction reads and inserts under advisory locks per    *)
(* key and, for probes, per day, and settlement is one transaction, so     *)
(* each is a step.  The Pacific day may change between any two steps.      *)
(***************************************************************************)
EXTENDS PacificDay, FiniteSets, Functions

CONSTANTS Requests, Keys,
          Units,        \* request -> the units it costs
          Probe,        \* the requests that carry probe provenance
          KeyCap,       \* ENFORCED_CAP_UNITS
          ProbeCap      \* capUnits of the probe allocation

ASSUME CapAssumption ==
  /\ IsFiniteSet(Requests) /\ Units \in [Requests -> Nat] /\ Probe \subseteq Requests
  /\ Keys # {} /\ KeyCap \in Nat /\ ProbeCap \in Nat

VARIABLES request,    \* request -> its place, key and the day captured for it
          leases,     \* requests with an in-flight lease, of the key and day they hold
          usage,      \* day, key -> youtube_key_quota_usage.units_used
          probeUsage, \* day -> the settled units of the probe allocation
          accounted,  \* requests with an accounting operation row
          spent       \* day, key -> requests whose units the provider counted

capVars == <<today, request, leases, usage, probeUsage, accounted, spent>>

UnitsOf(S) == SumFunctionOnSet(Units, S)
Leased(d, k) == {r \in leases : request[r].day = d /\ request[r].key = k}

Places == {"idle", "reserving", "reserved", "wire", "answered", "done"}

CapTypeOK ==
  /\ today \in Days
  /\ request \in [Requests -> [at : Places, key : Keys, day : Days]]
  /\ leases \in SUBSET Requests /\ accounted \in SUBSET Requests
  /\ usage \in [Days \X Keys -> Nat] /\ probeUsage \in [Days -> Nat]
  /\ spent \in [Days \X Keys -> SUBSET Requests]

CapInit ==
  /\ today = 1 /\ leases = {} /\ accounted = {}
  /\ request = [r \in Requests |-> [at |-> "idle", key |-> CHOOSE k \in Keys : TRUE, day |-> 1]]
  /\ usage = [x \in Days \X Keys |-> 0] /\ probeUsage = [d \in Days |-> 0]
  /\ spent = [x \in Days \X Keys |-> {}]

At(r, place) == request[r].at = place
Move(r, place) == request' = [request EXCEPT ![r].at = place]

\* youtubeFetch, in the scheduler's closure, has a key: the day is captured, then the
\* database waited for.
Begin(r, k) ==
  /\ At(r, "idle")
  /\ request' = [request EXCEPT ![r] = [at |-> "reserving", key |-> k, day |-> today]]
  /\ UNCHANGED <<today, leases, usage, probeUsage, accounted, spent>>

\* PROJECTED_SQL and PROBE_PROJECTED_SQL: settled usage and leases in flight.
Projected(d, k) == usage[<<d, k>>] + UnitsOf(Leased(d, k))
ProbeProjected(d) == probeUsage[d] + UnitsOf({r \in leases \cap Probe : request[r].day = d})

Fits(r) == LET d == request[r].day IN
  /\ Projected(d, request[r].key) + Units[r] <= KeyCap
  /\ r \in Probe => ProbeProjected(d) + Units[r] <= ProbeCap

\* reserveEnforcedKeyCap or reserveProbeQuota: a lease until the day resets, or a refusal.
ReserveCap(r) ==
  /\ At(r, "reserving")
  /\ IF Fits(r) THEN leases' = leases \cup {r} /\ Move(r, "reserved")
                ELSE Move(r, "done") /\ UNCHANGED leases
  /\ UNCHANGED <<today, usage, probeUsage, accounted, spent>>

\* The reserved day is over, or the deadline fired: nothing was sent, so the lease is
\* released, or stays as the backstop when releasing fails.
Withdraw(r, released) ==
  /\ At(r, "reserved")
  /\ Move(r, "done")
  /\ leases' = IF released THEN leases \ {r} ELSE leases
  /\ UNCHANGED <<today, usage, probeUsage, accounted, spent>>

\* assertKeyCapReservationDayCurrent and fetch, with nothing awaited in between.
DayCurrent(r) == request[r].day = today

Send(r) ==
  /\ At(r, "reserved") /\ DayCurrent(r)
  /\ Move(r, "wire")
  /\ spent' = [spent EXCEPT ![<<today, request[r].key>>] = @ \cup {r}]
  /\ UNCHANGED <<today, leases, usage, probeUsage, accounted>>

\* A transport or HTTP error keeps the lease: the provider may have counted the request.
LeasesAfterError_Released(r) == leases \ {r}
LeasesAfterError(r) == leases

FailRequest(r) == /\ At(r, "wire") /\ Move(r, "done")
           /\ leases' = LeasesAfterError(r)
           /\ UNCHANGED <<today, usage, probeUsage, accounted, spent>>

Answer(r) == /\ At(r, "wire") /\ Move(r, "answered")
             /\ UNCHANGED <<today, leases, usage, probeUsage, accounted, spent>>

Unaccounted(r) == r \notin accounted

\* incrementQuota: usage of the dispatch day, once per operation, and the lease with it.
\* The caller retries when the commit's outcome did not reach it.
ChargeCap(r, known) ==
  LET d == request[r].day IN
  /\ At(r, "answered")
  /\ IF Unaccounted(r)
     THEN /\ usage' = [usage EXCEPT ![<<d, request[r].key>>] = @ + Units[r]]
          /\ probeUsage' = IF r \in Probe THEN [probeUsage EXCEPT ![d] = @ + Units[r]] ELSE probeUsage
          /\ accounted' = accounted \cup {r}
          /\ leases' = leases \ {r}
     ELSE UNCHANGED <<usage, probeUsage, accounted, leases>>
  /\ IF known THEN Move(r, "done") ELSE UNCHANGED request
  /\ UNCHANGED <<today, spent>>

\* Accounting gives up, or the process dies: what it had reserved stays.
Abandon(r) ==
  /\ request[r].at \in {"reserving", "reserved", "wire", "answered"} /\ Move(r, "done")
  /\ UNCHANGED <<today, leases, usage, probeUsage, accounted, spent>>

\* sweepShadowLeases removes leases whose day is over.
SweepLeases == /\ leases' = {r \in leases : request[r].day >= today} /\ leases' # leases
         /\ UNCHANGED <<today, request, usage, probeUsage, accounted, spent>>

CapMidnight == /\ NextDay
               /\ UNCHANGED <<request, leases, usage, probeUsage, accounted, spent>>

CapNext == \/ SweepLeases \/ CapMidnight
           \/ \E r \in Requests : \/ ReserveCap(r) \/ Send(r) \/ FailRequest(r) \/ Answer(r) \/ Abandon(r)
                                  \/ \E ok \in BOOLEAN : Withdraw(r, ok) \/ ChargeCap(r, ok)
                                  \/ \E k \in Keys : Begin(r, k)

CapSpec == CapInit /\ [][CapNext]_capVars

(***************************************************************************)
(* Properties                                                              *)
(***************************************************************************)
\* On no day does the provider count more units of a key than its cap, nor more probe
\* units than the probe allocation, whatever fails, is retried or crosses midnight; and
\* settled usage counts only units the provider counted on that day, each once.
SpendWithinCaps ==
  \A d \in Days :
    /\ \A k \in Keys : usage[<<d, k>>] <= UnitsOf(spent[<<d, k>>]) /\ UnitsOf(spent[<<d, k>>]) <= KeyCap
    /\ UnitsOf(Probe \cap UNION {spent[<<d, k>>] : k \in Keys}) <= ProbeCap
=============================================================================
