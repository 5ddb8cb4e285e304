--------------------------- MODULE SiteInspection ---------------------------
(***************************************************************************)
(* The cached inspection of one website that several creators link:        *)
(* src/server/siteInspectionCache.ts, its row in src/server/dbCore.ts, the *)
(* inspection that borrows or crawls (src/server/inspector.ts) and the job *)
(* that admits what was found (src/server/queueManager.ts).                *)
(*                                                                         *)
(* A channel is inspected by one execution at a time.  Every crawl writes  *)
(* the row it merges into as one statement; the row an execution decides   *)
(* from was read earlier.  Rows written before migration 150 are left out. *)
(***************************************************************************)
EXTENDS Naturals

CONSTANTS Channels,   \* creators that link the site
          Invites,    \* the invites the site may show
          NoOne

ASSUME SiteAssumption == NoOne \notin Channels

VARIABLES row,        \* the site_inspections row
          inspection, \* channel -> its execution: its place and its candidates
          owner,      \* invite -> the channel the global registry gave it to
          undecided   \* channel -> invites it recorded and no execution of it decided on

siteVars == <<row, inspection, owner, undecided>>

\* found is the outcome and observations of the last crawl; claims is pending_claims.
Row == [status : {"absent", "NONE", "PENDING", "CLAIMED", "DISCARDED"}, found : SUBSET Invites,
        claims : [Channels -> SUBSET Invites], borrowable : BOOLEAN, fresh : BOOLEAN]
NoClaims == [c \in Channels |-> {}]
NoRow == [status |-> "absent", found |-> {}, claims |-> NoClaims, borrowable |-> TRUE, fresh |-> FALSE]
Idle == [at |-> "idle", candidates |-> {}]

SiteTypeOK ==
  /\ row \in Row
  /\ inspection \in [Channels -> [at : {"idle", "crawling", "crawled", "rejected", "won", "lost"},
                           candidates : SUBSET Invites]]
  /\ owner \in [Invites -> Channels \cup {NoOne}]
  /\ undecided \in [Channels -> SUBSET Invites]

SiteInit ==
  /\ row = NoRow /\ inspection = [c \in Channels |-> Idle]
  /\ owner = [i \in Invites |-> NoOne] /\ undecided = NoClaims

\* isSiteInspectionReusable: nothing unclaimed, not a country rejection, within its TTL.
Reusable(r) == /\ r.status \in {"NONE", "CLAIMED", "DISCARDED"} /\ r.claims = NoClaims
               /\ r.borrowable /\ r.fresh

\* The row is read when the inspection starts; a read that fails is a miss.  Reusable
\* coverage is borrowed, without candidates, and ends the matter.  Otherwise the site is
\* crawled, and the channel's own unclaimed candidates come back from the row.
Read(c, ok) ==
  /\ inspection[c].at = "idle" /\ ~(ok /\ Reusable(row))
  /\ inspection' = [inspection EXCEPT ![c] = [at |-> "crawling", candidates |-> IF ok THEN row.claims[c] ELSE {}]]
  /\ UNCHANGED <<row, owner, undecided>>

\* The last crawl's candidates replace the channel's earlier ones.
MergedClaims_Replaced(c, candidates) == [row.claims EXCEPT ![c] = candidates]

\* upsertSiteInspection: facts of the last writer, claims merged per channel.
MergedClaims(c, candidates) == [row.claims EXCEPT ![c] = @ \cup candidates]

Upserted(c, candidates) ==
  LET claims == MergedClaims(c, candidates) IN
  [status |-> IF claims # NoClaims THEN "PENDING" ELSE "NONE", found |-> candidates,
   claims |-> claims, borrowable |-> TRUE, fresh |-> TRUE]

\* What the site shows, and what the crawl sees of it, changes from crawl to crawl; the
\* recovered candidates are captured with the rest.
Crawl(c, found, saved) ==
  LET candidates == inspection[c].candidates \cup found IN
  /\ inspection[c].at = "crawling"
  /\ inspection' = [inspection EXCEPT ![c] = [at |-> "crawled", candidates |-> candidates]]
  /\ IF saved THEN /\ row' = Upserted(c, candidates)
                   /\ undecided' = [undecided EXCEPT ![c] = @ \cup candidates]
              ELSE UNCHANGED <<row, undecided>>
  /\ UNCHANGED owner

\* The creator's country is refused before anything is claimed, or every candidate is
\* claimed in the global registry, where another channel may own it already.
Refuse(c) ==
  /\ inspection[c].at = "crawled"
  /\ inspection' = [inspection EXCEPT ![c].at = "rejected"]
  /\ undecided' = [undecided EXCEPT ![c] = @ \ inspection[c].candidates]
  /\ UNCHANGED <<row, owner>>

Admit(c) ==
  LET candidates == inspection[c].candidates IN
  /\ inspection[c].at = "crawled"
  /\ owner' = [i \in Invites |-> IF i \in candidates /\ owner[i] = NoOne THEN c ELSE owner[i]]
  /\ inspection' = [inspection EXCEPT ![c].at = IF \E i \in candidates : owner'[i] = c THEN "won" ELSE "lost"]
  /\ undecided' = [undecided EXCEPT ![c] = @ \ candidates]
  /\ UNCHANGED row

\* finalizeSiteInspectionClaims: only this channel's candidates leave the claims.
Terminal_Rejected(c) == IF inspection[c].at = "won" THEN "CLAIMED" ELSE "REJECTED"
Terminal(c) == IF inspection[c].at = "won" THEN "CLAIMED" ELSE "DISCARDED"
Unmarked_Always(c) == TRUE
Unmarked(c) == inspection[c].at # "rejected"

Finalize(c) ==
  LET claims == [row.claims EXCEPT ![c] = @ \ inspection[c].candidates] IN
  /\ inspection[c].at \in {"rejected", "won", "lost"}
  /\ row' = IF claims = row.claims THEN row
            ELSE [row EXCEPT !.claims = claims,
                             !.status = IF claims # NoClaims THEN "PENDING" ELSE Terminal(c),
                             !.borrowable = @ /\ Unmarked(c)]
  /\ inspection' = [inspection EXCEPT ![c] = Idle]
  /\ UNCHANGED <<owner, undecided>>

\* The worker dies, its quota runs out or the best-effort finalization fails.
Fail(c) ==
  /\ inspection[c].at # "idle" /\ inspection' = [inspection EXCEPT ![c] = Idle]
  /\ UNCHANGED <<row, owner, undecided>>

\* Time: the row's TTL passes; a row nobody crawled for two cycles is pruned.
Expire == /\ row.fresh /\ row' = [row EXCEPT !.fresh = FALSE]
          /\ UNCHANGED <<inspection, owner, undecided>>

Prune == /\ row.status # "absent" /\ ~row.fresh
         /\ row' = NoRow /\ undecided' = NoClaims
         /\ UNCHANGED <<inspection, owner>>

SiteNext ==
  \/ Expire \/ Prune
  \/ \E c \in Channels : \/ Refuse(c) \/ Admit(c) \/ Finalize(c) \/ Fail(c)
                         \/ \E b \in BOOLEAN : Read(c, b) \/ \E found \in SUBSET Invites : Crawl(c, found, b)

SiteSpec == SiteInit /\ [][SiteNext]_siteVars

(***************************************************************************)
(* Properties                                                              *)
(***************************************************************************)
\* An invite a channel recorded stays claimable by it until one of its executions
\* decides on it or the row is pruned, however crawls, crashes and finalizations of
\* other channels overwrite the row.
DiscoveriesKept == \A c \in Channels : undecided[c] \subseteq row.claims[c]

\* Coverage a later creator borrows instead of crawling never hides an invite that is
\* still free: what its crawl found has an owner in the registry.
BorrowedInvitesOwned == Reusable(row) => \A i \in row.found : owner[i] # NoOne
=============================================================================
