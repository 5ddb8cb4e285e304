------------------------- MODULE SharedRows_proofs -------------------------
(***************************************************************************)
(* Theorems about the rows that jobs share: a site's inspection, the runs  *)
(* of the research controller and the ledger of native vocabulary calls.   *)
(* The three models have no variable in common; each part below is about   *)
(* one of them.                                                            *)
(***************************************************************************)
EXTENDS SiteInspection, ResearchBootstrap, VocabularyBudget, FiniteSetTheorems, TLAPS

(***************************************************************************)
(* SiteInspection, for any creators and invites.                           *)
(***************************************************************************)

Settling(c) == inspection[c].at \in {"rejected", "won", "lost"}

LEMMA SiteTypeNext == SiteTypeOK /\ [SiteNext]_siteVars => SiteTypeOK'
<1>. SUFFICES ASSUME SiteTypeOK, [SiteNext]_siteVars PROVE SiteTypeOK' OBVIOUS
<1>. USE DEF SiteTypeOK, Row
<1>1. CASE Prune BY <1>1 DEF Prune, NoRow, NoClaims
<1>2. CASE Expire
  <2>1. row' = [row EXCEPT !.fresh = FALSE] /\ UNCHANGED <<inspection, owner, undecided>> BY <1>2 DEF Expire
  <2>2. row' = [status |-> row.status, found |-> row.found, claims |-> row.claims,
                borrowable |-> row.borrowable, fresh |-> FALSE]
    BY <2>1
  <2>3. row' \in Row BY <2>2
  <2>. QED BY <2>1, <2>3
<1>3. ASSUME NEW c \in Channels, Refuse(c) PROVE SiteTypeOK' BY <1>3 DEF Refuse
<1>4. ASSUME NEW c \in Channels, Admit(c) PROVE SiteTypeOK' BY <1>4 DEF Admit
<1>5. ASSUME NEW c \in Channels, Finalize(c) PROVE SiteTypeOK'
  <2>. DEFINE claims == [row.claims EXCEPT ![c] = @ \ inspection[c].candidates]
              status == IF claims # NoClaims THEN "PENDING" ELSE Terminal(c)
              borrowable == row.borrowable /\ Unmarked(c)
  <2>1. claims \in [Channels -> SUBSET Invites] OBVIOUS
  <2>2. status \in {"PENDING", "CLAIMED", "DISCARDED"} BY DEF Terminal
  <2>3. borrowable \in BOOLEAN BY DEF Unmarked
  <2>4. row' = row \/ row' = [row EXCEPT !.claims = claims, !.status = status, !.borrowable = borrowable]
    BY <1>5 DEF Finalize
  <2>5. inspection' = [inspection EXCEPT ![c] = Idle] /\ owner' = owner /\ undecided' = undecided
    BY <1>5 DEF Finalize
  <2>. HIDE DEF claims, status, borrowable
  <2>6. row' = row \/ row' = [status |-> status, found |-> row.found, claims |-> claims,
                             borrowable |-> borrowable, fresh |-> row.fresh]
    BY <2>4
  <2>7. row' \in Row BY <2>1, <2>2, <2>3, <2>6
  <2>. QED BY <2>5, <2>7 DEF Idle
<1>6. ASSUME NEW c \in Channels, Fail(c) PROVE SiteTypeOK' BY <1>6 DEF Fail, Idle
<1>7. ASSUME NEW c \in Channels, NEW b \in BOOLEAN, Read(c, b) PROVE SiteTypeOK' BY <1>7 DEF Read
<1>8. ASSUME NEW c \in Channels, NEW b \in BOOLEAN, NEW found \in SUBSET Invites, Crawl(c, found, b)
      PROVE  SiteTypeOK'
  <2>. DEFINE candidates == inspection[c].candidates \cup found
  <2>1. candidates \in SUBSET Invites OBVIOUS
  <2>2. inspection' = [inspection EXCEPT ![c] = [at |-> "crawled", candidates |-> candidates]] /\ owner' = owner
    BY <1>8 DEF Crawl
  <2>3. \/ row' = row /\ undecided' = undecided
        \/ row' = Upserted(c, candidates) /\ undecided' = [undecided EXCEPT ![c] = @ \cup candidates]
    BY <1>8 DEF Crawl
  <2>. HIDE DEF candidates
  <2>4. MergedClaims(c, candidates) \in [Channels -> SUBSET Invites] BY <2>1 DEF MergedClaims
  <2>5. Upserted(c, candidates) \in Row BY <2>1, <2>4 DEF Upserted
  <2>6. undecided' \in [Channels -> SUBSET Invites] /\ row' \in Row BY <2>1, <2>3, <2>5
  <2>. QED BY <2>1, <2>2, <2>6
<1>9. CASE UNCHANGED siteVars BY <1>9 DEF siteVars
<1>. QED BY <1>1, <1>2, <1>3, <1>4, <1>5, <1>6, <1>7, <1>8, <1>9 DEF SiteNext

LEMMA SiteTypeInit == SiteInit => SiteTypeOK
BY DEF SiteInit, SiteTypeOK, Row, NoRow, NoClaims, Idle

\* Every reachable state of the site row and its executions is well typed.
THEOREM SiteTypeCorrect == SiteSpec => []SiteTypeOK
BY SiteTypeInit, SiteTypeNext, PTL DEF SiteSpec

(***************************************************************************)
(* Discoveries.  A settling execution has decided on all its candidates,   *)
(* and unless its creator was refused they all have an owner.              *)
(***************************************************************************)
Decided == \A c \in Channels : Settling(c) => undecided[c] \cap inspection[c].candidates = {}
Claimed == \A c \in Channels : \A i \in inspection[c].candidates :
             inspection[c].at \in {"won", "lost"} => owner[i] # NoOne

\* What may be borrowed is owned, or still claimed by a creator.
Borrowable == \A i \in row.found : row.borrowable => owner[i] # NoOne \/ \E c \in Channels : i \in row.claims[c]

SiteInv == DiscoveriesKept /\ Decided /\ Claimed /\ Borrowable

LEMMA SiteStart == SiteInit => SiteInv
BY DEF SiteInit, SiteInv, DiscoveriesKept, Decided, Claimed, Borrowable, Settling, NoRow, NoClaims, Idle

\* A step that leaves the row and the registry alone, and starts no settling.
LEMMA SiteUnmoved ==
  ASSUME SiteTypeOK, SiteInv, NEW c \in Channels, NEW e,
         row' = row, owner' = owner, undecided' = undecided, inspection' = [inspection EXCEPT ![c] = e],
         e.at \notin {"rejected", "won", "lost"}
  PROVE  SiteInv'
BY DEF SiteTypeOK, SiteInv, DiscoveriesKept, Decided, Claimed, Borrowable, Settling

LEMMA SiteStep == SiteTypeOK /\ SiteInv /\ [SiteNext]_siteVars => SiteInv'
<1>. SUFFICES ASSUME SiteTypeOK, SiteInv, [SiteNext]_siteVars PROVE SiteInv' OBVIOUS
<1>. USE DEF SiteInv, DiscoveriesKept, Decided, Claimed, Borrowable, Settling
<1>1. CASE Expire
  <2>1. row'.claims = row.claims /\ row'.found = row.found /\ row'.borrowable = row.borrowable
    BY <1>1 DEF Expire, SiteTypeOK, Row
  <2>. QED BY <1>1, <2>1 DEF Expire
<1>2. CASE Prune BY <1>2 DEF Prune, NoRow, NoClaims
<1>3. ASSUME NEW c \in Channels, Refuse(c) PROVE SiteInv'
  <2>1. inspection' = [inspection EXCEPT ![c].at = "rejected"] /\ row' = row /\ owner' = owner
        /\ undecided' = [undecided EXCEPT ![c] = @ \ inspection[c].candidates]
    BY <1>3 DEF Refuse
  <2>2. /\ \A d \in Channels : inspection'[d].candidates = inspection[d].candidates
        /\ \A d \in Channels \ {c} : inspection'[d] = inspection[d]
        /\ inspection'[c].at = "rejected"
    BY <2>1 DEF SiteTypeOK
  <2>. QED BY <2>1, <2>2 DEF SiteTypeOK
<1>4. ASSUME NEW c \in Channels, Admit(c) PROVE SiteInv'
  <2>1. /\ \A d \in Channels : inspection'[d].candidates = inspection[d].candidates
        /\ \A d \in Channels \ {c} : inspection'[d] = inspection[d]
    BY <1>4 DEF Admit, SiteTypeOK
  <2>2. undecided' = [undecided EXCEPT ![c] = @ \ inspection[c].candidates] /\ row' = row BY <1>4 DEF Admit
  <2>3. \A i \in Invites : /\ owner[i] # NoOne => owner'[i] # NoOne
                           /\ i \in inspection[c].candidates => owner'[i] # NoOne
    BY <1>4, SiteAssumption DEF Admit, SiteAssumption
  <2>4. \A d \in Channels : inspection[d].candidates \subseteq Invites BY DEF SiteTypeOK
  <2>5. row.found \subseteq Invites BY DEF SiteTypeOK, Row
  <2>. QED BY <2>1, <2>2, <2>3, <2>4, <2>5 DEF SiteTypeOK
<1>5. ASSUME NEW c \in Channels, Finalize(c) PROVE SiteInv'
  <2>. DEFINE claims == [row.claims EXCEPT ![c] = @ \ inspection[c].candidates]
  <2>1. inspection' = [inspection EXCEPT ![c] = Idle] /\ owner' = owner /\ undecided' = undecided
    BY <1>5 DEF Finalize
  <2>2. Settling(c) BY <1>5 DEF Finalize
  <2>3. /\ row'.found = row.found /\ row'.claims = claims
        /\ row' = row \/ (row'.borrowable => row.borrowable /\ inspection[c].at # "rejected")
    <3>1. CASE claims = row.claims BY <1>5, <3>1 DEF Finalize
    <3>2. CASE claims # row.claims
      <4>1. PICK status : row' = [row EXCEPT !.claims = claims, !.status = status,
                                             !.borrowable = row.borrowable /\ Unmarked(c)]
        BY <1>5, <3>2, Zenon DEF Finalize
      <4>2. row' = [status |-> status, found |-> row.found, claims |-> claims,
                    borrowable |-> row.borrowable /\ Unmarked(c), fresh |-> row.fresh]
        BY <4>1 DEF SiteTypeOK, Row
      <4>. QED BY <4>2 DEF Unmarked
    <3>. QED BY <3>1, <3>2
  <2>4. DiscoveriesKept' BY <2>1, <2>2, <2>3 DEF SiteTypeOK, Row
  <2>5. Decided' /\ Claimed' BY <2>1 DEF Idle, SiteTypeOK
  <2>6. ASSUME NEW i \in row'.found, row'.borrowable
        PROVE  owner'[i] # NoOne \/ \E d \in Channels : i \in row'.claims[d]
    <3>1. CASE row' = row BY <2>1, <2>6, <3>1
    <3>2. CASE row' # row
      <4>1. row.borrowable /\ inspection[c].at \in {"won", "lost"}
        BY <2>2, <2>3, <2>6, <3>2
      <4>2. owner[i] # NoOne \/ \E d \in Channels : i \in row.claims[d] BY <2>3, <2>6, <4>1
      <4>3. \A d \in Channels : i \in row.claims[d] => i \in row'.claims[d] \/ i \in inspection[c].candidates
        BY <2>3 DEF SiteTypeOK, Row
      <4>. QED BY <2>1, <4>1, <4>2, <4>3
    <3>. QED BY <3>1, <3>2
  <2>. QED BY <2>4, <2>5, <2>6
<1>6. ASSUME NEW c \in Channels, Fail(c) PROVE SiteInv' BY <1>6, SiteUnmoved DEF Fail, Idle
<1>7. ASSUME NEW c \in Channels, NEW b \in BOOLEAN, Read(c, b) PROVE SiteInv' BY <1>7, SiteUnmoved DEF Read
<1>8. ASSUME NEW c \in Channels, NEW b \in BOOLEAN, NEW found \in SUBSET Invites, Crawl(c, found, b)
      PROVE  SiteInv'
  <2>. DEFINE candidates == inspection[c].candidates \cup found
  <2>1. inspection' = [inspection EXCEPT ![c] = [at |-> "crawled", candidates |-> candidates]] /\ owner' = owner
    BY <1>8 DEF Crawl
  <2>2. \/ row' = row /\ undecided' = undecided
        \/ row' = Upserted(c, candidates) /\ undecided' = [undecided EXCEPT ![c] = @ \cup candidates]
    BY <1>8 DEF Crawl
  <2>3. CASE row' = row /\ undecided' = undecided BY <2>1, <2>3, SiteUnmoved
  <2>4. CASE row' = Upserted(c, candidates) /\ undecided' = [undecided EXCEPT ![c] = @ \cup candidates]
    <3>. HIDE DEF candidates
    <3>1. row'.found = candidates /\ row'.claims = [row.claims EXCEPT ![c] = @ \cup candidates]
      BY <2>4 DEF Upserted, MergedClaims
    <3>2. \A i \in candidates : i \in row'.claims[c] BY <3>1 DEF SiteTypeOK, Row
    <3>3. DiscoveriesKept' BY <2>4, <3>1 DEF SiteTypeOK, Row
    <3>4. Decided' /\ Claimed' BY <2>1, <2>4 DEF SiteTypeOK
    <3>. QED BY <3>1, <3>2, <3>3, <3>4
  <2>. QED BY <2>2, <2>3, <2>4
<1>9. CASE UNCHANGED siteVars BY <1>9 DEF siteVars
<1>. QED BY <1>1, <1>2, <1>3, <1>4, <1>5, <1>6, <1>7, <1>8, <1>9 DEF SiteNext

LEMMA SiteInvariant == SiteSpec => [](SiteTypeOK /\ SiteInv)
<1>1. SiteInit => SiteTypeOK /\ SiteInv BY SiteTypeInit, SiteStart
<1>2. SiteTypeOK /\ SiteInv /\ [SiteNext]_siteVars => (SiteTypeOK /\ SiteInv)' BY SiteTypeNext, SiteStep
<1>. QED BY <1>1, <1>2, PTL DEF SiteSpec

\* Whatever crawls, crashes and other creators' finalizations do to the shared row, an
\* invite its creator recorded stays claimable until an execution of it decided.
THEOREM Discoveries == SiteSpec => []DiscoveriesKept
BY SiteInvariant, PTL DEF SiteInv

\* Coverage that a later creator borrows hides no free invite.
THEOREM Borrowing == SiteSpec => []BorrowedInvitesOwned
<1>1. SiteTypeOK /\ SiteInv => BorrowedInvitesOwned
  BY DEF SiteTypeOK, Row, SiteInv, Borrowable, BorrowedInvitesOwned, Reusable, NoClaims
<1>. QED BY <1>1, SiteInvariant, PTL

(***************************************************************************)
(* ResearchBootstrap, for any runs, actions, costs and bounds.  Authority  *)
(* needs the control row, the runs and which run a cycle works for; the    *)
(* bounds need the actions only.                                           *)
(***************************************************************************)

Run == [status : {"new", "ACTIVE", "COMPLETED", "ABORTED"}, expired : BOOLEAN]
Cycle == [at : {"idle", "sweep", "started", "chosen", "allocated"}, run : Runs \cup {NoRun}, completed : BOOLEAN]

AuthorityType == control \in Control /\ run \in [Runs -> Run] /\ cycle \in [Cycles -> Cycle]

\* A policy is evaluated exactly when an operator configured the control since the arming,
\* but for the initial control, which does not serve.
ConfigurationInv == /\ ~control.evaluated => ~control.reconfigured
                    /\ control.evaluated /\ control.serves = "CANARY" => control.reconfigured

Authority == AuthorityType /\ ConfigurationInv /\ ServingHasAuthority

LEMMA Disarming ==
  ASSUME Authority
  PROVE  /\ Disarmed \in Control /\ Disarmed.fence = NoRun
         /\ Disarmed.reconfigured = control.reconfigured /\ Disarmed.evaluated = control.evaluated
         /\ Disarmed.serves = IF control.reconfigured THEN control.serves ELSE "off"
<1>1. CASE control.reconfigured
  <2>1. Disarmed = [serves |-> control.serves, fence |-> NoRun,
                    reconfigured |-> control.reconfigured, evaluated |-> control.evaluated]
    BY <1>1 DEF Disarmed, Authority, AuthorityType, Control
  <2>. QED BY <1>1, <2>1 DEF Authority, AuthorityType, Control
<1>2. CASE ~control.reconfigured
  <2>1. Disarmed = [serves |-> "off", fence |-> NoRun,
                    reconfigured |-> control.reconfigured, evaluated |-> control.evaluated]
    BY <1>2 DEF Disarmed, Authority, AuthorityType, Control
  <2>. QED BY <1>2, <2>1 DEF Authority, AuthorityType, Control
<1>. QED BY <1>1, <1>2

\* What serves after a disarming was configured by an operator.
LEMMA DisarmKeeps ==
  ASSUME Authority, control' = Disarmed, run' \in [Runs -> Run], cycle' \in [Cycles -> Cycle]
  PROVE  Authority' /\ (control.evaluated /\ control.serves = "CANARY" => control'.serves = "CANARY")
BY Disarming DEF Authority, AuthorityType, ConfigurationInv, ServingHasAuthority

LEMMA EndedType ==
  ASSUME Authority, NEW rs \in SUBSET Runs, NEW status \in {"ABORTED", "COMPLETED"}
  PROVE  /\ Ended(rs, status) \in [Runs -> Run]
         /\ \A r \in Runs : Ended(rs, status)[r].status =
              IF r \in rs /\ run[r].status = "ACTIVE" THEN status ELSE run[r].status
<1>1. ASSUME NEW r \in Runs
      PROVE  /\ Ended(rs, status)[r] \in Run
             /\ Ended(rs, status)[r].status = IF r \in rs /\ run[r].status = "ACTIVE" THEN status ELSE run[r].status
  <2>1. run[r] \in Run BY DEF Authority, AuthorityType
  <2>2. CASE r \in rs \cap Active
    <3>1. Ended(rs, status)[r] = [run[r] EXCEPT !.status = status] BY <2>2, Zenon DEF Ended
    <3>2. Ended(rs, status)[r] = [status |-> status, expired |-> run[r].expired] BY <2>1, <3>1 DEF Run
    <3>. QED BY <2>1, <2>2, <3>2 DEF Run, Active
  <2>3. CASE r \notin rs \cap Active
    <3>1. Ended(rs, status)[r] = run[r] BY <2>3, Zenon DEF Ended
    <3>. QED BY <2>1, <2>3, <3>1 DEF Active
  <2>. QED BY <2>2, <2>3
<1>. QED BY <1>1 DEF Ended

\* A control that keeps its fence keeps its authority while the fenced run is not aborted.
LEMMA FenceKeeps ==
  ASSUME Authority, NEW rs \in SUBSET Runs, NEW status \in {"ABORTED", "COMPLETED"},
         control' = control, run' = Ended(rs, status), cycle' \in [Cycles -> Cycle],
         status = "COMPLETED" \/ control.fence \notin rs
  PROVE  Authority'
<1>1. run' \in [Runs -> Run] BY EndedType
<1>2. ASSUME control.fence \in Runs, run[control.fence].status \in {"ACTIVE", "COMPLETED"}
      PROVE  run'[control.fence].status \in {"ACTIVE", "COMPLETED"}
  BY <1>2, EndedType
<1>3. control.fence \in Runs \cup {NoRun} BY DEF Authority, AuthorityType, Control
<1>. QED BY <1>1, <1>2, <1>3 DEF Authority, AuthorityType, ConfigurationInv, ServingHasAuthority

LEMMA DisarmOfKeeps ==
  ASSUME Authority, NEW r \in Runs, run' = Ended({r}, "ABORTED"), control' = DisarmOf(r), cycle' \in [Cycles -> Cycle]
  PROVE  Authority' /\ (control.evaluated /\ control.serves = "CANARY" => control'.serves = "CANARY")
<1>1. run' \in [Runs -> Run] BY EndedType
<1>2. CASE control.fence = r BY <1>1, <1>2, DisarmKeeps DEF DisarmOf
<1>3. CASE control.fence # r
  <2>1. control' = control BY <1>3 DEF DisarmOf
  <2>2. Authority' BY <1>3, <2>1, FenceKeeps
  <2>. QED BY <2>1, <2>2
<1>. QED BY <1>2, <1>3

LEMMA SettledKeeps ==
  ASSUME Authority, NEW r \in Runs, Settled(r), run' = run, cycle' \in [Cycles -> Cycle]
  PROVE  Authority' /\ (control.evaluated /\ control.serves = "CANARY" => control'.serves = "CANARY")
<1>1. run' \in [Runs -> Run] BY DEF Authority, AuthorityType
<1>2. CASE control' = Disarmed BY <1>1, <1>2, DisarmKeeps
<1>3. CASE control' = control
  BY <1>1, <1>3 DEF Authority, AuthorityType, ConfigurationInv, ServingHasAuthority
<1>. QED BY <1>2, <1>3 DEF Settled

LEMMA GotoType ==
  ASSUME Authority, NEW k \in Cycles, NEW at \in {"idle", "sweep", "started", "chosen", "allocated"},
         NEW r \in Runs \cup {NoRun}, NEW completed \in BOOLEAN, Goto(k, at, r, completed)
  PROVE  cycle' \in [Cycles -> Cycle]
BY DEF Goto, Authority, AuthorityType, Cycle

Kept == control.evaluated /\ control.serves = "CANARY" => control'.serves = "CANARY"

LEMMA BootstrappingKeeps == ASSUME Authority, Bootstrapping PROVE Authority' /\ Kept
<1>. USE BootstrapAssumption DEF BootstrapAssumption
<1>0. \A k \in Cycles : cycle[k].run \in Runs \cup {NoRun} /\ cycle[k].completed \in BOOLEAN
  BY DEF Authority, AuthorityType, Cycle
<1>1. ASSUME NEW r \in Runs, StartRun(r) PROVE Authority' /\ Kept
  <2>1. run' = [run EXCEPT ![r].status = "ACTIVE"] /\ run[r].status = "new" /\ control' = control /\ cycle' = cycle
    BY <1>1 DEF StartRun
  <2>2. run' \in [Runs -> Run] BY <2>1 DEF Authority, AuthorityType, Run
  <2>3. \A q \in Runs : run'[q].status = run[q].status \/ run'[q].status = "ACTIVE"
    BY <2>1 DEF Authority, AuthorityType, Run
  <2>. QED BY <2>1, <2>2, <2>3 DEF Kept, Authority, AuthorityType, Control, ConfigurationInv, ServingHasAuthority
<1>2. ASSUME NEW r \in Runs, ExpireRun(r) PROVE Authority' /\ Kept
  <2>1. run' = [run EXCEPT ![r].expired = TRUE] /\ control' = control /\ cycle' = cycle BY <1>2 DEF ExpireRun
  <2>2. run' \in [Runs -> Run] /\ \A q \in Runs : run'[q].status = run[q].status
    BY <2>1 DEF Authority, AuthorityType, Run
  <2>. QED BY <2>1, <2>2 DEF Kept, Authority, AuthorityType, Control, ConfigurationInv, ServingHasAuthority
<1>3. ASSUME NEW r \in Runs, AbortRun(r) PROVE Authority' /\ Kept
  <2>1. cycle' \in [Cycles -> Cycle] BY <1>3 DEF AbortRun, Authority, AuthorityType
  <2>. QED BY <1>3, <2>1, DisarmOfKeeps DEF AbortRun, Kept
<1>4. ASSUME NEW r \in Runs, NEW b \in BOOLEAN, Arm(r, b) PROVE Authority' /\ Kept
  <2>1. cycle' \in [Cycles -> Cycle] BY <1>4 DEF Arm, Authority, AuthorityType
  <2>2. CASE run' = Ended({r}, "ABORTED") /\ control' = DisarmOf(r) BY <2>1, <2>2, DisarmOfKeeps DEF Kept
  <2>3. CASE /\ control' = [serves |-> "CANARY", fence |-> r, reconfigured |-> FALSE, evaluated |-> FALSE]
             /\ run' = run
    <3>1. r \in Active /\ control.serves # "CANARY" BY <1>4 DEF Arm
    <3>. QED BY <2>1, <2>3, <3>1
         DEF Kept, Active, Authority, AuthorityType, Control, ConfigurationInv, ServingHasAuthority
  <2>. QED BY <1>4, <2>2, <2>3 DEF Arm
<1>5. CASE DisarmControl
  <2>1. control.fence \in Runs BY <1>5 DEF DisarmControl, Authority, AuthorityType, Control
  <2>2. run' \in [Runs -> Run] /\ cycle' \in [Cycles -> Cycle] /\ control' = Disarmed
    BY <1>5, <2>1, EndedType DEF DisarmControl, Authority, AuthorityType
  <2>. QED BY <2>2, DisarmKeeps DEF Kept
<1>6. ASSUME NEW k \in Cycles, Sweep(k) PROVE Authority' /\ Kept
  <2>1. cycle' \in [Cycles -> Cycle] BY <1>6, GotoType DEF Sweep
  <2>2. run' = Ended(Active, "ABORTED") /\ control' = DisarmAny /\ Active \in SUBSET Runs
    BY <1>6 DEF Sweep, AbortAllActive, Active
  <2>3. run' \in [Runs -> Run] BY <2>2, EndedType
  <2>4. CASE control.fence # NoRun BY <2>1, <2>2, <2>3, <2>4, DisarmKeeps DEF DisarmAny, Kept
  <2>5. CASE control.fence = NoRun
    <3>1. control' = control /\ control.fence \notin Active BY <2>2, <2>5 DEF DisarmAny
    <3>2. Authority' BY <2>1, <2>2, <3>1, FenceKeeps
    <3>. QED BY <3>1, <3>2 DEF Kept
  <2>. QED BY <2>4, <2>5
<1>7. ASSUME NEW k \in Cycles, NEW b \in BOOLEAN, NEW S \in SUBSET Actions, Allocate(k, S, b)
      PROVE  Authority' /\ Kept
  <2>. DEFINE r == cycle[k].run
  <2>1. PICK completed \in BOOLEAN : Goto(k, "allocated", r, completed) BY <1>7 DEF Allocate, Exhausted
  <2>2. cycle' \in [Cycles -> Cycle] BY <1>0, <2>1, GotoType
  <2>3. CASE UNCHANGED <<control, run>>
    BY <2>2, <2>3 DEF Kept, Authority, AuthorityType, ConfigurationInv, ServingHasAuthority
  <2>4. CASE r \in Active /\ run' = Ended({r}, "ABORTED") /\ control' = DisarmOf(r)
    BY <2>2, <2>4, DisarmOfKeeps DEF Kept, Active
  <2>5. CASE r \in Active /\ run' = Ended({r}, "COMPLETED") /\ control' = control
    BY <2>2, <2>5, FenceKeeps DEF Kept, Active
  <2>. QED BY <1>7, <2>3, <2>4, <2>5 DEF Allocate
<1>8. ASSUME NEW k \in Cycles, StartCycle(k) \/ ChooseRun(k) PROVE Authority' /\ Kept
  <2>1. cycle' \in [Cycles -> Cycle] BY <1>8, GotoType DEF StartCycle, ChooseRun, Active
  <2>. QED BY <1>8, <2>1
       DEF StartCycle, ChooseRun, Kept, Authority, AuthorityType, ConfigurationInv, ServingHasAuthority
<1>9. ASSUME NEW k \in Cycles, NEW a \in Actions, Materialize(k, a) PROVE Authority' /\ Kept
  BY <1>9 DEF Materialize, Kept, Authority, AuthorityType, ConfigurationInv, ServingHasAuthority
<1>10. ASSUME NEW k \in Cycles, NEW b \in BOOLEAN, FinishCycle(k) \/ FailCycle(k, b) PROVE Authority' /\ Kept
  <2>1. cycle' \in [Cycles -> Cycle] /\ run' = run BY <1>10, GotoType DEF FinishCycle, FailCycle
  <2>2. control' = control \/ \E r \in Runs : Settled(r)
    BY <1>0, <1>10 DEF FinishCycle, FailCycle, Authority, AuthorityType, Control
  <2>3. CASE control' = control
    BY <2>1, <2>3 DEF Kept, Authority, AuthorityType, ConfigurationInv, ServingHasAuthority
  <2>. QED BY <2>1, <2>2, <2>3, SettledKeeps DEF Kept
<1>. QED BY <1>1, <1>2, <1>3, <1>4, <1>5, <1>6, <1>7, <1>8, <1>9, <1>10 DEF Bootstrapping

LEMMA AuthorityInit == BootstrapInit => Authority
BY DEF BootstrapInit, Authority, AuthorityType, Control, Run, Cycle, Resting, ConfigurationInv, ServingHasAuthority

LEMMA AuthorityNext == Authority /\ [BootstrapNext]_bootstrapVars => Authority'
<1>. SUFFICES ASSUME Authority, [BootstrapNext]_bootstrapVars PROVE Authority' OBVIOUS
<1>1. CASE Bootstrapping BY <1>1, BootstrappingKeeps
<1>2. ASSUME NEW serves \in {"off", "SHADOW", "CANARY"}, Configure(serves) PROVE Authority'
  <2>1. control' = [serves |-> serves, fence |-> control.fence, reconfigured |-> TRUE, evaluated |-> TRUE]
    BY <1>2 DEF Configure, Authority, AuthorityType, Control
  <2>. QED BY <1>2, <2>1 DEF Configure, Authority, AuthorityType, Control, ConfigurationInv, ServingHasAuthority
<1>3. CASE UNCHANGED bootstrapVars
  BY <1>3 DEF bootstrapVars, Authority, AuthorityType, ConfigurationInv, ServingHasAuthority
<1>. QED BY <1>1, <1>2, <1>3 DEF BootstrapNext

LEMMA AuthorityInvariant == BootstrapSpec => []Authority
BY AuthorityInit, AuthorityNext, PTL DEF BootstrapSpec

\* However runs expire, cycles overlap and operators interfere, unevaluated research is
\* served only under the fence of a run that was not aborted.
THEOREM FencedServing == BootstrapSpec => []ServingHasAuthority
<1>1. Authority => ServingHasAuthority BY DEF Authority
<1>. QED BY <1>1, AuthorityInvariant, PTL

\* No step of a run or a cycle takes away what an operator configured to serve.
THEOREM OperatorKept == BootstrapSpec => OperatorConfigKept
<1>1. Authority /\ [BootstrapNext]_bootstrapVars =>
        [Bootstrapping /\ control.evaluated /\ control.serves = "CANARY" => control'.serves = "CANARY"]_bootstrapVars
  BY BootstrappingKeeps DEF Kept
<1>. QED BY <1>1, AuthorityInvariant, PTL DEF BootstrapSpec, OperatorConfigKept

(***************************************************************************)
(* The bounds of a run.  Nothing takes an action from its run, and only an *)
(* allocation, which counts what the run already has, gives one: a cycle   *)
(* that was overtaken by another finds the other's actions counted.        *)
(***************************************************************************)
ActionType == action \in [Actions -> [lifecycle : {"PROPOSED", "ALLOCATED", "QUEUED", "EXPIRED"}, run : Runs \cup {NoRun}]]

\* A proposed action belongs to no run, so that choosing it takes it from none.
ProposedFree == \A a \in Actions : action[a].lifecycle = "PROPOSED" => action[a].run = NoRun

BoundsInv == ActionType /\ ProposedFree /\ RunWithinBounds

LEMMA CostOfNothing == CostOf({}) = 0
<1>. DEFINE Round(g) == [s \in SUBSET {} |-> IF s = {} THEN 0
                           ELSE LET x == CHOOSE x \in s : TRUE IN Cost[x] + g[s \ {x}]]
            zero == [s \in SUBSET {} |-> 0]
            sum == CHOOSE g : g = Round(g)
<1>1. zero = Round(zero) OBVIOUS
<1>2. sum = Round(sum) BY <1>1
<1>3. CostOf({}) = sum[{}] BY DEF CostOf, SumFunctionOnSet, FoldFunctionOnSet, MapThenFoldSet
<1>4. Round(sum)[{}] = 0 OBVIOUS
<1>. HIDE DEF sum, Round
<1>. QED BY <1>2, <1>3, <1>4

LEMMA BoundsKept ==
  ASSUME BoundsInv, ActionType',
         \A a \in Actions : /\ action'[a].run = action[a].run
                            /\ action'[a].lifecycle = "PROPOSED" => action[a].lifecycle = "PROPOSED"
  PROVE  BoundsInv'
<1>1. \A r \in Runs : Assigned(r)' = Assigned(r) BY DEF Assigned
<1>2. RunWithinBounds' BY <1>1 DEF BoundsInv, RunWithinBounds, CostOf
<1>. QED BY <1>2 DEF BoundsInv, ProposedFree

LEMMA AllocateWithinBounds ==
  ASSUME BoundsInv, Authority, NEW k \in Cycles, NEW fit \in BOOLEAN,
         NEW S \in SUBSET {a \in Actions : action[a].lifecycle = "PROPOSED"}, Allocate(k, S, fit)
  PROVE  BoundsInv'
<1>. USE BootstrapAssumption DEF BootstrapAssumption, BoundsInv
<1>0. PICK r : r = cycle[k].run OBVIOUS
<1>1. CASE action' = action
  BY <1>1, BoundsKept DEF ActionType
<1>2. CASE /\ r \in Active /\ Remaining(r, S)
           /\ action' = [a \in Actions |-> IF a \in S THEN [lifecycle |-> "ALLOCATED", run |-> r] ELSE action[a]]
  <2>1. r \in Runs /\ r # NoRun BY <1>2 DEF Active
  <2>2. \A a \in Actions : action'[a] = IF a \in S THEN [lifecycle |-> "ALLOCATED", run |-> r] ELSE action[a]
    BY <1>2
  <2>3. ActionType' BY <1>2, <2>1 DEF ActionType
  <2>4. ProposedFree' BY <2>2 DEF ProposedFree
  <2>5. Assigned(r)' = Assigned(r) \cup S BY <2>2 DEF Assigned
  <2>6. ASSUME NEW q \in Runs \ {r} PROVE Assigned(q)' = Assigned(q)
    <3>1. \A a \in S : action[a].run = NoRun BY DEF ProposedFree
    <3>. QED BY <2>1, <2>2, <2>6, <3>1 DEF Assigned
  <2>7. RunWithinBounds'
    <3>1. Cardinality(Assigned(r)') <= MaxAssignments /\ CostOf(Assigned(r)') <= MaxProviderCost
      BY <1>2, <2>5 DEF Remaining
    <3>2. \A q \in Runs \ {r} : Cardinality(Assigned(q)') <= MaxAssignments /\ CostOf(Assigned(q)') <= MaxProviderCost
      BY <2>6 DEF RunWithinBounds
    <3>. QED BY <2>1, <3>1, <3>2 DEF RunWithinBounds, CostOf
  <2>. QED BY <2>3, <2>4, <2>7
<1>. QED BY <1>0, <1>1, <1>2 DEF Allocate

LEMMA BoundsStep == BoundsInv /\ Authority /\ [BootstrapNext]_bootstrapVars => BoundsInv'
<1>. SUFFICES ASSUME BoundsInv, Authority, [BootstrapNext]_bootstrapVars PROVE BoundsInv' OBVIOUS
<1>1. CASE action' = action BY <1>1, BoundsKept DEF BoundsInv, ActionType
<1>2. ASSUME NEW k \in Cycles, NEW a \in Actions, Materialize(k, a) PROVE BoundsInv'
  <2>1. action' = [action EXCEPT ![a].lifecycle = "QUEUED"] BY <1>2 DEF Materialize
  <2>2. /\ ActionType'
        /\ \A b \in Actions : /\ action'[b].run = action[b].run
                              /\ action'[b].lifecycle = "PROPOSED" => action[b].lifecycle = "PROPOSED"
    BY <2>1 DEF BoundsInv, ActionType
  <2>. QED BY <2>2, BoundsKept
<1>3. ASSUME NEW r, Settled(r) PROVE BoundsInv'
  <2>1. CASE action' = action BY <1>1, <2>1
  <2>2. CASE action' = [a \in Actions |-> IF a \in Assigned(r) /\ action[a].lifecycle = "ALLOCATED"
                                          THEN [action[a] EXCEPT !.lifecycle = "EXPIRED"] ELSE action[a]]
    <3>1. ASSUME NEW a \in Actions
          PROVE  /\ action'[a] \in [lifecycle : {"PROPOSED", "ALLOCATED", "QUEUED", "EXPIRED"}, run : Runs \cup {NoRun}]
                 /\ action'[a].run = action[a].run
                 /\ action'[a].lifecycle = "PROPOSED" => action[a].lifecycle = "PROPOSED"
      <4>1. action[a] \in [lifecycle : {"PROPOSED", "ALLOCATED", "QUEUED", "EXPIRED"}, run : Runs \cup {NoRun}]
        BY DEF BoundsInv, ActionType
      <4>2. CASE a \in Assigned(r) /\ action[a].lifecycle = "ALLOCATED"
        <5>1. action'[a] = [action[a] EXCEPT !.lifecycle = "EXPIRED"] BY <2>2, <4>2, Zenon
        <5>. QED BY <4>1, <5>1
      <4>3. CASE ~(a \in Assigned(r) /\ action[a].lifecycle = "ALLOCATED")
        <5>1. action'[a] = action[a] BY <2>2, <4>3, Zenon
        <5>. QED BY <4>1, <5>1
      <4>. QED BY <4>2, <4>3
    <3>2. ActionType' BY <2>2, <3>1 DEF ActionType
    <3>. QED BY <3>1, <3>2, BoundsKept
  <2>. QED BY <1>3, <2>1, <2>2 DEF Settled
<1>4. ASSUME NEW k \in Cycles, NEW fit \in BOOLEAN,
             NEW S \in SUBSET {a \in Actions : action[a].lifecycle = "PROPOSED"}, Allocate(k, S, fit)
      PROVE  BoundsInv'
  BY <1>4, AllocateWithinBounds
<1>5. ASSUME NEW k \in Cycles, NEW b \in BOOLEAN, FinishCycle(k) \/ FailCycle(k, b) PROVE BoundsInv'
  BY <1>1, <1>3, <1>5 DEF FinishCycle, FailCycle
<1>6. ASSUME NEW r \in Runs, NEW b \in BOOLEAN, StartRun(r) \/ ExpireRun(r) \/ AbortRun(r) \/ Arm(r, b) PROVE action' = action
  BY <1>6 DEF StartRun, ExpireRun, AbortRun, Arm
<1>7. DisarmControl => action' = action BY DEF DisarmControl
<1>8. ASSUME NEW k \in Cycles, StartCycle(k) \/ Sweep(k) \/ ChooseRun(k) PROVE action' = action
  BY <1>8 DEF StartCycle, Sweep, ChooseRun
<1>9. (\E serves \in {"off", "SHADOW", "CANARY"} : Configure(serves)) => action' = action BY DEF Configure
<1>10. UNCHANGED bootstrapVars => action' = action BY DEF bootstrapVars
<1>. QED BY <1>1, <1>2, <1>4, <1>5, <1>6, <1>7, <1>8, <1>9, <1>10 DEF BootstrapNext, Bootstrapping

LEMMA BoundsStart == BootstrapInit => BoundsInv
<1>. SUFFICES ASSUME BootstrapInit PROVE BoundsInv OBVIOUS
<1>1. action = [a \in Actions |-> [lifecycle |-> "PROPOSED", run |-> NoRun]] BY DEF BootstrapInit
<1>2. ActionType /\ ProposedFree BY <1>1 DEF ActionType, ProposedFree
<1>3. \A r \in Runs : Assigned(r) = {} BY <1>1, BootstrapAssumption DEF Assigned, BootstrapAssumption
<1>4. RunWithinBounds
  BY <1>3, CostOfNothing, FS_EmptySet, BootstrapAssumption DEF RunWithinBounds, BootstrapAssumption
<1>. QED BY <1>2, <1>4 DEF BoundsInv

LEMMA BoundsInvariant == BootstrapSpec => [](Authority /\ BoundsInv)
<1>1. Authority /\ BoundsInv /\ [BootstrapNext]_bootstrapVars => (Authority /\ BoundsInv)'
  BY AuthorityNext, BoundsStep
<1>. QED BY <1>1, AuthorityInit, BoundsStart, PTL DEF BootstrapSpec

\* Every reachable state of the bootstrap runs is well typed.
THEOREM BootstrapTypeCorrect == BootstrapSpec => []BootstrapTypeOK
<1>1. Authority /\ BoundsInv => BootstrapTypeOK
  BY DEF Authority, AuthorityType, BoundsInv, ActionType, BootstrapTypeOK, Run, Cycle
<1>. QED BY <1>1, BoundsInvariant, PTL

\* However many cycles overlap, each allocating after its lease has passed, a run is assigned
\* no more actions, and none of a higher cost together, than it was started with.
THEOREM WithinBounds == BootstrapSpec => []RunWithinBounds
<1>1. BoundsInv => RunWithinBounds BY DEF BoundsInv
<1>. QED BY <1>1, BoundsInvariant, PTL

(***************************************************************************)
(* VocabularyBudget, for any requests, extractions and caps.  What a stored*)
(* response needs is that no owner can close its row as if nothing had been*)
(* stored: the caps play no part in the argument.                          *)
(***************************************************************************)

ExtractionPlace == [at : {"new", "admitted", "answered", "replaying", "recorded", "done"},
          request : AiRequests, called : BOOLEAN]

\* An owner that was admitted and has stored nothing owns a row without a response.
StoredByOwner == \A e \in Extractions : extraction[e].at = "admitted" /\ Owns(e) => ~ledger[extraction[e].request].response

VocabularyInv == VocabularyTypeOK /\ StoredByOwner

LEMMA StepType ==
  ASSUME VocabularyTypeOK, NEW e \in Extractions,
         NEW at \in {"new", "admitted", "answered", "replaying", "recorded", "done"}, Step(e, at)
  PROVE  /\ extraction' \in [Extractions -> ExtractionPlace]
         /\ \A d \in Extractions : extraction'[d].request = extraction[d].request
         /\ \A d \in Extractions : extraction'[d].at = IF d = e THEN at ELSE extraction[d].at
BY DEF VocabularyTypeOK, Step, ExtractionPlace

LEMMA ReclaimedType ==
  ASSUME NEW entry \in LedgerRow
  PROVE  /\ Reclaimed(entry) \in LedgerRow
         /\ Reclaimed(entry).status = "FAILED" /\ Reclaimed(entry).response = entry.response
<1>. DEFINE actual == IF entry.actual > 1 THEN entry.actual ELSE 1
<1>1. actual \in Nat BY DEF LedgerRow
<1>2. Reclaimed(entry) = [entry EXCEPT !.status = "FAILED", !.live = FALSE, !.lease = NoExtraction, !.actual = actual]
  BY DEF Reclaimed
<1>. HIDE DEF actual
<1>3. Reclaimed(entry) = [status |-> "FAILED", actual |-> actual, response |-> entry.response,
                        lease |-> NoExtraction, live |-> FALSE]
  BY <1>2 DEF LedgerRow
<1>. QED BY <1>1, <1>3 DEF LedgerRow

\* The sweep before an admission fails abandoned reservations and touches nothing else.
LEMMA SweptType ==
  ASSUME VocabularyTypeOK, NEW q \in AiRequests
  PROVE  /\ Swept(q) \in [AiRequests -> LedgerRow]
         /\ \A p \in AiRequests : IF p \in Abandoned(q) THEN Swept(q)[p].status = "FAILED" ELSE Swept(q)[p] = ledger[p]
<1>1. ASSUME NEW p \in AiRequests
      PROVE  /\ Swept(q)[p] \in LedgerRow
             /\ IF p \in Abandoned(q) THEN Swept(q)[p].status = "FAILED" ELSE Swept(q)[p] = ledger[p]
  <2>1. ledger[p] \in LedgerRow BY DEF VocabularyTypeOK
  <2>2. Swept(q)[p] = IF p \in Abandoned(q) THEN Reclaimed(ledger[p]) ELSE ledger[p] BY Zenon DEF Swept
  <2>3. Reclaimed(ledger[p]) \in LedgerRow /\ Reclaimed(ledger[p]).status = "FAILED" BY <2>1, ReclaimedType
  <2>. QED BY <2>1, <2>2, <2>3
<1>2. Swept(q) = [p \in AiRequests |-> Swept(q)[p]] BY Zenon DEF Swept
<1>. QED BY <1>1, <1>2

\* Finish: only the owner of a recorded response closes a row with the response it keeps.
LEMMA ClosedType ==
  ASSUME VocabularyTypeOK, NEW e \in Extractions
  PROVE  LET closed == [Closed(e) EXCEPT !.lease = NoExtraction, !.live = FALSE]
             entry == ledger[extraction[e].request]
         IN /\ closed \in LedgerRow
            /\ closed.status # "RESERVED"
            /\ extraction[e].at = "recorded" => closed.status = "SUCCEEDED" /\ closed.response = entry.response
<1>. DEFINE entry == ledger[extraction[e].request]
            closed == [Closed(e) EXCEPT !.lease = NoExtraction, !.live = FALSE]
<1>1. entry \in LedgerRow BY DEF VocabularyTypeOK
<1>2. /\ Closed(e) \in LedgerRow
      /\ Closed(e).status # "RESERVED"
      /\ extraction[e].at = "recorded" => Closed(e).status = "SUCCEEDED" /\ Closed(e).response = entry.response
  <2>1. CASE extraction[e].at = "recorded"
    <3>1. Closed(e) = [entry EXCEPT !.status = "SUCCEEDED", !.actual = @ + 1] BY <2>1, Zenon DEF Closed
    <3>2. Closed(e) = [status |-> "SUCCEEDED", actual |-> entry.actual + 1, response |-> entry.response,
                       lease |-> entry.lease, live |-> entry.live]
      BY <1>1, <3>1 DEF LedgerRow
    <3>3. entry.actual + 1 \in Nat BY <1>1 DEF LedgerRow
    <3>. QED BY <1>1, <3>2, <3>3 DEF LedgerRow
  <2>2. CASE extraction[e].at # "recorded" /\ extraction[e].called
    <3>1. Closed(e) = [entry EXCEPT !.status = "FAILED", !.actual = @ + 1] BY <2>2, Zenon DEF Closed
    <3>2. Closed(e) = [status |-> "FAILED", actual |-> entry.actual + 1, response |-> entry.response,
                       lease |-> entry.lease, live |-> entry.live]
      BY <1>1, <3>1 DEF LedgerRow
    <3>3. entry.actual + 1 \in Nat BY <1>1 DEF LedgerRow
    <3>. QED BY <1>1, <2>2, <3>2, <3>3 DEF LedgerRow
  <2>3. CASE extraction[e].at # "recorded" /\ ~extraction[e].called
    <3>1. CASE entry.actual = 0
      <4>1. Closed(e) = NoLedgerRow BY <2>3, <3>1, Zenon DEF Closed
      <4>2. NoLedgerRow.status = "absent" /\ NoLedgerRow \in LedgerRow BY DEF NoLedgerRow, LedgerRow
      <4>. QED BY <2>3, <4>1, <4>2
    <3>2. CASE entry.actual # 0
      <4>1. Closed(e) = [entry EXCEPT !.status = "FAILED", !.response = FALSE] BY <2>3, <3>2, Zenon DEF Closed
      <4>2. Closed(e) = [status |-> "FAILED", actual |-> entry.actual, response |-> FALSE,
                         lease |-> entry.lease, live |-> entry.live]
        BY <1>1, <4>1 DEF LedgerRow
      <4>. QED BY <1>1, <2>3, <4>2 DEF LedgerRow
    <3>. QED BY <3>1, <3>2
  <2>. QED BY <2>1, <2>2, <2>3
<1>3. PICK c : c = Closed(e) OBVIOUS
<1>4. PICK r : r = [c EXCEPT !.lease = NoExtraction, !.live = FALSE] OBVIOUS
<1>5. r = [status |-> c.status, actual |-> c.actual, response |-> c.response, lease |-> NoExtraction, live |-> FALSE]
  BY <1>2, <1>3, <1>4, Zenon DEF LedgerRow
<1>6. closed = r BY <1>3, <1>4, Zenon
<1>. QED BY <1>2, <1>3, <1>5, <1>6 DEF LedgerRow

LEMMA VocabularyStep ==
  ASSUME VocabularyInv, [VocabularyNext]_vocabularyVars
  PROVE  /\ VocabularyInv'
         /\ \A q \in AiRequests : Replays(q) => ledger'[q].response /\ ledger'[q].status \in {"RESERVED", "SUCCEEDED"}
<1>. USE DEF VocabularyInv, StoredByOwner, Owns, Reserved, Replays
<1>. DEFINE ResponsesKept == \A q \in AiRequests : Replays(q) => ledger'[q].response /\ ledger'[q].status \in {"RESERVED", "SUCCEEDED"}
<1>0. VocabularyTypeOK' <=> ledger' \in [AiRequests -> LedgerRow] /\ extraction' \in [Extractions -> ExtractionPlace]
  BY DEF VocabularyTypeOK, ExtractionPlace
<1>a. \A e \in Extractions : extraction[e].request \in AiRequests BY DEF VocabularyTypeOK
<1>1. ASSUME NEW e \in Extractions, Replay(e) PROVE VocabularyInv' /\ ResponsesKept
  <2>. DEFINE q == extraction[e].request
  <2>1. Step(e, "replaying") /\ ledger' = [ledger EXCEPT ![q].lease = e, ![q].live = TRUE] /\ Replays(q) BY <1>1 DEF Replay
  <2>2. ledger[q] \in LedgerRow BY <1>a DEF VocabularyTypeOK
  <2>3. ledger' = [ledger EXCEPT ![q] = [status |-> ledger[q].status, actual |-> ledger[q].actual,
                                         response |-> ledger[q].response, lease |-> e, live |-> TRUE]]
    <3>1. PICK entry : entry = [ledger[q] EXCEPT !.lease = e, !.live = TRUE] OBVIOUS
    <3>2. entry = [status |-> ledger[q].status, actual |-> ledger[q].actual,
                 response |-> ledger[q].response, lease |-> e, live |-> TRUE]
      BY <2>2, <3>1, Zenon DEF LedgerRow
    <3>3. ledger' = [ledger EXCEPT ![q] = entry] BY <2>1, <3>1, <1>a, Zenon DEF VocabularyTypeOK
    <3>. QED BY <3>2, <3>3, Zenon
  <2>4. ledger' \in [AiRequests -> LedgerRow] BY <2>2, <2>3 DEF VocabularyTypeOK, LedgerRow
  <2>. QED BY <1>0, <1>a, <2>1, <2>3, <2>4, StepType DEF VocabularyTypeOK
<1>2. ASSUME NEW e \in Extractions, Duplicate(e) PROVE VocabularyInv' /\ ResponsesKept
  BY <1>0, <1>2, StepType DEF Duplicate, VocabularyTypeOK
<1>3. ASSUME NEW e \in Extractions, Reserve(e) PROVE VocabularyInv' /\ ResponsesKept
  <2>. DEFINE q == extraction[e].request
              opened == [status |-> "RESERVED", actual |-> Swept(q)[q].actual, response |-> FALSE, lease |-> e, live |-> TRUE]
              skipped == [Swept(q)[q] EXCEPT !.status = "BUDGET_SKIPPED"]
  <2>1. /\ Swept(q) \in [AiRequests -> LedgerRow]
        /\ \A p \in AiRequests : IF p \in Abandoned(q) THEN Swept(q)[p].status = "FAILED" ELSE Swept(q)[p] = ledger[p]
    BY <1>a, SweptType
  <2>2. ~Replays(q) /\ (Step(e, "admitted") \/ Step(e, "done")) BY <1>3 DEF Reserve
  <2>3. \A p \in AiRequests : Replays(p) => p \notin Abandoned(q) BY <2>2 DEF Abandoned
  <2>4. CASE ledger' = [Swept(q) EXCEPT ![q] = opened]
    <3>1. opened \in LedgerRow BY <2>1, <1>a DEF LedgerRow
    <3>. HIDE DEF opened
    <3>2. ledger' \in [AiRequests -> LedgerRow] BY <2>1, <2>4, <3>1
    <3>3. ledger'[q].lease = e /\ ~ledger'[q].response BY <1>a, <2>1, <2>4 DEF opened
    <3>. QED BY <1>0, <1>a, <2>1, <2>2, <2>3, <2>4, <3>2, <3>3, StepType DEF VocabularyTypeOK
  <2>5. CASE Step(e, "done") /\ ledger' = [Swept(q) EXCEPT ![q].status = "BUDGET_SKIPPED"]
    <3>1. skipped = [status |-> "BUDGET_SKIPPED", actual |-> Swept(q)[q].actual, response |-> Swept(q)[q].response,
                     lease |-> Swept(q)[q].lease, live |-> Swept(q)[q].live] /\ skipped \in LedgerRow
      BY <2>1, <1>a DEF LedgerRow
    <3>2. ledger' = [Swept(q) EXCEPT ![q] = skipped] BY <1>a, <2>1, <2>5
    <3>3. skipped.status = "BUDGET_SKIPPED" /\ skipped \in LedgerRow BY <3>1
    <3>. HIDE DEF skipped
    <3>. QED BY <1>0, <1>a, <2>1, <2>2, <2>3, <2>5, <3>2, <3>3, StepType DEF VocabularyTypeOK
  <2>6. CASE Step(e, "done") /\ ledger' = Swept(q)
    BY <1>0, <1>a, <2>1, <2>2, <2>3, <2>6, StepType DEF VocabularyTypeOK
  <2>. QED BY <1>3, <2>4, <2>5, <2>6 DEF Reserve
<1>4. ASSUME NEW e \in Extractions, Record(e) PROVE VocabularyInv' /\ ResponsesKept
  <2>. DEFINE q == extraction[e].request
  <2>1. CASE Owns(e) /\ ledger' = [ledger EXCEPT ![q].response = TRUE, ![q].live = TRUE] /\ Step(e, "recorded")
    <3>1. ledger[q] \in LedgerRow BY <1>a DEF VocabularyTypeOK
    <3>2. ledger' = [ledger EXCEPT ![q] = [status |-> ledger[q].status, actual |-> ledger[q].actual,
                                           response |-> TRUE, lease |-> ledger[q].lease, live |-> TRUE]]
      <4>1. PICK entry : entry = [ledger[q] EXCEPT !.response = TRUE, !.live = TRUE] OBVIOUS
      <4>2. entry = [status |-> ledger[q].status, actual |-> ledger[q].actual,
                   response |-> TRUE, lease |-> ledger[q].lease, live |-> TRUE]
        BY <3>1, <4>1, Zenon DEF LedgerRow
      <4>3. ledger' = [ledger EXCEPT ![q] = entry] BY <2>1, <4>1, <1>a, Zenon DEF VocabularyTypeOK
      <4>. QED BY <4>2, <4>3, Zenon
    <3>3. ledger' \in [AiRequests -> LedgerRow] BY <3>1, <3>2 DEF VocabularyTypeOK, LedgerRow
    <3>. QED BY <1>0, <1>a, <2>1, <3>2, <3>3, StepType DEF VocabularyTypeOK
  <2>2. CASE Step(e, "done") /\ ledger' = ledger BY <1>0, <2>2, StepType DEF VocabularyTypeOK
  <2>. QED BY <1>4, <2>1, <2>2 DEF Record
<1>5. ASSUME NEW e \in Extractions, Finish(e) PROVE VocabularyInv' /\ ResponsesKept
  <2>. DEFINE q == extraction[e].request
              closed == [Closed(e) EXCEPT !.lease = NoExtraction, !.live = FALSE]
  <2>1. /\ closed \in LedgerRow /\ closed.status # "RESERVED"
        /\ extraction[e].at = "recorded" => closed.status = "SUCCEEDED" /\ closed.response = ledger[q].response
    BY ClosedType
  <2>2. Step(e, "done") /\ extraction[e].at \in {"admitted", "recorded"}
        /\ ledger' = IF Owns(e) THEN [ledger EXCEPT ![q] = closed] ELSE ledger
    BY <1>5 DEF Finish
  <2>. HIDE DEF closed
  <2>3. CASE Owns(e)
    <3>1. ledger' = [ledger EXCEPT ![q] = closed] BY <2>2, <2>3
    <3>2. extraction[e].at = "admitted" => ~Replays(q) BY <2>3
    <3>. QED BY <1>0, <1>a, <2>1, <2>2, <3>1, <3>2, StepType DEF VocabularyTypeOK
  <2>4. CASE ~Owns(e) BY <1>0, <2>2, <2>4, StepType DEF VocabularyTypeOK
  <2>. QED BY <2>3, <2>4
<1>6. ASSUME NEW e \in Extractions, Crash(e) PROVE VocabularyInv' /\ ResponsesKept
  BY <1>0, <1>6, StepType DEF Crash, VocabularyTypeOK
<1>7. ASSUME NEW e \in Extractions, NEW parsed \in BOOLEAN, Call(e, parsed) PROVE VocabularyInv' /\ ResponsesKept
  <2>1. extraction[e] \in ExtractionPlace /\ extraction[e].at = "admitted" BY <1>7 DEF Call, VocabularyTypeOK, ExtractionPlace
  <2>. DEFINE at == IF parsed THEN "answered" ELSE "admitted"
  <2>2. at \in {"answered", "admitted"} OBVIOUS
  <2>3. extraction' = [extraction EXCEPT ![e] = [extraction[e] EXCEPT !.called = TRUE, !.at = at]] /\ ledger' = ledger
    BY <1>7, <2>1 DEF Call, VocabularyTypeOK
  <2>. HIDE DEF at
  <2>4. PICK place : place = [extraction[e] EXCEPT !.called = TRUE, !.at = at] OBVIOUS
  <2>5. extraction' = [extraction EXCEPT ![e] = [at |-> at, request |-> extraction[e].request, called |-> TRUE]]
    <3>1. place = [at |-> at, request |-> extraction[e].request, called |-> TRUE] BY <2>1, <2>4, Zenon DEF ExtractionPlace
    <3>. QED BY <2>3, <2>4, <3>1, Zenon
  <2>6. extraction' \in [Extractions -> ExtractionPlace] BY <2>1, <2>2, <2>5 DEF VocabularyTypeOK, ExtractionPlace
  <2>. QED BY <1>0, <1>a, <2>1, <2>2, <2>3, <2>5, <2>6 DEF VocabularyTypeOK
<1>8. ASSUME NEW p \in AiRequests, LeaseExpires(p) PROVE VocabularyInv' /\ ResponsesKept
  <2>1. ledger' = [ledger EXCEPT ![p].live = FALSE] /\ extraction' = extraction BY <1>8 DEF LeaseExpires
  <2>2. ledger' \in [AiRequests -> LedgerRow] BY <2>1 DEF VocabularyTypeOK, LedgerRow
  <2>. QED BY <1>0, <1>a, <2>1, <2>2 DEF VocabularyTypeOK, LedgerRow
<1>9. CASE UNCHANGED vocabularyVars BY <1>9 DEF vocabularyVars, VocabularyTypeOK
<1>. QED BY <1>1, <1>2, <1>3, <1>4, <1>5, <1>6, <1>7, <1>8, <1>9 DEF VocabularyNext

LEMMA VocabularyStart == VocabularyInit => VocabularyInv
<1>. SUFFICES ASSUME VocabularyInit PROVE VocabularyInv OBVIOUS
<1>1. NoLedgerRow \in LedgerRow BY DEF NoLedgerRow, LedgerRow
<1>2. ledger \in [AiRequests -> LedgerRow] BY <1>1 DEF VocabularyInit
<1>3. extraction \in [Extractions -> ExtractionPlace] /\ \A e \in Extractions : extraction[e].at = "new"
  BY DEF VocabularyInit, ExtractionPlace
<1>. QED BY <1>2, <1>3 DEF VocabularyInv, VocabularyTypeOK, StoredByOwner, ExtractionPlace

\* Every reachable state of the vocabulary ledger is well typed.
THEOREM VocabularyTypeCorrect == VocabularySpec => []VocabularyTypeOK
<1>1. VocabularyInv /\ [VocabularyNext]_vocabularyVars => VocabularyInv' BY VocabularyStep
<1>2. VocabularyInv => VocabularyTypeOK BY DEF VocabularyInv
<1>. QED BY <1>1, <1>2, VocabularyStart, PTL DEF VocabularySpec

\* A response that was paid for and stored is not thrown away before it is admitted, by
\* any sweep, expired lease, crash or late owner.
THEOREM PaidResponses == VocabularySpec => PaidResponseKept
<1>1. VocabularyInv /\ [VocabularyNext]_vocabularyVars => VocabularyInv' BY VocabularyStep
<1>2. VocabularyInv /\ [VocabularyNext]_vocabularyVars =>
        [\A q \in AiRequests : Replays(q) =>
           ledger'[q].response /\ ledger'[q].status \in {"RESERVED", "SUCCEEDED"}]_vocabularyVars
  BY VocabularyStep
<1>. QED BY <1>1, <1>2, VocabularyStart, PTL DEF VocabularySpec, PaidResponseKept
=============================================================================
