----------------------------- MODULE MCServices -----------------------------
(***************************************************************************)
(* The accounts and rows that jobs share, on small instances: key health,  *)
(* key caps, the daily ledger, a site inspection, the research bootstrap   *)
(* and the vocabulary ledger.  They share no variable but the Pacific day, *)
(* and are explored one at a time: subject names the one that moves.       *)
(***************************************************************************)
EXTENDS YouTubeKeyHealth, YouTubeKeyCap, QuotaLedger, SiteInspection, ResearchBootstrap,
        VocabularyBudget, TLC

CONSTANTS plain, probe, bulk, o1, o2, c1, c2, i1, i2, a1, a2, q1, e1, e2, e3

VARIABLE subject

UnitsOfRequests == plain :> 1 @@ probe :> 1 @@ bulk :> 2
AskOfOperations == o1 :> 2 @@ o2 :> 1
CostOfActions == a1 :> 1 @@ a2 :> 2

\* Creators of a site, and the invites it shows, are interchangeable.
Symmetry == Permutations({c1, c2}) \cup Permutations({i1, i2})

capOnly == <<request, leases, usage, probeUsage, accounted, spent>>
ledgerOnly == <<tracker, reservation, transaction, working, uncovered>>

ServicesInit ==
  /\ subject \in {"health", "cap", "ledger", "site", "bootstrap", "vocabulary"}
  /\ HealthInit /\ CapInit /\ LedgerInit /\ SiteInit
  /\ BootstrapInit /\ VocabularyInit
  /\ subject # "vocabulary" => \A e \in {e1, e2, e3} : extraction[e].request = q1

ServicesNext ==
  /\ UNCHANGED subject
  /\ (subject = "health" /\ HealthNext) \/ (subject # "health" /\ UNCHANGED healthVars)
  /\ \/ subject = "cap" /\ CapNext /\ UNCHANGED ledgerOnly
     \/ subject = "ledger" /\ LedgerNext /\ UNCHANGED capOnly
     \/ subject \notin {"cap", "ledger"} /\ UNCHANGED <<today, capOnly, ledgerOnly>>
  /\ (subject = "site" /\ SiteNext) \/ (subject # "site" /\ UNCHANGED siteVars)
  /\ (subject = "bootstrap" /\ BootstrapNext) \/ (subject # "bootstrap" /\ UNCHANGED bootstrapVars)
  /\ (subject = "vocabulary" /\ VocabularyNext) \/ (subject # "vocabulary" /\ UNCHANGED vocabularyVars)

ServicesSpec ==
  ServicesInit /\ [][ServicesNext]_<<subject, healthVars, capVars, ledgerVars, siteVars, bootstrapVars, vocabularyVars>>

ServicesTypeOK ==
  /\ HealthTypeOK /\ CapTypeOK /\ LedgerTypeOK /\ SiteTypeOK
  /\ BootstrapTypeOK /\ VocabularyTypeOK
=============================================================================
