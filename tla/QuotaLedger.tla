---------------------------- MODULE QuotaLedger ----------------------------
(***************************************************************************)
(* The shared daily YouTube budget in src/server/dbCore.ts: the reservation*)
(* an operation holds while it works (tryReserveQuota,                     *)
(* topUpQuotaReservation, finishQuotaReservation) and the single-row       *)
(* tracker that charges add to (incrementQuota), which every transaction   *)
(* rolls over to the Pacific day it read when it began.                    *)
(*                                                                         *)
(* A transaction reads the clock, then waits for the tracker row; from     *)
(* there to its commit it is one step.  The day may change in between.     *)
(***************************************************************************)
EXTENDS PacificDay, FiniteSets, Functions

CONSTANTS Operations,
          Ask,         \* operation -> the units it reserves
          Budget,      \* the daily budget
          MaxCharges   \* bound on the units charged under one reservation

ASSUME LedgerAssumption ==
  /\ IsFiniteSet(Operations) /\ Ask \in [Operations -> Nat]
  /\ Budget \in Nat /\ MaxCharges \in Nat

VARIABLES tracker,     \* quota_tracker: last_reset and units_used
          reservation, \* operation -> its quota_reservations row; lapsed once expires_at has passed
          transaction, \* operation -> the transaction it has begun, and the day that read
          working,     \* operations whose worker was admitted and has not finished
          uncovered    \* units charged today with no reservation left to cover them

ledgerVars == <<today, tracker, reservation, transaction, working, uncovered>>

NoTransaction == [kind |-> "none", day |-> 0]

LedgerTypeOK ==
  /\ today \in 1 .. LastDay
  /\ tracker \in [day : 0 .. LastDay, used : Nat]
  /\ reservation \in [Operations ->
       [status : {"NONE", "RESERVED", "CONSUMED", "RELEASED", "EXPIRED"}, units : Nat,
        lapsed : BOOLEAN, charged : 0 .. MaxCharges]]
  /\ transaction \in [Operations ->
       [kind : {"none", "reserve", "topUp", "charge", "reconcile"}, day : 0 .. LastDay]]
  /\ working \in SUBSET Operations /\ uncovered \in Nat

LedgerInit ==
  /\ today = 1 /\ tracker = [day |-> 0, used |-> 0] /\ working = {} /\ uncovered = 0
  /\ reservation = [o \in Operations |-> [status |-> "NONE", units |-> 0, lapsed |-> FALSE, charged |-> 0]]
  /\ transaction = [o \in Operations |-> NoTransaction]

Live(o) == reservation[o].status = "RESERVED" /\ ~reservation[o].lapsed
Held(S) == SumFunctionOnSet([o \in S |-> IF Live(o) THEN reservation[o].units ELSE 0], S)
Left(o) == IF Live(o) /\ reservation[o].units > reservation[o].charged
           THEN reservation[o].units - reservation[o].charged ELSE 0

\* Every transaction reads the day after BEGIN, before it has the tracker row.
Open(o, kind) ==
  /\ transaction[o] = NoTransaction
  /\ kind \in {"topUp", "charge"} => o \in working
  /\ transaction' = [transaction EXCEPT ![o] = [kind |-> kind, day |-> today]]
  /\ UNCHANGED <<today, tracker, reservation, working, uncovered>>

\* The upsert of the tracker: a row of another day starts again from zero.
Rolled(day) == IF tracker.day # day THEN [day |-> day, used |-> 0] ELSE tracker

Close(o, kind) == /\ transaction[o].kind = kind
                  /\ transaction' = [transaction EXCEPT ![o] = NoTransaction]
                  /\ UNCHANGED today

\* A reservation whose time is up is marked expired by the next admission.
SweptReservations ==
  [o \in Operations |-> IF reservation[o].status = "RESERVED" /\ reservation[o].lapsed
                        THEN [reservation[o] EXCEPT !.status = "EXPIRED"] ELSE reservation[o]]

\* Allocation shares are preferences: only the shared budget admits.
AdmitsUnits_UsageOnly(rolled, o, units) == rolled.used + units <= Budget
AdmitsUnits(rolled, o, units) == rolled.used + Held(Operations \ {o}) + units <= Budget

\* tryReserveQuota.  A live reservation that is large enough is reused as it is; one
\* that no longer counts is taken over by the operation's next attempt.
TryReserve(o) ==
  LET rolled == Rolled(transaction[o].day) IN
  /\ Close(o, "reserve")
  /\ IF Live(o) /\ reservation[o].units >= Ask[o]
     THEN /\ tracker' = rolled /\ reservation' = SweptReservations
          /\ working' = working \cup {o}
     ELSE IF AdmitsUnits(rolled, o, Ask[o])
     THEN /\ tracker' = rolled
          /\ reservation' = [SweptReservations EXCEPT ![o] = [status |-> "RESERVED", units |-> Ask[o],
                              lapsed |-> FALSE, charged |-> IF Live(o) THEN @.charged ELSE 0]]
          /\ working' = working \cup {o}
     ELSE UNCHANGED <<tracker, reservation, working>>
  /\ uncovered' = IF tracker'.day # tracker.day THEN 0 ELSE uncovered

\* topUpQuotaReservation: one more unit for a live reservation.
TopUp(o) ==
  LET rolled == Rolled(transaction[o].day) IN
  /\ Close(o, "topUp")
  /\ IF Live(o) /\ AdmitsUnits(rolled, o, reservation[o].units + 1)
     THEN /\ tracker' = rolled
          /\ reservation' = [reservation EXCEPT ![o].units = @ + 1]
     ELSE UNCHANGED <<tracker, reservation>>
  /\ uncovered' = IF tracker'.day # tracker.day THEN 0 ELSE uncovered
  /\ UNCHANGED working

\* incrementQuota: the provider was used, so the unit is added whatever the budget says.
Charge(o) ==
  LET rolled == Rolled(transaction[o].day)
      base == IF rolled.day # tracker.day THEN 0 ELSE uncovered
  IN
  /\ reservation[o].charged < MaxCharges
  /\ Close(o, "charge")
  /\ tracker' = [rolled EXCEPT !.used = @ + 1]
  /\ reservation' = [reservation EXCEPT ![o].charged = @ + 1]
  /\ uncovered' = base + (IF Left(o) = 0 THEN 1 ELSE 0)
  /\ UNCHANGED working

\* reconcileYouTubeQuotaRolloverAndGetAutonomousSnapshot, run by the scheduler.
Reconcile(o) ==
  /\ Close(o, "reconcile")
  /\ tracker' = Rolled(transaction[o].day) /\ reservation' = SweptReservations
  /\ uncovered' = IF tracker'.day # tracker.day THEN 0 ELSE uncovered
  /\ UNCHANGED working

\* finishQuotaReservation, by whichever attempt of the operation ends.
FinishReservation(o, status) ==
  /\ o \in working /\ transaction[o] = NoTransaction
  /\ working' = working \ {o}
  /\ reservation' = [reservation EXCEPT ![o].status = IF @ = "RESERVED" THEN status ELSE @]
  /\ UNCHANGED <<today, tracker, transaction, uncovered>>

\* The worker dies, and with it the transaction it had open: the reservation stays.
WorkerDies(o) ==
  /\ o \in working
  /\ working' = working \ {o} /\ transaction' = [transaction EXCEPT ![o] = NoTransaction]
  /\ UNCHANGED <<today, tracker, reservation, uncovered>>

\* Twenty minutes pass; a Pacific midnight passes.
Lapse(o) ==
  /\ Live(o) /\ reservation' = [reservation EXCEPT ![o].lapsed = TRUE]
  /\ UNCHANGED <<today, tracker, transaction, working, uncovered>>

LedgerMidnight == /\ NextDay
                  /\ UNCHANGED <<tracker, reservation, transaction, working, uncovered>>

LedgerNext ==
  \/ LedgerMidnight
  \/ \E o \in Operations :
       \/ \E kind \in {"reserve", "topUp", "charge", "reconcile"} : Open(o, kind)
       \/ TryReserve(o) \/ TopUp(o) \/ Charge(o) \/ Reconcile(o) \/ WorkerDies(o) \/ Lapse(o)
       \/ \E status \in {"CONSUMED", "RELEASED"} : FinishReservation(o, status)

LedgerSpec == LedgerInit /\ [][LedgerNext]_ledgerVars

(***************************************************************************)
(* Properties                                                              *)
(***************************************************************************)
\* What is used today and what live reservations may still use stay within the budget,
\* but for units charged after their reservation expired, finished or was used up: no
\* interleaving of admissions, top-ups, retries and charges admits more.
AdmissionWithinBudget ==
  tracker.used + SumFunctionOnSet([o \in Operations |-> Left(o)], Operations) <= Budget + uncovered
=============================================================================
