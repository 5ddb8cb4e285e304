------------------------- MODULE ResearchBootstrap -------------------------
(***************************************************************************)
(* Bootstrap runs of the research controller                               *)
(* (src/server/persistentResearchController.ts): a run arms the serving    *)
(* control with a fence that names it, allocates actions up to its bounds, *)
(* and releases control however it ends.  Operators reconfigure the same   *)
(* control (src/server/persistentResearch.ts).                             *)
(*                                                                         *)
(* Every transaction locks the control row first and is one step.  The     *)
(* lease of a cycle lasts 120 s and is never renewed, so it does not keep  *)
(* two cycles apart.  A configuration version is abstracted to the one     *)
(* comparison made of it: has an operator written since the arming.        *)
(***************************************************************************)
EXTENDS Naturals, FiniteSets, Functions

CONSTANTS Runs, NoRun, Actions, Cycles,
          Cost,              \* action -> its provider cost
          MaxAssignments, MaxProviderCost   \* the bounds every run is started with

ASSUME BootstrapAssumption ==
  NoRun \notin Runs /\ MaxAssignments \in Nat \ {0} /\ MaxProviderCost \in Nat \ {0}

VARIABLES control,   \* research_control: what it serves, the fence, and who set it
          run,       \* run -> its status and whether its window is over
          action,    \* action -> its lifecycle and the run that assigned it
          cycle      \* cycle -> its place, the run it allocates for, and completed

bootstrapVars == <<control, run, action, cycle>>

\* off: disabled, paused or killed.  evaluated: an operator's configuration, which needs
\* a policy that passed its evaluation to serve, decides what is served.
Control == [serves : {"off", "SHADOW", "CANARY"}, fence : Runs \cup {NoRun},
            reconfigured : BOOLEAN, evaluated : BOOLEAN]
Resting == [at |-> "idle", run |-> NoRun, completed |-> FALSE]

BootstrapTypeOK ==
  /\ control \in Control
  /\ run \in [Runs -> [status : {"new", "ACTIVE", "COMPLETED", "ABORTED"}, expired : BOOLEAN]]
  /\ action \in [Actions -> [lifecycle : {"PROPOSED", "ALLOCATED", "QUEUED", "EXPIRED"},
                             run : Runs \cup {NoRun}]]
  /\ cycle \in [Cycles -> [at : {"idle", "sweep", "started", "chosen", "allocated"},
                           run : Runs \cup {NoRun}, completed : BOOLEAN]]

BootstrapInit ==
  /\ control = [serves |-> "SHADOW", fence |-> NoRun, reconfigured |-> FALSE, evaluated |-> TRUE]
  /\ run = [r \in Runs |-> [status |-> "new", expired |-> FALSE]]
  /\ action = [a \in Actions |-> [lifecycle |-> "PROPOSED", run |-> NoRun]]
  /\ cycle = [k \in Cycles |-> Resting]

Active == {r \in Runs : run[r].status = "ACTIVE"}

\* A status update is conditional on ACTIVE.
Ended(rs, status) == [r \in Runs |-> IF r \in rs \cap Active THEN [run[r] EXCEPT !.status = status] ELSE run[r]]

Disarmed_Always == [control EXCEPT !.fence = NoRun, !.serves = "off"]

\* disarmControlTx: the fence goes; what is served goes with it unless an operator has
\* configured the control since the arming.
Disarmed == IF control.reconfigured THEN [control EXCEPT !.fence = NoRun]
            ELSE [control EXCEPT !.fence = NoRun, !.serves = "off"]

\* Of a given run, or of any: without that fence it does nothing.
DisarmOf_Nothing(r) == control
DisarmOf(r) == IF control.fence = r THEN Disarmed ELSE control
DisarmAny == IF control.fence # NoRun THEN Disarmed ELSE control

Assigned(r) == {a \in Actions : action[a].run = r}
CostOf(S) == SumFunctionOnSet(Cost, S)
Exhausted(S) == Cardinality(S) >= MaxAssignments \/ CostOf(S) >= MaxProviderCost

(***************************************************************************)
(* Operators                                                               *)
(***************************************************************************)
\* At most one run is ACTIVE, by a unique index (migration 140).
StartRun(r) == /\ run[r].status = "new" /\ Active = {}
               /\ run' = [run EXCEPT ![r].status = "ACTIVE"]
               /\ UNCHANGED <<control, action, cycle>>

ExpireRun(r) == /\ run[r].status = "ACTIVE" /\ ~run[r].expired
                /\ run' = [run EXCEPT ![r].expired = TRUE]
                /\ UNCHANGED <<control, action, cycle>>

\* configureBootstrapArming, over a control that serves nothing and is not armed.
Arm(r, eligible) ==
  /\ control.serves # "CANARY" /\ control.fence = NoRun /\ r \in Active
  /\ IF run[r].expired \/ ~eligible
     THEN run' = Ended({r}, "ABORTED") /\ control' = DisarmOf(r)
     ELSE /\ control' = [serves |-> "CANARY", fence |-> r, reconfigured |-> FALSE, evaluated |-> FALSE]
          /\ UNCHANGED run
  /\ UNCHANGED <<action, cycle>>

\* configurePersistentResearch: any of the served modes, the fence left as it is.
Configure(serves) ==
  /\ control' = [control EXCEPT !.serves = serves, !.reconfigured = TRUE, !.evaluated = TRUE]
  /\ UNCHANGED <<run, action, cycle>>

AbortRun(r) == /\ r \in Active
               /\ run' = Ended({r}, "ABORTED") /\ control' = DisarmOf(r)
               /\ UNCHANGED <<action, cycle>>

DisarmControl == /\ control.fence # NoRun
                 /\ run' = Ended({control.fence}, "ABORTED") /\ control' = Disarmed
                 /\ UNCHANGED <<action, cycle>>

(***************************************************************************)
(* runPersistentResearchCycle                                              *)
(***************************************************************************)
Goto(k, at, r, completed) == cycle' = [cycle EXCEPT ![k] = [at |-> at, run |-> r, completed |-> completed]]

\* The cycle reads the control, before any lock: off means sweep every run.
StartCycle(k) == /\ cycle[k].at = "idle"
                 /\ Goto(k, IF control.serves = "off" THEN "sweep" ELSE "started", NoRun, FALSE)
                 /\ UNCHANGED <<control, run, action>>

AbortAllActive == run' = Ended(Active, "ABORTED") /\ control' = DisarmAny

\* A cycle that swept because its run had expired goes on without a run.
Sweep(k) == /\ cycle[k].at = "sweep" /\ AbortAllActive
            /\ Goto(k, IF cycle[k].run = NoRun THEN "idle" ELSE "allocated", NoRun, FALSE)
            /\ UNCHANGED action

\* allocateResearch: an ACTIVE run is chosen, an expired one sweeps; without a run the
\* canonical allocation needs a serving mode that an operator configured.
ChooseRun(k) ==
  /\ cycle[k].at = "started"
  /\ \/ \E r \in Active : Goto(k, IF run[r].expired THEN "sweep" ELSE "chosen", r, FALSE)
     \/ /\ Active = {} /\ (control.serves = "CANARY" => control.evaluated)
        /\ Goto(k, "allocated", NoRun, FALSE)
  /\ UNCHANGED <<control, run, action>>

\* The bounds applied to the batch alone.
Remaining_OfBatch(r, S) == Cardinality(S) <= MaxAssignments /\ CostOf(S) <= MaxProviderCost

\* What is left to the run: any further choice of proposed actions within its bounds.
Remaining(r, S) == /\ Cardinality(Assigned(r) \cup S) <= MaxAssignments
                   /\ CostOf(Assigned(r) \cup S) <= MaxProviderCost

MayAllocate(r) == control.fence = r /\ control.serves = "CANARY" /\ ~run[r].expired

\* allocateBootstrapAssignments; fit: an eligible policy and no spike of failed cycles.
\* A run that reaches its bound here keeps the fence until its batch is settled.
Allocate(k, S, fit) ==
  LET r == cycle[k].run IN
  /\ cycle[k].at = "chosen"
  /\ \/ /\ r \notin Active
        /\ UNCHANGED <<control, run, action>> /\ Goto(k, "allocated", r, TRUE)
     \/ /\ r \in Active /\ ~(MayAllocate(r) /\ fit)
        /\ run' = Ended({r}, "ABORTED") /\ control' = DisarmOf(r)
        /\ UNCHANGED action /\ Goto(k, "allocated", r, TRUE)
     \/ /\ r \in Active /\ MayAllocate(r) /\ fit /\ ~Exhausted(Assigned(r))
        /\ Remaining(r, S)
        /\ action' = [a \in Actions |-> IF a \in S THEN [lifecycle |-> "ALLOCATED", run |-> r] ELSE action[a]]
        /\ run' = IF Exhausted(Assigned(r) \cup S) THEN Ended({r}, "COMPLETED") ELSE run
        /\ UNCHANGED control /\ Goto(k, "allocated", r, Exhausted(Assigned(r) \cup S))

\* materializeCycleBatch: each row is queued while the fence is held for the cycle's run;
\* a cycle without a run takes whatever is ALLOCATED while the control serves.
MayQueue(k, a) ==
  IF cycle[k].run = NoRun THEN control.serves = "CANARY"
  ELSE control.fence = cycle[k].run /\ action[a].run = cycle[k].run

Materialize(k, a) ==
  /\ cycle[k].at = "allocated" /\ action[a].lifecycle = "ALLOCATED" /\ MayQueue(k, a)
  /\ action' = [action EXCEPT ![a].lifecycle = "QUEUED"]
  /\ UNCHANGED <<control, run, cycle>>

\* settleCeilingBootstrapTx: only a terminal run, and only under its own fence.
Settled(r) ==
  IF control.fence = r /\ r \notin Active
  THEN /\ action' = [a \in Actions |-> IF a \in Assigned(r) /\ action[a].lifecycle = "ALLOCATED"
                                       THEN [action[a] EXCEPT !.lifecycle = "EXPIRED"] ELSE action[a]]
       /\ control' = Disarmed
  ELSE UNCHANGED <<control, action>>

FinishCycle(k) ==
  /\ cycle[k].at = "allocated"
  /\ IF cycle[k].completed /\ cycle[k].run # NoRun THEN Settled(cycle[k].run) ELSE UNCHANGED <<control, action>>
  /\ Goto(k, "idle", NoRun, FALSE) /\ UNCHANGED run

\* An error settles the fence of a run that has ended, if there is one; a crash settles nothing.
FailCycle(k, crash) ==
  /\ cycle[k].at # "idle"
  /\ IF control.fence # NoRun /\ ~crash THEN Settled(control.fence) ELSE UNCHANGED <<control, action>>
  /\ Goto(k, "idle", NoRun, FALSE) /\ UNCHANGED run

Bootstrapping ==
  \/ \E r \in Runs : StartRun(r) \/ ExpireRun(r) \/ AbortRun(r) \/ \E b \in BOOLEAN : Arm(r, b)
  \/ DisarmControl
  \/ \E k \in Cycles :
       \/ StartCycle(k) \/ Sweep(k) \/ ChooseRun(k) \/ FinishCycle(k)
       \/ \E a \in Actions : Materialize(k, a)
       \/ \E b \in BOOLEAN :
            FailCycle(k, b) \/ \E S \in SUBSET {a \in Actions : action[a].lifecycle = "PROPOSED"} : Allocate(k, S, b)

BootstrapNext == Bootstrapping \/ \E serves \in {"off", "SHADOW", "CANARY"} : Configure(serves)
BootstrapSpec == BootstrapInit /\ [][BootstrapNext]_bootstrapVars

(***************************************************************************)
(* Properties                                                              *)
(***************************************************************************)
\* However cycles overlap, expire and fail, a run never assigns more actions, nor actions
\* of a higher cost, than it was started with.
RunWithinBounds == \A r \in Runs : /\ Cardinality(Assigned(r)) <= MaxAssignments
                                   /\ CostOf(Assigned(r)) <= MaxProviderCost

\* Research that serves without an evaluated policy serves under the fence of a run that
\* was not aborted: an abort never leaves the control serving behind it.
ServingHasAuthority ==
  control.serves = "CANARY" /\ ~control.evaluated
    => control.fence # NoRun /\ run[control.fence].status \in {"ACTIVE", "COMPLETED"}

\* What an operator configured is served until an operator changes it: no late sweep,
\* settlement or disarming of a run takes it away.
OperatorConfigKept ==
  [][Bootstrapping /\ control.evaluated /\ control.serves = "CANARY" => control'.serves = "CANARY"]_bootstrapVars
=============================================================================
