------------------------------ MODULE MCQueues ------------------------------
(***************************************************************************)
(* The two durable queues of the database: jobs, whose attempts are told   *)
(* apart, and observations, whose results are.  They share no variable and *)
(* are explored one at a time: queue names the one that moves.             *)
(***************************************************************************)
EXTENDS MCJobQueue, ObservationOutbox

CONSTANTS classifier, reviewer, diagnostic, label

VARIABLE queue

SubjectOf == classifier :> diagnostic @@ reviewer :> label

QueuesInit == queue \in {"jobs", "observations"} /\ Init /\ OutboxInit

QueuesNext ==
  /\ UNCHANGED queue
  /\ \/ queue = "jobs" /\ Next /\ UNCHANGED outboxVars
     \/ queue = "observations" /\ OutboxNext /\ UNCHANGED vars

\* The fairness of ObservationOutbox, while it is the one that moves.
QueuesFairness ==
  /\ \A p \in Processors : WF_outboxVars(queue = "observations" /\ ProcessorStep(p))
  /\ \A o \in Observations : WF_outboxVars(queue = "observations" /\ TimePasses(o))

QueuesSpec == QueuesInit /\ [][QueuesNext]_<<queue, vars, outboxVars>> /\ QueuesFairness

QueuesTypeOK == TypeOK /\ OutboxTypeOK
=============================================================================
