------------------------------ MODULE JobLease ------------------------------
(***************************************************************************)
(* What the durable queue promises to those who submit and handle jobs,     *)
(* without tables, attempts or heartbeats: a job waits, is held by one      *)
(* worker, is settled or waits again by the decision of that worker only,   *)
(* and is given back to the queue only after its holder died.               *)
(***************************************************************************)
CONSTANTS Job, Worker

VARIABLES
    phase,  \* absent, waiting, held, lost or settled
    holders \* the workers that execute the job

vars == <<phase, holders>>

Init ==
    /\ phase = [j \in Job |-> "absent"]
    /\ holders = [j \in Job |-> {}]

(* A submission opens a job, or opens it again once it is settled.          *)
Submit(j) ==
    /\ phase[j] \in {"absent", "settled"}
    /\ phase' = [phase EXCEPT ![j] = "waiting"]
    /\ UNCHANGED holders

(* A worker takes one job at a time.                                        *)
Take(w, j) ==
    /\ phase[j] = "waiting"
    /\ \A k \in Job : w \notin holders[k]
    /\ phase' = [phase EXCEPT ![j] = "held"]
    /\ holders' = [holders EXCEPT ![j] = {w}]

(* The holder is done with the job, for good or until a retry.              *)
Release(w, j) ==
    /\ phase[j] = "held"
    /\ holders[j] = {w}
    /\ \E p \in {"waiting", "settled"} : phase' = [phase EXCEPT ![j] = p]
    /\ holders' = [holders EXCEPT ![j] = {}]

(* The holder dies.                                                         *)
Abandon(w, j) ==
    /\ phase[j] = "held"
    /\ holders[j] = {w}
    /\ phase' = [phase EXCEPT ![j] = "lost"]
    /\ holders' = [holders EXCEPT ![j] = {}]

(* Jobs whose holder died wait again.                                       *)
Reclaim(S) ==
    /\ \A j \in S : phase[j] = "lost"
    /\ phase' = [j \in Job |-> IF j \in S THEN "waiting" ELSE phase[j]]
    /\ UNCHANGED holders

Next ==
    \/ \E j \in Job :
          \/ Submit(j)
          \/ \E w \in Worker : Take(w, j) \/ Release(w, j) \/ Abandon(w, j)
    \/ \E S \in SUBSET Job : Reclaim(S)

Spec == Init /\ [][Next]_vars
=============================================================================
