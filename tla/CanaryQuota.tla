---------------------------- MODULE CanaryQuota ----------------------------
(***************************************************************************)
(* claimRelationshipCanaryQuota (src/server/relationshipCanary.ts): the    *)
(* transaction that checks a claim against the canary's share of the daily *)
(* budget and inserts it.  Its statements are sent through the db the      *)
(* worker passes, which getDb (src/server/dbCore.ts) returns as a pool: a  *)
(* statement runs on the idle connection that was released last, whichever *)
(* claim used it before.                                                   *)
(***************************************************************************)
EXTENDS Naturals, Sequences, SequencesExt, FiniteSetsExt

CONSTANTS Claims, Connections, NoConnection,
          Units,      \* claim -> the units it asks for
          Allowance   \* the canary's share of the daily budget

VARIABLES at,        \* claim -> the statement it sends next, or its outcome
          running,   \* claim -> the connection that executes its statement
          idle,      \* the pool's idle connections, the last released at the end
          open,      \* connections inside a transaction block
          unsaved,   \* connection -> the rows its transaction has inserted
          lock,      \* the connection whose transaction holds the advisory lock
          saved      \* the claims with a committed row

canaryVars == <<at, running, idle, open, unsaved, lock, saved>>

CanaryInit ==
  /\ at = [c \in Claims |-> "begin"] /\ running = [c \in Claims |-> NoConnection]
  /\ idle \in SetToSeqs(Connections)
  /\ open = {} /\ unsaved = [k \in Connections |-> {}] /\ lock = NoConnection /\ saved = {}

UnitsOf(S) == MapThenSumSet(LAMBDA c : Units[c], S)

\* pool.query: check out a connection, execute, release it.
Send(c) ==
  /\ at[c] \notin {"allowed", "refused"} /\ running[c] = NoConnection /\ idle # <<>>
  /\ running' = [running EXCEPT ![c] = Last(idle)] /\ idle' = Front(idle)
  /\ UNCHANGED <<at, open, unsaved, lock, saved>>

Executed(c, statement, then) ==
  /\ at[c] = statement /\ running[c] # NoConnection
  /\ at' = [at EXCEPT ![c] = then]
  /\ running' = [running EXCEPT ![c] = NoConnection]
  /\ idle' = Append(idle, running[c])

Begin(c) == /\ Executed(c, "begin", "lock")
            /\ open' = open \cup {running[c]}
            /\ UNCHANGED <<unsaved, lock, saved>>

\* pg_advisory_xact_lock: re-entrant in a session, and held until the end of the
\* transaction block, or of the statement where there is none.
Lock(c) == /\ lock \in {NoConnection, running[c]}
           /\ Executed(c, "lock", "sum")
           /\ lock' = IF running[c] \in open THEN running[c] ELSE lock
           /\ UNCHANGED <<open, unsaved, saved>>

\* The sum of committed rows and of the connection's own decides.  Every claim is of a
\* new operation, so the row of its own that is read next contributes nothing.
Sum(c) == LET used == UnitsOf(saved \cup unsaved[running[c]]) IN
          /\ Executed(c, "sum", IF used + Units[c] > Allowance THEN "rollback" ELSE "insert")
          /\ UNCHANGED <<open, unsaved, lock, saved>>

Insert(c) == /\ Executed(c, "insert", "commit")
             /\ IF running[c] \in open
                THEN unsaved' = [unsaved EXCEPT ![running[c]] = @ \cup {c}] /\ UNCHANGED saved
                ELSE saved' = saved \cup {c} /\ UNCHANGED unsaved
             /\ UNCHANGED <<open, lock>>

End(c) == \/ /\ Executed(c, "commit", "allowed") /\ saved' = saved \cup unsaved[running[c]]
          \/ /\ Executed(c, "rollback", "refused") /\ UNCHANGED saved

EndTransaction(c) ==
  /\ End(c)
  /\ open' = open \ {running[c]} /\ unsaved' = [unsaved EXCEPT ![running[c]] = {}]
  /\ lock' = IF lock = running[c] THEN NoConnection ELSE lock

CanaryNext == \E c \in Claims : \/ Send(c) \/ Begin(c) \/ Lock(c) \/ Sum(c) \/ Insert(c) \/ EndTransaction(c)
CanarySpec == CanaryInit /\ [][CanaryNext]_canaryVars

(***************************************************************************)
(* Properties                                                              *)
(***************************************************************************)
\* "Concurrent workers serialize on the lock, so two cohorts can never both spend the
\* same remaining allowance" (src/server/relationshipCanary.ts:532-533).
AllowanceSpentOnce == UnitsOf({c \in Claims : at[c] = "allowed"}) <= Allowance
=============================================================================
