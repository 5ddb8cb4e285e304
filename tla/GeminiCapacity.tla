--------------------------- MODULE GeminiCapacity ---------------------------
(***************************************************************************)
(* Pacing of Gemini calls over all processes                               *)
(* (src/server/providerResilience.ts).  One session advisory lock of       *)
(* PostgreSQL is held from the reading of the ledger of provider events    *)
(* until the outcome of the call is in that ledger.                        *)
(*                                                                         *)
(* Windows and ages are counted in ticks; ages stop at Oldest, when every  *)
(* window is over.  A call cannot tell that its session, and so the lock,  *)
(* was lost (cut); kept marks an outcome that a call got under its lock    *)
(* and did not fail to record.                                             *)
(***************************************************************************)
EXTENDS Naturals

CONSTANTS GeminiCalls, NoCall,
          Operation,    \* call -> "semantic", "vocabulary" or "other"
          Route,        \* call -> the key it uses
          Account,      \* call -> the account its key belongs to
          GlobalMinInterval, SemanticCooldown, VocabularySuppression,
          VocabularyQuiet, VocabularyMinInterval, MaxInlineWait, Oldest

ASSUME GeminiAssumption ==
  /\ NoCall \notin GeminiCalls
  /\ MaxInlineWait \in Nat /\ Oldest \in Nat
  /\ {GlobalMinInterval, SemanticCooldown, VocabularySuppression, VocabularyQuiet, VocabularyMinInterval} \subseteq 0..Oldest

VARIABLES lock,     \* the call whose session holds GEMINI_CAPACITY_LOCK
          gemini,   \* call -> its progress in executeProviderCall
          outcome   \* call -> its provider event

geminiVars == <<lock, gemini, outcome>>

Progress == [at : {"idle", "asking", "reading", "waiting", "calling", "answered", "recorded", "emitting", "done"},
             wait : 0..MaxInlineWait, leased : BOOLEAN, cut : BOOLEAN]
Event == [status : {"none", "ok", "limited", "failed"}, stored : BOOLEAN, kept : BOOLEAN, age : 0..Oldest]

GeminiTypeOK ==
  /\ lock \in GeminiCalls \cup {NoCall}
  /\ gemini \in [GeminiCalls -> Progress]
  /\ outcome \in [GeminiCalls -> Event]

GeminiInit ==
  /\ lock = NoCall
  /\ gemini = [c \in GeminiCalls |-> [at |-> "idle", wait |-> 0, leased |-> FALSE, cut |-> FALSE]]
  /\ outcome = [c \in GeminiCalls |-> [status |-> "none", stored |-> FALSE, kept |-> FALSE, age |-> 0]]

Freed_AfterRecording(c) == lock' = IF gemini[c].at = "recorded" /\ lock = c THEN NoCall ELSE lock
Freed(c) == lock' = IF lock = c THEN NoCall ELSE lock

(***************************************************************************)
(* decideGeminiCapacity                                                    *)
(***************************************************************************)
OfRoute(c) == {d \in GeminiCalls : Route[d] = Route[c]}
OfOperation(c, op) == {d \in OfRoute(c) : Operation[d] = op}
Limited(c) == {d \in GeminiCalls : Account[d] = Account[c] /\ outcome[d].status = "limited"}

IsVocabulary(c) == Operation[c] = "vocabulary"

\* In w ticks the window after the last recorded event of these calls is over.
Over(window, calls, w) == \A d \in calls : outcome[d].stored => outcome[d].age + w >= window

\* What a call may wait for while it holds the lock.
Clear(c, w) ==
  /\ Over(GlobalMinInterval, OfRoute(c), w)
  /\ IF IsVocabulary(c) THEN Over(VocabularyMinInterval, OfOperation(c, "vocabulary"), w)
                        ELSE Over(SemanticCooldown, Limited(c), w)

\* What vocabulary work does not wait for.
Yields(c) ==
  IsVocabulary(c) /\ \/ ~Over(VocabularySuppression, Limited(c), 0)
                     \/ ~Over(VocabularyQuiet, OfOperation(c, "semantic"), 0)

IsWait(c, w) == Clear(c, w) /\ (w = 0 \/ ~Clear(c, w - 1))

(***************************************************************************)
(* acquireGeminiCapacity                                                   *)
(***************************************************************************)
Begin(c) == /\ gemini[c].at = "idle" /\ gemini' = [gemini EXCEPT ![c].at = "asking"]
            /\ UNCHANGED <<lock, outcome>>

\* A poll that does not get the lock changes nothing.
TryLock(c) == /\ gemini[c].at = "asking" /\ lock = NoCall
              /\ lock' = c /\ gemini' = [gemini EXCEPT ![c].at = "reading"]
              /\ UNCHANGED outcome

\* An error without a lease: its event is only emitted, after the lock was given up.
Refuse(c) == /\ gemini' = [gemini EXCEPT ![c].at = "emitting"]
             /\ outcome' = [outcome EXCEPT ![c].status = "failed"]

Defer(c) == /\ gemini[c].at = "reading" /\ ~gemini[c].cut
            /\ Yields(c) \/ ~Clear(c, MaxInlineWait)
            /\ Refuse(c) /\ Freed(c)

WaitUnderLock(c) == /\ gemini[c].at = "reading" /\ ~gemini[c].cut /\ ~Yields(c)
           /\ \E w \in 0..MaxInlineWait :
                IsWait(c, w) /\ gemini' = [gemini EXCEPT ![c] = [@ EXCEPT !.at = "waiting", !.wait = w]]
           /\ UNCHANGED <<lock, outcome>>

\* Without its state the pacing fails open, save for vocabulary.
LedgerUnavailable(c) ==
  /\ gemini[c].at \in {"asking", "reading"}
  /\ Freed(c)
  /\ IF IsVocabulary(c) THEN Refuse(c)
     ELSE gemini' = [gemini EXCEPT ![c].at = "calling"] /\ UNCHANGED outcome

\* The deadline or the caller ends it before it has its lease.
Abort(c) == /\ gemini[c].at \in {"asking", "reading", "waiting"}
            /\ Freed(c) /\ Refuse(c)

StartCall(c) == /\ gemini[c].at = "waiting" /\ gemini[c].wait = 0
                /\ gemini' = [gemini EXCEPT ![c] = [@ EXCEPT !.at = "calling", !.leased = TRUE]]
                /\ UNCHANGED <<lock, outcome>>

(***************************************************************************)
(* executeProviderCall                                                     *)
(***************************************************************************)
\* The provider answers, refuses, fails, or the call is aborted.
ProviderAnswers(c, status) ==
  /\ gemini[c].at = "calling"
  /\ gemini' = [gemini EXCEPT ![c].at = IF gemini[c].leased THEN "answered" ELSE "emitting"]
  /\ outcome' = [outcome EXCEPT ![c] = [status |-> status, stored |-> FALSE, age |-> 0,
                                        kept |-> gemini[c].leased /\ ~gemini[c].cut]]
  /\ UNCHANGED lock

MayRelease_AtOnce(at) == at \in {"answered", "recorded"}
MayRelease(at) == at = "recorded"

\* persistOutcome, in the session of the lock; a failure is logged and passed over.
Record(c) ==
  /\ gemini[c].at = "answered"
  /\ gemini' = [gemini EXCEPT ![c].at = "recorded"]
  /\ \/ ~gemini[c].cut /\ outcome' = [outcome EXCEPT ![c].stored = TRUE]
     \/ outcome' = [outcome EXCEPT ![c].kept = FALSE]
  /\ UNCHANGED lock

Release(c) == /\ MayRelease(gemini[c].at)
              /\ Freed(c) /\ gemini' = [gemini EXCEPT ![c].at = "emitting"]
              /\ UNCHANGED outcome

\* The event has the id of the recorded one: ON CONFLICT DO NOTHING.  A failure is passed over.
Emit(c) == /\ gemini[c].at = "emitting"
           /\ gemini' = [gemini EXCEPT ![c].at = "done"]
           /\ outcome' \in {outcome, [outcome EXCEPT ![c].stored = TRUE]}
           /\ UNCHANGED lock

(***************************************************************************)
(* Time and faults                                                         *)
(***************************************************************************)
Tick ==
  /\ gemini' = [c \in GeminiCalls |-> [gemini[c] EXCEPT !.wait = IF @ > 0 THEN @ - 1 ELSE 0]]
  /\ outcome' = [c \in GeminiCalls |->
       [outcome[c] EXCEPT !.age = IF outcome[c].status # "none" /\ @ < Oldest THEN @ + 1 ELSE @]]
  /\ UNCHANGED lock

\* The server loses the session and with it the lock; its owner notices at its next query.
CutSession(c) == /\ lock = c
                 /\ lock' = NoCall /\ gemini' = [gemini EXCEPT ![c].cut = TRUE]
                 /\ outcome' = [outcome EXCEPT ![c].kept = @ /\ outcome[c].stored]

Crash(c) == /\ gemini[c].at \notin {"idle", "done"}
            /\ Freed(c) /\ gemini' = [gemini EXCEPT ![c].at = "done"]
            /\ outcome' = [outcome EXCEPT ![c].kept = @ /\ outcome[c].stored]

Proceed(c) ==
  \/ TryLock(c) \/ Defer(c) \/ WaitUnderLock(c) \/ LedgerUnavailable(c) \/ StartCall(c) \/ Record(c) \/ Release(c) \/ Emit(c)
  \/ \E status \in {"ok", "limited", "failed"} : ProviderAnswers(c, status)

GeminiNext ==
  \/ \E c \in GeminiCalls : Begin(c) \/ Proceed(c) \/ Abort(c) \/ CutSession(c) \/ Crash(c)
  \/ Tick

GeminiFairness == WF_geminiVars(Tick) /\ \A c \in GeminiCalls : WF_geminiVars(Proceed(c))

GeminiSpec == GeminiInit /\ [][GeminiNext]_geminiVars /\ GeminiFairness

(***************************************************************************)
(* Properties                                                              *)
(***************************************************************************)
\* A call that has the lock starts only when every window that an earlier outcome opened is
\* over: the interval of its key, the cooldown of its account after a rate limit, and the
\* longer ones of vocabulary work.  That holds for outcomes of any process, as long as the
\* caller that got them neither crashed, lost its session nor failed to record them.
WindowsHeeded ==
  [][\A c, d \in GeminiCalls :
       /\ gemini[c].at = "waiting" /\ gemini'[c].at = "calling" /\ ~gemini[c].cut
       /\ c # d /\ outcome[d].kept
       => /\ Route[d] = Route[c] => outcome[d].age >= GlobalMinInterval
          /\ d \in Limited(c) =>
               outcome[d].age >= IF IsVocabulary(c) THEN VocabularySuppression ELSE SemanticCooldown
          /\ IsVocabulary(c) /\ d \in OfOperation(c, "semantic") => outcome[d].age >= VocabularyQuiet
          /\ IsVocabulary(c) /\ d \in OfOperation(c, "vocabulary") => outcome[d].age >= VocabularyMinInterval
    ]_geminiVars

\* Whoever takes the lock gives it back, deferred, aborted, failed or killed: the other
\* processes do not poll for ever.
CapacityFreed == lock # NoCall ~> lock = NoCall
=============================================================================
