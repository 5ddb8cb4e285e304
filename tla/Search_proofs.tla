--------------------------- MODULE Search_proofs ---------------------------
(***************************************************************************)
(* Theorems about GeminiCapacity, for any calls, keys, accounts and        *)
(* windows, and about the instance that joins it with the scheduler and    *)
(* the query runs.                                                         *)
(***************************************************************************)
EXTENDS MCSearch, YouTubeRequestScheduler_proofs, QueryRun_proofs, TLAPS

(***************************************************************************)
(* The pacing of Gemini calls                                              *)
(***************************************************************************)
LEMMA Constants ==
  /\ NoCall \notin GeminiCalls /\ MaxInlineWait \in Nat /\ Oldest \in Nat
  /\ GlobalMinInterval \in 0..Oldest /\ SemanticCooldown \in 0..Oldest /\ VocabularySuppression \in 0..Oldest
  /\ VocabularyQuiet \in 0..Oldest /\ VocabularyMinInterval \in 0..Oldest
BY GeminiAssumption

LEMMA GeminiTypeNext == GeminiTypeOK /\ [GeminiNext]_geminiVars => GeminiTypeOK'
<1>. SUFFICES ASSUME GeminiTypeOK, [GeminiNext]_geminiVars PROVE GeminiTypeOK' OBVIOUS
<1>1. ASSUME NEW c \in GeminiCalls, Begin(c) \/ Proceed(c) \/ Abort(c) \/ CutSession(c) \/ Crash(c)
      PROVE  lock' \in GeminiCalls \cup {NoCall}
  BY <1>1 DEF GeminiTypeOK, Freed, Begin, Proceed, TryLock, Defer, Refuse, WaitUnderLock, LedgerUnavailable, Abort, StartCall,
              ProviderAnswers, Record, Release, Emit, CutSession, Crash
<1>2. ASSUME NEW c \in GeminiCalls, Begin(c) \/ Proceed(c) \/ Abort(c) \/ CutSession(c) \/ Crash(c)
      PROVE  gemini' \in [GeminiCalls -> Progress]
  <2>1. gemini \in [GeminiCalls -> Progress] BY DEF GeminiTypeOK
  <2>2. CASE WaitUnderLock(c) BY <2>1, <2>2 DEF WaitUnderLock, Progress
  <2>3. CASE StartCall(c) BY <2>1, <2>3 DEF StartCall, Progress
  <2>4. CASE CutSession(c) BY <2>1, <2>4 DEF CutSession, Progress
  <2>5. CASE \E answer \in {"ok", "limited", "failed"} : ProviderAnswers(c, answer) BY <2>1, <2>5 DEF ProviderAnswers, Progress
  <2>6. CASE LedgerUnavailable(c) BY <2>1, <2>6 DEF LedgerUnavailable, Refuse, Progress
  <2>7. CASE Begin(c) \/ TryLock(c) \/ Defer(c) \/ Abort(c) \/ Record(c) \/ Release(c) \/ Emit(c) \/ Crash(c)
    <3>1. \E at \in {"asking", "reading", "recorded", "emitting", "done"} : gemini' = [gemini EXCEPT ![c].at = at]
      BY <2>7 DEF Begin, TryLock, Defer, Refuse, Abort, Record, Release, Emit, Crash
    <3>. QED BY <2>1, <3>1 DEF Progress
  <2>. QED BY <1>2, <2>2, <2>3, <2>4, <2>5, <2>6, <2>7 DEF Proceed
<1>3. ASSUME NEW c \in GeminiCalls, Begin(c) \/ Proceed(c) \/ Abort(c) \/ CutSession(c) \/ Crash(c)
      PROVE  outcome' \in [GeminiCalls -> Event]
  <2>1. outcome \in [GeminiCalls -> Event] BY DEF GeminiTypeOK
  <2>2. gemini[c].leased \in BOOLEAN /\ gemini[c].cut \in BOOLEAN BY DEF GeminiTypeOK, Progress
  <2>3. CASE Defer(c) \/ LedgerUnavailable(c) \/ Abort(c)
    <3>1. outcome' = outcome \/ outcome' = [outcome EXCEPT ![c].status = "failed"]
      BY <2>3 DEF Defer, LedgerUnavailable, Abort, Refuse
    <3>. QED BY <2>1, <3>1 DEF Event
  <2>4. CASE \E answer \in {"ok", "limited", "failed"} : ProviderAnswers(c, answer)
    <3>1. PICK answer \in {"ok", "limited", "failed"} : ProviderAnswers(c, answer) BY <2>4
    <3>. DEFINE e == [status |-> answer, stored |-> FALSE, age |-> 0, kept |-> gemini[c].leased /\ ~gemini[c].cut]
    <3>2. e \in Event BY <2>2, Constants DEF Event
    <3>3. outcome' = [outcome EXCEPT ![c] = e] BY <3>1 DEF ProviderAnswers
    <3>. QED BY <2>1, <3>2, <3>3
  <2>5. CASE Record(c) \/ Emit(c) \/ CutSession(c) \/ Crash(c)
    <3>1. \/ outcome' = outcome \/ outcome' = [outcome EXCEPT ![c].stored = TRUE]
          \/ \E b \in BOOLEAN : outcome' = [outcome EXCEPT ![c].kept = b]
      BY <2>1, <2>5 DEF Record, Emit, CutSession, Crash, Event
    <3>. QED BY <2>1, <3>1 DEF Event
  <2>6. CASE Begin(c) \/ TryLock(c) \/ WaitUnderLock(c) \/ StartCall(c) \/ Release(c)
    BY <2>1, <2>6 DEF Begin, TryLock, WaitUnderLock, StartCall, Release
  <2>. QED BY <1>3, <2>3, <2>4, <2>5, <2>6 DEF Proceed
<1>4. CASE Tick
  <2>1. ASSUME NEW c \in GeminiCalls
        PROVE  /\ [gemini[c] EXCEPT !.wait = IF @ > 0 THEN @ - 1 ELSE 0] \in Progress
               /\ [outcome[c] EXCEPT !.age = IF outcome[c].status # "none" /\ @ < Oldest THEN @ + 1 ELSE @] \in Event
    <3>1. gemini[c] \in Progress /\ outcome[c] \in Event BY DEF GeminiTypeOK
    <3>2. \E w \in 0..MaxInlineWait : [gemini[c] EXCEPT !.wait = IF @ > 0 THEN @ - 1 ELSE 0] = [gemini[c] EXCEPT !.wait = w]
      <4>1. gemini[c].wait \in 0..MaxInlineWait BY <3>1 DEF Progress
      <4>. DEFINE w == IF gemini[c].wait > 0 THEN gemini[c].wait - 1 ELSE 0
      <4>2. w \in 0..MaxInlineWait BY <4>1, Constants
      <4>3. [gemini[c] EXCEPT !.wait = IF @ > 0 THEN @ - 1 ELSE 0] = [gemini[c] EXCEPT !.wait = w] OBVIOUS
      <4>. HIDE DEF w
      <4>. QED BY <4>2, <4>3
    <3>3. \E a \in 0..Oldest : [outcome[c] EXCEPT !.age = IF outcome[c].status # "none" /\ @ < Oldest THEN @ + 1 ELSE @]
                                = [outcome[c] EXCEPT !.age = a]
      BY <3>1, Constants DEF Event
    <3>. QED BY <3>1, <3>2, <3>3 DEF Progress, Event
  <2>. QED BY <1>4, <2>1 DEF Tick, GeminiTypeOK
<1>5. CASE UNCHANGED geminiVars BY <1>5 DEF geminiVars, GeminiTypeOK
<1>. QED BY <1>1, <1>2, <1>3, <1>4, <1>5 DEF GeminiNext, GeminiTypeOK

LEMMA GeminiTypeInit == GeminiInit => GeminiTypeOK
BY Constants DEF GeminiInit, GeminiTypeOK, Progress, Event

\* Every reachable state of the pacing is well typed.
THEOREM GeminiTypeCorrect == GeminiSpec => []GeminiTypeOK
BY GeminiTypeInit, GeminiTypeNext, PTL DEF GeminiSpec

(***************************************************************************)
(* The lock covers a call from its reading of the ledger to the recording  *)
(* of its outcome, so what is kept is in the ledger whenever another call  *)
(* reads it; and no outcome is kept while a call waits.                    *)
(***************************************************************************)
Holding(c) == \/ gemini[c].at \in {"reading", "waiting", "answered", "recorded"}
              \/ gemini[c].at = "calling" /\ gemini[c].leased
LockInv == \A c \in GeminiCalls :
             /\ Holding(c) /\ ~gemini[c].cut => lock = c
             /\ gemini[c].leased => gemini[c].at \notin {"idle", "asking", "reading", "waiting"}
KeptInv == \A d \in GeminiCalls :
             outcome[d].kept => /\ outcome[d].status # "none"
                                /\ outcome[d].stored \/ (lock = d /\ gemini[d].at = "answered")

\* In w ticks call c is past the windows that the outcome of d opened.
Heeded(c, d, w) ==
  /\ Route[d] = Route[c] => outcome[d].age + w >= GlobalMinInterval
  /\ d \in Limited(c) => IF IsVocabulary(c) THEN outcome[d].age >= VocabularySuppression
                                            ELSE outcome[d].age + w >= SemanticCooldown
  /\ IsVocabulary(c) /\ d \in OfOperation(c, "semantic") => outcome[d].age >= VocabularyQuiet
  /\ IsVocabulary(c) /\ d \in OfOperation(c, "vocabulary") => outcome[d].age + w >= VocabularyMinInterval
WaitInv == \A c, d \in GeminiCalls :
             gemini[c].at = "waiting" /\ ~gemini[c].cut /\ c # d /\ outcome[d].kept => Heeded(c, d, gemini[c].wait)

GeminiInv == LockInv /\ KeptInv /\ WaitInv

LEMMA InvInit == GeminiInit => GeminiInv
BY DEF GeminiInit, GeminiInv, LockInv, KeptInv, WaitInv, Holding

\* What a tick does to one call and its outcome.
LEMMA TickSteps ==
  ASSUME GeminiTypeOK, Tick, NEW c \in GeminiCalls
  PROVE  /\ gemini'[c].at = gemini[c].at /\ gemini'[c].leased = gemini[c].leased /\ gemini'[c].cut = gemini[c].cut
         /\ gemini'[c].wait = IF gemini[c].wait > 0 THEN gemini[c].wait - 1 ELSE 0
         /\ outcome'[c].status = outcome[c].status /\ outcome'[c].kept = outcome[c].kept
         /\ outcome'[c].stored = outcome[c].stored
         /\ outcome'[c].age = IF outcome[c].status # "none" /\ outcome[c].age < Oldest
                              THEN outcome[c].age + 1 ELSE outcome[c].age
<1>1. gemini[c] \in Progress /\ outcome[c] \in Event BY DEF GeminiTypeOK
<1>2. gemini'[c] = [gemini[c] EXCEPT !.wait = IF @ > 0 THEN @ - 1 ELSE 0] BY DEF Tick
<1>3. outcome'[c] = [outcome[c] EXCEPT !.age = IF outcome[c].status # "none" /\ @ < Oldest THEN @ + 1 ELSE @]
  BY DEF Tick
<1>4. gemini'[c].at = gemini[c].at /\ gemini'[c].leased = gemini[c].leased /\ gemini'[c].cut = gemini[c].cut
      /\ gemini'[c].wait = IF gemini[c].wait > 0 THEN gemini[c].wait - 1 ELSE 0
  BY <1>1, <1>2 DEF Progress
<1>5. outcome'[c].status = outcome[c].status /\ outcome'[c].kept = outcome[c].kept
      /\ outcome'[c].stored = outcome[c].stored
  BY <1>1, <1>3 DEF Event
<1>6. outcome'[c].age = IF outcome[c].status # "none" /\ outcome[c].age < Oldest
                       THEN outcome[c].age + 1 ELSE outcome[c].age
  BY <1>1, <1>3 DEF Event
<1>. QED BY <1>4, <1>5, <1>6

\* What recording does to the call and its outcome.
LEMMA RecordSteps ==
  ASSUME GeminiTypeOK, NEW c \in GeminiCalls, Record(c), NEW d \in GeminiCalls
  PROVE  /\ outcome'[d].status = outcome[d].status /\ outcome'[d].age = outcome[d].age
         /\ outcome'[d].kept => outcome[d].kept
         /\ outcome[d].stored => outcome'[d].stored
         /\ outcome'[c].kept => outcome'[c].stored
         /\ d # c => gemini'[d] = gemini[d] /\ outcome'[d] = outcome[d]
         /\ gemini'[c].at = "recorded" /\ lock' = lock
<1>1. CASE outcome' = [outcome EXCEPT ![c].stored = TRUE] BY <1>1 DEF Record, GeminiTypeOK, Progress, Event
<1>2. CASE outcome' = [outcome EXCEPT ![c].kept = FALSE] BY <1>2 DEF Record, GeminiTypeOK, Progress, Event
<1>. QED BY <1>1, <1>2 DEF Record

LEMMA LockNext == GeminiTypeOK /\ LockInv /\ [GeminiNext]_geminiVars => LockInv'
<1>. SUFFICES ASSUME GeminiTypeOK, LockInv, [GeminiNext]_geminiVars PROVE LockInv' OBVIOUS
<1>. USE DEF GeminiTypeOK, Progress, LockInv, Holding, Freed
<1>1. ASSUME NEW c \in GeminiCalls, TryLock(c) PROVE LockInv' BY <1>1, Constants DEF TryLock
<1>2. ASSUME NEW c \in GeminiCalls, Defer(c) PROVE LockInv' BY <1>2 DEF Defer, Refuse
<1>3. ASSUME NEW c \in GeminiCalls, WaitUnderLock(c) PROVE LockInv' BY <1>3 DEF WaitUnderLock
<1>4. ASSUME NEW c \in GeminiCalls, LedgerUnavailable(c) PROVE LockInv'
  <2>1. \E at \in {"emitting", "calling"} : gemini' = [gemini EXCEPT ![c].at = at]
    BY <1>4 DEF LedgerUnavailable, Refuse
  <2>2. ~gemini[c].leased BY <1>4 DEF LedgerUnavailable
  <2>3. gemini'[c].leased = gemini[c].leased /\ gemini'[c].at \in {"emitting", "calling"} BY <2>1
  <2>4. \A b \in GeminiCalls : b # c => gemini'[b] = gemini[b] /\ (lock = b => lock' = b)
    BY <1>4, <2>1 DEF LedgerUnavailable
  <2>. QED BY <2>2, <2>3, <2>4
<1>5. ASSUME NEW c \in GeminiCalls, Abort(c) PROVE LockInv' BY <1>5 DEF Abort, Refuse
<1>6. ASSUME NEW c \in GeminiCalls, StartCall(c) PROVE LockInv' BY <1>6 DEF StartCall
<1>7. ASSUME NEW c \in GeminiCalls, NEW answer \in {"ok", "limited", "failed"}, ProviderAnswers(c, answer)
      PROVE  LockInv'
  BY <1>7 DEF ProviderAnswers
<1>8. ASSUME NEW c \in GeminiCalls, Record(c) PROVE LockInv' BY <1>8 DEF Record
<1>9. ASSUME NEW c \in GeminiCalls, Release(c) PROVE LockInv' BY <1>9 DEF Release
<1>10. ASSUME NEW c \in GeminiCalls, Emit(c) PROVE LockInv' BY <1>10 DEF Emit
<1>11. CASE Tick
  <2>1. lock' = lock BY <1>11 DEF Tick
  <2>2. \A c \in GeminiCalls : gemini'[c].at = gemini[c].at /\ gemini'[c].leased = gemini[c].leased
                             /\ gemini'[c].cut = gemini[c].cut
    BY <1>11, TickSteps
  <2>. QED BY <2>1, <2>2
<1>12. ASSUME NEW c \in GeminiCalls, CutSession(c) PROVE LockInv' BY <1>12 DEF CutSession
<1>13. ASSUME NEW c \in GeminiCalls, Crash(c) PROVE LockInv' BY <1>13 DEF Crash
<1>14. CASE UNCHANGED geminiVars BY <1>14 DEF geminiVars
<1>15. ASSUME NEW c \in GeminiCalls, Begin(c) PROVE LockInv' BY <1>15 DEF Begin
<1>. QED BY <1>1, <1>2, <1>3, <1>4, <1>5, <1>6, <1>7, <1>8, <1>9, <1>10, <1>11, <1>12, <1>13, <1>14, <1>15
         DEF GeminiNext, Proceed

LEMMA KeptNext == GeminiTypeOK /\ LockInv /\ KeptInv /\ [GeminiNext]_geminiVars => KeptInv'
<1>. SUFFICES ASSUME GeminiTypeOK, LockInv, KeptInv, [GeminiNext]_geminiVars PROVE KeptInv' OBVIOUS
<1>. USE DEF GeminiTypeOK, Progress, Event, KeptInv, Freed
<1>1. ASSUME NEW c \in GeminiCalls, TryLock(c) PROVE KeptInv' BY <1>1, Constants DEF TryLock
<1>2. ASSUME NEW c \in GeminiCalls, Defer(c) PROVE KeptInv' BY <1>2 DEF Defer, Refuse
<1>3. ASSUME NEW c \in GeminiCalls, WaitUnderLock(c) PROVE KeptInv' BY <1>3 DEF WaitUnderLock
<1>4. ASSUME NEW c \in GeminiCalls, LedgerUnavailable(c) PROVE KeptInv'
  <2>1. outcome' = outcome \/ outcome' = [outcome EXCEPT ![c].status = "failed"]
    BY <1>4 DEF LedgerUnavailable, Refuse
  <2>2. outcome[c].kept => outcome[c].stored BY <1>4 DEF LedgerUnavailable
  <2>3. \A b \in GeminiCalls : b # c => gemini'[b] = gemini[b] /\ (lock = b => lock' = b)
    BY <1>4 DEF LedgerUnavailable, Refuse
  <2>. QED BY <2>1, <2>2, <2>3
<1>5. ASSUME NEW c \in GeminiCalls, Abort(c) PROVE KeptInv' BY <1>5 DEF Abort, Refuse
<1>6. ASSUME NEW c \in GeminiCalls, StartCall(c) PROVE KeptInv' BY <1>6 DEF StartCall
<1>7. ASSUME NEW c \in GeminiCalls, NEW answer \in {"ok", "limited", "failed"}, ProviderAnswers(c, answer)
      PROVE  KeptInv'
  <2>1. gemini[c].leased /\ ~gemini[c].cut => lock' = c /\ gemini'[c].at = "answered"
    BY <1>7 DEF ProviderAnswers, LockInv, Holding
  <2>. QED BY <1>7, <2>1 DEF ProviderAnswers
<1>8. ASSUME NEW c \in GeminiCalls, Record(c) PROVE KeptInv' BY <1>8, RecordSteps
<1>9. ASSUME NEW c \in GeminiCalls, Release(c) PROVE KeptInv' BY <1>9 DEF Release, MayRelease
<1>10. ASSUME NEW c \in GeminiCalls, Emit(c) PROVE KeptInv' BY <1>10 DEF Emit
<1>11. CASE Tick
  <2>1. lock' = lock BY <1>11 DEF Tick
  <2>2. \A c \in GeminiCalls : /\ gemini'[c].at = gemini[c].at /\ outcome'[c].status = outcome[c].status
                             /\ outcome'[c].kept = outcome[c].kept /\ outcome'[c].stored = outcome[c].stored
    BY <1>11, TickSteps
  <2>. QED BY <2>1, <2>2
<1>12. ASSUME NEW c \in GeminiCalls, CutSession(c) PROVE KeptInv' BY <1>12 DEF CutSession
<1>13. ASSUME NEW c \in GeminiCalls, Crash(c) PROVE KeptInv' BY <1>13 DEF Crash
<1>14. CASE UNCHANGED geminiVars BY <1>14 DEF geminiVars
<1>15. ASSUME NEW c \in GeminiCalls, Begin(c) PROVE KeptInv' BY <1>15 DEF Begin
<1>. QED BY <1>1, <1>2, <1>3, <1>4, <1>5, <1>6, <1>7, <1>8, <1>9, <1>10, <1>11, <1>12, <1>13, <1>14, <1>15
         DEF GeminiNext, Proceed

\* A call that is given w ticks to wait is then past every window it has to heed.
LEMMA PaceHeeds ==
  ASSUME GeminiTypeOK, NEW c \in GeminiCalls, NEW d \in GeminiCalls, NEW w \in 0..MaxInlineWait,
         outcome[d].stored, ~Yields(c), Clear(c, w)
  PROVE  Heeded(c, d, w)
BY Constants DEF GeminiTypeOK, Progress, Event, Yields, Clear, Over, Heeded, OfRoute, OfOperation, Limited

LEMMA WaitNext == GeminiTypeOK /\ GeminiInv /\ [GeminiNext]_geminiVars => WaitInv'
<1>. SUFFICES ASSUME GeminiTypeOK, GeminiInv, [GeminiNext]_geminiVars,
                     NEW a \in GeminiCalls, NEW d \in GeminiCalls,
                     (gemini[a].at = "waiting")', ~(gemini[a].cut)', a # d, (outcome[d].kept)'
              PROVE  Heeded(a, d, gemini[a].wait)'
  BY DEF WaitInv
<1>. USE DEF GeminiTypeOK, Progress, Event, Freed
<1>1. LockInv /\ KeptInv BY DEF GeminiInv
<1>2. gemini[a].at = "waiting" /\ ~gemini[a].cut /\ outcome[d].kept => Heeded(a, d, gemini[a].wait)
  BY DEF GeminiInv, WaitInv
\* A step that leaves a and the outcome of d alone, but for making it less of a limit.
<1>3. ASSUME gemini'[a] = gemini[a], outcome'[d].kept => outcome[d].kept, outcome'[d].age = outcome[d].age,
             outcome'[d].status = "limited" => outcome[d].status = "limited"
      PROVE  Heeded(a, d, gemini[a].wait)'
  BY <1>2, <1>3 DEF Heeded, Limited, OfOperation, OfRoute, IsVocabulary
<1>4. ASSUME NEW c \in GeminiCalls, TryLock(c) PROVE Heeded(a, d, gemini[a].wait)' BY <1>3, <1>4 DEF TryLock
<1>5. ASSUME NEW c \in GeminiCalls, Defer(c) PROVE Heeded(a, d, gemini[a].wait)' BY <1>3, <1>5 DEF Defer, Refuse
<1>6. ASSUME NEW c \in GeminiCalls, WaitUnderLock(c) PROVE Heeded(a, d, gemini[a].wait)'
  <2>1. CASE c = a
    <3>1. PICK w \in 0..MaxInlineWait : IsWait(c, w) /\ gemini' = [gemini EXCEPT ![c].at = "waiting", ![c].wait = w]
      BY <1>6 DEF WaitUnderLock
    <3>2. lock = a BY <1>1, <1>6, <2>1 DEF LockInv, Holding, WaitUnderLock
    <3>3. outcome[d].stored BY <1>1, <1>6, <3>2 DEF KeptInv, WaitUnderLock
    <3>4. Heeded(a, d, w) BY <1>6, <2>1, <3>1, <3>3, PaceHeeds DEF WaitUnderLock, IsWait
    <3>5. gemini[a] \in Progress /\ gemini'[a] = [gemini[a] EXCEPT !.at = "waiting", !.wait = w]
      BY <2>1, <3>1
    <3>6. gemini'[a].wait = w /\ outcome' = outcome BY <1>6, <3>5 DEF WaitUnderLock
    <3>. QED BY <3>4, <3>6 DEF Heeded, Limited, OfOperation, OfRoute, IsVocabulary
  <2>2. CASE c # a BY <1>3, <1>6, <2>2 DEF WaitUnderLock
  <2>. QED BY <2>1, <2>2
<1>7. ASSUME NEW c \in GeminiCalls, LedgerUnavailable(c) PROVE Heeded(a, d, gemini[a].wait)'
  BY <1>3, <1>7 DEF LedgerUnavailable, Refuse
<1>8. ASSUME NEW c \in GeminiCalls, Abort(c) PROVE Heeded(a, d, gemini[a].wait)' BY <1>3, <1>8 DEF Abort, Refuse
<1>9. ASSUME NEW c \in GeminiCalls, StartCall(c) PROVE Heeded(a, d, gemini[a].wait)' BY <1>3, <1>9 DEF StartCall
<1>10. ASSUME NEW c \in GeminiCalls, NEW answer \in {"ok", "limited", "failed"}, ProviderAnswers(c, answer)
       PROVE  Heeded(a, d, gemini[a].wait)'
  <2>1. c # a BY <1>10 DEF ProviderAnswers
  <2>2. gemini'[a] = gemini[a] /\ lock = a BY <1>1, <1>10, <2>1 DEF ProviderAnswers, LockInv, Holding
  <2>3. c # d
    <3>. SUFFICES ASSUME c = d PROVE FALSE OBVIOUS
    <3>1. gemini[d].leased /\ ~gemini[d].cut /\ gemini[d].at = "calling" BY <1>10 DEF ProviderAnswers
    <3>. QED BY <1>1, <2>2, <3>1 DEF LockInv, Holding
  <2>. QED BY <1>3, <1>10, <2>2, <2>3 DEF ProviderAnswers
<1>11. ASSUME NEW c \in GeminiCalls, Record(c) PROVE Heeded(a, d, gemini[a].wait)'
  <2>1. c # a BY <1>11, RecordSteps
  <2>. QED BY <1>3, <1>11, <2>1, RecordSteps
<1>12. ASSUME NEW c \in GeminiCalls, Release(c) PROVE Heeded(a, d, gemini[a].wait)' BY <1>3, <1>12 DEF Release
<1>13. ASSUME NEW c \in GeminiCalls, Emit(c) PROVE Heeded(a, d, gemini[a].wait)' BY <1>3, <1>13 DEF Emit
<1>14. CASE Tick
  <2>1. gemini[a].at = "waiting" /\ ~gemini[a].cut /\ outcome[d].kept /\ outcome'[d].status = outcome[d].status
    BY <1>14, TickSteps
  <2>2. Heeded(a, d, gemini[a].wait) BY <1>2, <2>1
  <2>3. outcome[d].status # "none" BY <1>1, <2>1 DEF KeptInv
  <2>4. outcome'[d].age + gemini'[a].wait >= outcome[d].age + gemini[a].wait
        \/ outcome'[d].age = Oldest
    <3>1. outcome[d].age \in 0..Oldest /\ gemini[a].wait \in Nat BY Constants
    <3>2. gemini'[a].wait = IF gemini[a].wait > 0 THEN gemini[a].wait - 1 ELSE 0 BY <1>14, TickSteps
    <3>3. outcome'[d].age = IF outcome[d].age < Oldest THEN outcome[d].age + 1 ELSE outcome[d].age
      BY <1>14, <2>3, TickSteps
    <3>. HIDE DEF GeminiTypeOK
    <3>. QED BY <3>1, <3>2, <3>3, Constants
  <2>5. outcome'[d].age >= outcome[d].age BY <1>14, TickSteps
  <2>6. outcome[d].age \in Nat /\ outcome'[d].age \in Nat /\ gemini[a].wait \in Nat /\ gemini'[a].wait \in Nat
    BY <1>14, TickSteps, Constants
  <2>7. d \in Limited(a)' <=> d \in Limited(a) BY <2>1 DEF Limited
  <2>8. ASSUME NEW window \in 0..Oldest, outcome[d].age + gemini[a].wait >= window
        PROVE  outcome'[d].age + gemini'[a].wait >= window
    BY <2>4, <2>6, <2>8, Constants
  <2>9. ASSUME NEW window \in 0..Oldest, outcome[d].age >= window PROVE outcome'[d].age >= window
    BY <2>5, <2>6, <2>9, Constants
  <2>. QED BY <2>2, <2>7, <2>8, <2>9, Constants DEF Heeded, OfOperation, OfRoute, IsVocabulary
<1>15. ASSUME NEW c \in GeminiCalls, CutSession(c) PROVE Heeded(a, d, gemini[a].wait)' BY <1>3, <1>15 DEF CutSession
<1>16. ASSUME NEW c \in GeminiCalls, Crash(c) PROVE Heeded(a, d, gemini[a].wait)' BY <1>3, <1>16 DEF Crash
<1>17. CASE UNCHANGED geminiVars BY <1>3, <1>17 DEF geminiVars
<1>18. ASSUME NEW c \in GeminiCalls, Begin(c) PROVE Heeded(a, d, gemini[a].wait)' BY <1>3, <1>18 DEF Begin
<1>. QED BY <1>4, <1>5, <1>6, <1>7, <1>8, <1>9, <1>10, <1>11, <1>12, <1>13, <1>14, <1>15, <1>16, <1>17, <1>18
         DEF GeminiNext, Proceed

\* A call under the lock starts past every window that a kept outcome opened, for any calls,
\* keys, accounts and windows.
THEOREM Windows == GeminiSpec => WindowsHeeded
<1>1. GeminiTypeOK /\ GeminiInv /\ [GeminiNext]_geminiVars => (GeminiTypeOK /\ GeminiInv)'
  BY GeminiTypeNext, LockNext, KeptNext, WaitNext DEF GeminiInv
<1>. DEFINE Starts(c, d) == /\ gemini[c].at = "waiting" /\ gemini'[c].at = "calling" /\ ~gemini[c].cut
                            /\ c # d /\ outcome[d].kept
            Past(c, d) ==
              /\ Route[d] = Route[c] => outcome[d].age >= GlobalMinInterval
              /\ d \in Limited(c) =>
                   outcome[d].age >= IF IsVocabulary(c) THEN VocabularySuppression ELSE SemanticCooldown
              /\ IsVocabulary(c) /\ d \in OfOperation(c, "semantic") => outcome[d].age >= VocabularyQuiet
              /\ IsVocabulary(c) /\ d \in OfOperation(c, "vocabulary") => outcome[d].age >= VocabularyMinInterval
<1>2. ASSUME GeminiTypeOK, GeminiInv, GeminiNext, NEW c \in GeminiCalls, NEW d \in GeminiCalls, Starts(c, d)
      PROVE  Past(c, d)
  <2>1. gemini[c].wait = 0
    <3>1. \E b \in GeminiCalls : Begin(b) \/ Proceed(b) \/ Abort(b) \/ CutSession(b) \/ Crash(b)
      <4>1. ~Tick BY <1>2, TickSteps
      <4>. QED BY <1>2, <4>1 DEF GeminiNext
    <3>2. PICK b \in GeminiCalls : Begin(b) \/ Proceed(b) \/ Abort(b) \/ CutSession(b) \/ Crash(b) BY <3>1
    <3>. QED BY ZenonT(60), <1>2, <3>2 DEF GeminiTypeOK, Progress, Begin, Proceed, TryLock, Defer, WaitUnderLock, LedgerUnavailable, StartCall,
                 ProviderAnswers, Record, Release, Emit, Abort, Refuse, CutSession, Crash, MayRelease
  <2>2. Heeded(c, d, 0) BY <1>2, <2>1 DEF GeminiInv, WaitInv
  <2>3. outcome[d].age \in Nat /\ outcome[d].age + 0 = outcome[d].age
    BY <1>2, Constants DEF GeminiTypeOK, Event
  <2>. QED BY <2>2, <2>3 DEF Heeded
<1>3. GeminiTypeOK /\ GeminiInv /\ [GeminiNext]_geminiVars => [\A c, d \in GeminiCalls : Starts(c, d) => Past(c, d)]_geminiVars
  BY <1>2
<1>. QED BY GeminiTypeInit, InvInit, <1>1, <1>3, PTL DEF GeminiSpec, WindowsHeeded

(***************************************************************************)
(* The instance                                                            *)
(***************************************************************************)
\* A step of the instance is a step of one part, and leaves the rows of the others alone.
LEMMA SearchParts ==
  [SearchNext]_<<subject, vars, runVars, geminiVars>> =>
    [SchedulerNext]_vars /\ [RunNext]_runVars /\ [GeminiNext]_geminiVars
<1>. SUFFICES ASSUME [SearchNext]_<<subject, vars, runVars, geminiVars>>
             PROVE  [SchedulerNext]_vars /\ [RunNext]_runVars /\ [GeminiNext]_geminiVars
  OBVIOUS
<1>1. CASE subject = "scheduler" /\ SchedulerNext /\ UNCHANGED <<runVars, geminiVars>> BY <1>1
<1>2. CASE subject = "runs" /\ RunNext /\ UNCHANGED <<vars, geminiVars>> BY <1>2
<1>3. CASE subject = "gemini" /\ GeminiNext /\ UNCHANGED <<vars, runVars>> BY <1>3
<1>4. CASE UNCHANGED <<subject, vars, runVars, geminiVars>> BY <1>4
<1>. QED BY <1>1, <1>2, <1>3, <1>4 DEF SearchNext

\* What is proved of a part holds of the instance: it is a behaviour of each of the three.
THEOREM SearchImplementsParts == SearchSpec => FairSchedulerSpec /\ FairRunSpec /\ GeminiSpec
<1>1. SearchInit => Init /\ RunInit /\ GeminiInit BY DEF SearchInit
<1>. QED BY <1>1, SearchParts, PTL DEF SearchSpec, FairSchedulerSpec, SchedulerSpec, FairRunSpec, RunSpec, GeminiSpec

\* The rows of the three parts have their types, the pages of a chain of runs are paid for in
\* order, and its continuations are linked as they should be.
THEOREM SearchInvariantHolds == SearchSpec => []SearchInvariant
<1>1. SearchInvariant <=> TypeOK /\ RunTypeOK /\ GeminiTypeOK /\ PagesInOrder /\ ContinuationsLinked
  BY DEF SearchInvariant
<1>2. SearchSpec => SchedulerSpec /\ RunSpec /\ GeminiSpec
  BY SearchImplementsParts, PTL DEF FairSchedulerSpec, FairRunSpec
<1>. QED
  BY <1>1, <1>2, TypeCorrect, RunTypeCorrect, GeminiTypeCorrect, OrderedPages,
     LinkedContinuations, PTL
=============================================================================
