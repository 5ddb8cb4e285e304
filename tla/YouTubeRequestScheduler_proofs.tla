------------------- MODULE YouTubeRequestScheduler_proofs -------------------
(***************************************************************************)
(* Theorems about YouTubeRequestScheduler, for any requests, priorities,   *)
(* lineages and bounds.                                                    *)
(***************************************************************************)
EXTENDS YouTubeRequestScheduler, TLAPS

USE SchedulerAssumption, CallersAssumption DEF SchedulerAssumption, CallersAssumption

\* The loop waits for an answer to a call of its request, or will call it again.
Serving == drain.at \in {"calling", "cooling"}

LEMMA TypeInit == Init => TypeOK
BY DEF Init, TypeOK, Asleep, Loop, Drain, Blank, Entry, Origins

\* The drain loop's record is well typed wherever the loop stands.
LEMMA LoopTyped ==
  ASSUME NEW at \in {"idle", "top", "pacing", "calling", "cooling"}, NEW r \in Requests \cup {NoRequest},
         NEW retries \in 0 .. MaxRetries, NEW origin \in Origins
  PROVE  Loop(at, r, retries, origin) \in Drain
BY DEF Loop, Drain

LEMMA DrainFields ==
  ASSUME TypeOK PROVE drain.retries \in 0 .. MaxRetries /\ drain.origin \in Origins
BY DEF TypeOK, Drain

\* The record after each step that moves the loop.
LEMMA LoopMoves ==
  ASSUME TypeOK
  PROVE  /\ Asleep \in Drain
         /\ \A origin \in Origins : Loop("top", NoRequest, 0, origin) \in Drain
         /\ \A r \in Requests : Loop("calling", r, 0, drain.origin) \in Drain
         /\ \A r \in Requests, at \in {"calling", "cooling"} : Loop(at, r, drain.retries, drain.origin) \in Drain
         /\ \A r \in Requests : drain.retries < MaxRetries => Loop("calling", r, drain.retries + 1, drain.origin) \in Drain
         /\ Loop("top", NoRequest, 0, drain.origin) \in Drain /\ Loop("pacing", NoRequest, 0, drain.origin) \in Drain
<1>. USE DrainFields
<1>1. Asleep \in Drain BY LoopTyped DEF Asleep, Origins
<1>2. \A origin \in Origins : Loop("top", NoRequest, 0, origin) \in Drain
  <2>. TAKE origin \in Origins
  <2>. QED BY LoopTyped
<1>3. \A r \in Requests : Loop("calling", r, 0, drain.origin) \in Drain
  <2>. TAKE r \in Requests
  <2>. QED BY LoopTyped
<1>4. \A r \in Requests, at \in {"calling", "cooling"} : Loop(at, r, drain.retries, drain.origin) \in Drain
  <2>. TAKE r \in Requests, at \in {"calling", "cooling"}
  <2>. QED BY LoopTyped
<1>5. \A r \in Requests : drain.retries < MaxRetries => Loop("calling", r, drain.retries + 1, drain.origin) \in Drain
  <2>. TAKE r \in Requests
  <2>. HAVE drain.retries < MaxRetries
  <2>. QED BY LoopTyped
<1>6. Loop("top", NoRequest, 0, drain.origin) \in Drain BY <1>2
<1>7. Loop("pacing", NoRequest, 0, drain.origin) \in Drain BY LoopTyped
<1>. QED BY <1>1, <1>2, <1>3, <1>4, <1>5, <1>6, <1>7

LEMMA SettleType ==
  ASSUME TypeOK, NEW r \in Requests, NEW verdict \in {"resolved", "rejected"}, Settle(r, verdict),
         limited' \in [Requests -> Nat]
  PROVE  TypeOK'
BY LoopMoves DEF TypeOK, Settle

LEMMA ContextTyped ==
  ASSUME TypeOK, NEW r \in Requests
  PROVE  [contexts EXCEPT ![r] = @ \cup {Context(r)}] \in [Requests -> SUBSET Origins]
BY DEF TypeOK, Context, Entry

LEMMA TypeNext == TypeOK /\ [SchedulerNext]_vars => TypeOK'
<1>. SUFFICES ASSUME TypeOK, [SchedulerNext]_vars PROVE TypeOK' OBVIOUS
<1>1. ASSUME NEW r \in Requests, Push(r) PROVE TypeOK'
  <2>. DEFINE origin == MergedOrigin(Lineage[r])
  <2>1. origin \in Origins BY DEF MergedOrigin, Origins
  <2>2. entry' \in [Requests -> Entry] BY <1>1, <2>1 DEF TypeOK, Push, Entry
  <2>3. drain' = drain \/ drain' = Loop("top", NoRequest, 0, origin) BY <1>1 DEF Push
  <2>. HIDE DEF origin
  <2>. QED BY <1>1, <2>1, <2>2, <2>3, LoopMoves DEF TypeOK, Push
<1>2. ASSUME NEW r \in Requests, Age(r) PROVE TypeOK' BY <1>2 DEF TypeOK, Age, Queue
<1>3. ASSUME NEW r \in Requests, Take(r) PROVE TypeOK' BY <1>3, ContextTyped, LoopMoves DEF TypeOK, Take
<1>4. ASSUME NEW r \in Requests, Resume(r) PROVE TypeOK' BY <1>4, ContextTyped, LoopMoves DEF TypeOK, Resume
<1>5. ASSUME NEW r \in Requests, Answer(r) PROVE TypeOK'
  <2>1. CASE Succeed(r) BY <2>1, SettleType DEF Succeed, TypeOK
  <2>2. CASE Fail(r) BY <2>2, SettleType DEF Fail, TypeOK
  <2>3. CASE Cool(r) BY <2>3, LoopMoves DEF Cool, TypeOK
  <2>4. ASSUME NEW reserved \in BOOLEAN, RateLimited(r, reserved) PROVE TypeOK'
    <3>1. limited' \in [Requests -> Nat] BY <2>4 DEF RateLimited, TypeOK
    <3>2. CASE MayReplay(reserved)
      BY <2>4, <3>1, <3>2, ContextTyped, LoopMoves DEF RateLimited, MayReplay, TypeOK
    <3>3. CASE ~MayReplay(reserved) BY <2>4, <3>1, <3>3, SettleType DEF RateLimited
    <3>. QED BY <3>2, <3>3
  <2>. QED BY <1>5, <2>1, <2>2, <2>3, <2>4 DEF Answer
<1>6. CASE Pace \/ Drained \/ WaitForPace
  BY <1>6, LoopMoves DEF TypeOK, Pace, Drained, WaitForPace, Asleep, Origins
<1>7. CASE UNCHANGED vars BY <1>7 DEF TypeOK, vars
<1>. QED BY <1>1, <1>2, <1>3, <1>4, <1>5, <1>6, <1>7 DEF SchedulerNext, Step

\* Every reachable state of the scheduler is well typed.
THEOREM TypeCorrect == SchedulerSpec => []TypeOK
BY TypeInit, TypeNext, PTL DEF SchedulerSpec

(***************************************************************************)
(* Provenance.                                                             *)
(***************************************************************************)
\* The request being served was taken from the queue and is not settled.
ServedInv == Serving => drain.request \in Requests /\ status[drain.request] = "selected"

LEMMA ServedNext == TypeOK /\ ServedInv /\ [SchedulerNext]_vars => ServedInv'
<1>. SUFFICES ASSUME TypeOK, ServedInv, [SchedulerNext]_vars PROVE ServedInv' OBVIOUS
<1>. USE DEF ServedInv, Serving
<1>1. ASSUME NEW r \in Requests, Push(r) PROVE ServedInv'
  <2>1. drain' = drain \/ drain'.at = "top" BY <1>1 DEF Push, Loop
  <2>2. status[r] = "new" /\ status' = [status EXCEPT ![r] = "queued"] BY <1>1 DEF Push
  <2>. QED BY <2>1, <2>2 DEF TypeOK
<1>2. ASSUME NEW r \in Requests, Age(r) PROVE ServedInv' BY <1>2 DEF Age
<1>3. ASSUME NEW r \in Requests, Take(r) PROVE ServedInv' BY <1>3 DEF Take, Loop, TypeOK
<1>4. ASSUME NEW r \in Requests, Resume(r) PROVE ServedInv' BY <1>4 DEF Resume, Loop
<1>5. ASSUME NEW r \in Requests, Answer(r) PROVE ServedInv'
  <2>1. ASSUME NEW verdict, Settle(r, verdict) PROVE ServedInv' BY <2>1 DEF Settle, Loop
  <2>2. CASE Cool(r) BY <2>2 DEF Cool, Calling, Loop
  <2>3. ASSUME NEW reserved \in BOOLEAN, RateLimited(r, reserved) PROVE ServedInv'
    <3>1. CASE MayReplay(reserved) BY <2>3, <3>1 DEF RateLimited, Calling, Loop
    <3>2. CASE ~MayReplay(reserved) BY <2>1, <2>3, <3>2 DEF RateLimited
    <3>. QED BY <3>1, <3>2
  <2>. QED BY <1>5, <2>1, <2>2, <2>3 DEF Answer, Succeed, Fail
<1>6. CASE Pace \/ Drained \/ WaitForPace BY <1>6 DEF Pace, Drained, WaitForPace, Asleep, Loop
<1>7. CASE UNCHANGED vars BY <1>7 DEF vars
<1>. QED BY <1>1, <1>2, <1>3, <1>4, <1>5, <1>6, <1>7 DEF SchedulerNext, Step

\* The entry of a pushed request holds the origin its caller's lineage merges to.
Declared(r) == IF "PROBE" \in Lineage[r] THEN "PROBE" ELSE "NORMAL"
OriginInv == /\ \A r \in Requests : status[r] # "new" => entry[r].origin = Declared(r)
             /\ \A r \in Requests : contexts[r] \subseteq {Declared(r)}

LEMMA OriginNext ==
  TypeOK /\ ServedInv /\ OriginInv /\ [SchedulerNext]_vars => OriginInv'
<1>. SUFFICES ASSUME TypeOK, ServedInv, OriginInv, [SchedulerNext]_vars PROVE OriginInv' OBVIOUS
<1>. USE DEF OriginInv
<1>1. ASSUME NEW r \in Requests, Push(r) PROVE OriginInv'
  <2>1. MergedOrigin(Lineage[r]) = Declared(r) BY <1>1 DEF Push, MergedOrigin, Declared
  <2>. DEFINE origin == MergedOrigin(Lineage[r])
  <2>2. entry' = [entry EXCEPT ![r] = [seq |-> sequence, origin |-> origin]]
        /\ status' = [status EXCEPT ![r] = "queued"] /\ contexts' = contexts
    BY <1>1 DEF Push
  <2>. HIDE DEF origin
  <2>3. \A q \in Requests : status'[q] # "new" => entry'[q].origin = Declared(q)
    BY <2>1, <2>2 DEF TypeOK, origin
  <2>. QED BY <2>2, <2>3
\* Every dispatch adds the captured origin of a pushed request.
<1>2. ASSUME NEW r \in Requests, status[r] # "new", entry' = entry,
             \A q \in Requests : status'[q] # "new" => status[q] # "new",
             contexts' = contexts \/ contexts' = [contexts EXCEPT ![r] = @ \cup {Context(r)}]
      PROVE  OriginInv'
  <2>1. Context(r) = Declared(r) BY <1>2 DEF Context
  <2>. QED BY <1>2, <2>1 DEF TypeOK
<1>3. ASSUME NEW r \in Requests, Take(r) PROVE OriginInv'
  BY <1>2, <1>3 DEF Take, IsNext, Preferred, Queue, TypeOK
<1>4. ASSUME NEW r \in Requests, Resume(r) PROVE OriginInv'
  BY <1>2, <1>4 DEF Resume, ServedInv, Serving, TypeOK
<1>5. ASSUME NEW r \in Requests, Answer(r) PROVE OriginInv'
  <2>1. Calling(r) /\ status[r] = "selected"
    BY <1>5 DEF Answer, Succeed, Fail, Cool, RateLimited, Calling, ServedInv, Serving
  <2>2. ASSUME NEW verdict, Settle(r, verdict) PROVE OriginInv' BY <1>2, <2>1, <2>2 DEF Settle, TypeOK
  <2>3. CASE Cool(r) BY <1>2, <2>1, <2>3 DEF Cool
  <2>4. ASSUME NEW reserved \in BOOLEAN, RateLimited(r, reserved) PROVE OriginInv'
    <3>1. CASE MayReplay(reserved) BY <1>2, <2>1, <2>4, <3>1 DEF RateLimited
    <3>2. CASE ~MayReplay(reserved) BY <2>2, <2>4, <3>2 DEF RateLimited
    <3>. QED BY <3>1, <3>2
  <2>. QED BY <1>5, <2>2, <2>3, <2>4 DEF Answer, Succeed, Fail
<1>6. CASE (\E r \in Requests : Age(r)) \/ Pace \/ Drained \/ WaitForPace
  BY <1>6 DEF Age, Pace, Drained, WaitForPace
<1>7. CASE UNCHANGED vars BY <1>7 DEF vars
<1>. QED BY <1>1, <1>3, <1>4, <1>5, <1>6, <1>7 DEF SchedulerNext, Step

\* A call runs under the provenance of its own caller, whichever caller's context started
\* the drain loop and however often it is replayed.
THEOREM Provenance == SchedulerSpec => []ProvenanceKept
<1>1. Init => TypeOK /\ ServedInv /\ OriginInv
  BY TypeInit DEF Init, ServedInv, Serving, Asleep, Loop, OriginInv
<1>2. TypeOK /\ ServedInv /\ OriginInv /\ [SchedulerNext]_vars => (TypeOK /\ ServedInv /\ OriginInv)'
  BY TypeNext, ServedNext, OriginNext
<1>3. OriginInv => ProvenanceKept BY DEF OriginInv, Declared, ProvenanceKept
<1>. QED BY <1>1, <1>2, <1>3, PTL DEF SchedulerSpec

(***************************************************************************)
(* Replays.                                                                *)
(***************************************************************************)
\* The rate-limit answers of the request being served are the retries the loop counted;
\* a request still waiting has had none.
ReplayInv == /\ \A r \in Requests : status[r] \in {"new", "queued"} => limited[r] = 0
             /\ \A r \in Requests : Serving /\ drain.request = r => limited[r] = drain.retries
             /\ ReplaysBounded

LEMMA ReplayNext ==
  TypeOK /\ ServedInv /\ ReplayInv /\ [SchedulerNext]_vars => ReplayInv'
<1>. SUFFICES ASSUME TypeOK, ServedInv, ReplayInv, [SchedulerNext]_vars PROVE ReplayInv' OBVIOUS
<1>. USE DEF ReplayInv, ReplaysBounded, Serving
<1>1. ASSUME NEW r \in Requests, Push(r) PROVE ReplayInv'
  <2>1. drain' = drain \/ drain'.at = "top" BY <1>1 DEF Push, Loop
  <2>2. limited' = limited /\ status[r] = "new" /\ status' = [status EXCEPT ![r] = "queued"] BY <1>1 DEF Push
  <2>. QED BY <2>1, <2>2 DEF TypeOK
<1>2. ASSUME NEW r \in Requests, Take(r) PROVE ReplayInv'
  <2>1. status[r] = "queued" BY <1>2 DEF Take, IsNext, Preferred, Queue
  <2>2. drain' = Loop("calling", r, 0, drain.origin) /\ limited' = limited
        /\ status' = [status EXCEPT ![r] = "selected"]
    BY <1>2 DEF Take
  <2>. QED BY <2>1, <2>2 DEF Loop, TypeOK
<1>3. ASSUME NEW r \in Requests, Resume(r) PROVE ReplayInv' BY <1>3 DEF Resume, Loop
<1>4. ASSUME NEW r \in Requests, Answer(r) PROVE ReplayInv'
  <2>1. Calling(r) /\ status[r] = "selected"
    BY <1>4 DEF Answer, Succeed, Fail, Cool, RateLimited, Calling, ServedInv
  <2>2. limited[r] = drain.retries /\ drain.retries \in 0 .. MaxRetries /\ limited[r] \in Nat
    BY <2>1, DrainFields DEF Calling, TypeOK
  <2>3. ASSUME NEW verdict \in {"resolved", "rejected"}, Settle(r, verdict), 
               limited' = limited \/ limited' = [limited EXCEPT ![r] = @ + 1]
        PROVE  ReplayInv'
    <3>1. ~Serving' BY <2>3 DEF Settle, Loop
    <3>2. \A q \in Requests : limited'[q] <= MaxRetries + 1 BY <2>2, <2>3 DEF TypeOK
    <3>3. \A q \in Requests : status'[q] \in {"new", "queued"} => q # r /\ status[q] \in {"new", "queued"}
      BY <2>3 DEF Settle, TypeOK
    <3>4. \A q \in Requests : q # r => limited'[q] = limited[q] BY <2>3 DEF TypeOK
    <3>. QED BY <3>1, <3>2, <3>3, <3>4
  <2>4. CASE Succeed(r) \/ Fail(r) BY <2>3, <2>4 DEF Succeed, Fail
  <2>5. CASE Cool(r) BY <2>5, <2>1 DEF Cool, Calling, Loop
  <2>6. ASSUME NEW reserved \in BOOLEAN, RateLimited(r, reserved) PROVE ReplayInv'
    <3>1. CASE MayReplay(reserved)
      <4>1. drain' = Loop("calling", r, drain.retries + 1, drain.origin) /\ drain.retries < MaxRetries
            /\ limited' = [limited EXCEPT ![r] = @ + 1] /\ status' = status
        BY <2>6, <3>1 DEF RateLimited, MayReplay
      <4>. QED BY <2>1, <2>2, <4>1 DEF Loop, TypeOK
    <3>2. CASE ~MayReplay(reserved) BY <2>3, <2>6, <3>2 DEF RateLimited
    <3>. QED BY <3>1, <3>2
  <2>. QED BY <1>4, <2>4, <2>5, <2>6 DEF Answer
<1>5. CASE (\E r \in Requests : Age(r)) \/ Pace \/ Drained \/ WaitForPace
  BY <1>5 DEF Age, Pace, Drained, WaitForPace, Asleep, Loop
<1>6. CASE UNCHANGED vars BY <1>6 DEF vars
<1>. QED BY <1>1, <1>2, <1>3, <1>4, <1>5, <1>6 DEF SchedulerNext, Step

\* However short pauses and replays alternate, a request draws at most MaxRetries + 1
\* rate-limit answers from the providers.
THEOREM BoundedReplays == SchedulerSpec => []ReplaysBounded
<1>1. Init => TypeOK /\ ServedInv /\ ReplayInv
  BY TypeInit DEF Init, ServedInv, Serving, Asleep, Loop, ReplayInv, ReplaysBounded
<1>2. TypeOK /\ ServedInv /\ ReplayInv /\ [SchedulerNext]_vars => (TypeOK /\ ServedInv /\ ReplayInv)'
  BY TypeNext, ServedNext, ReplayNext
<1>3. ReplayInv => ReplaysBounded BY DEF ReplayInv
<1>. QED BY <1>1, <1>2, <1>3, PTL DEF SchedulerSpec

(***************************************************************************)
(* Starvation.                                                             *)
(***************************************************************************)
\* s is taken while the older r, which has waited starvationMs, stays in the queue.
Overtaken(r, s) == /\ status[s] = "queued" /\ status'[s] = "selected"
                   /\ r \in Queue \cap aged /\ entry[r].seq < entry[s].seq

LEMMA OnlyTakeSelects ==
  ASSUME TypeOK, SchedulerNext, NEW s \in Requests, status[s] = "queued", status'[s] = "selected"
  PROVE  Take(s)
<1>1. ASSUME NEW r \in Requests, Take(r) PROVE r = s BY <1>1 DEF Take, TypeOK
<1>2. ASSUME NEW r \in Requests, Push(r) PROVE FALSE BY <1>2 DEF Push, TypeOK
<1>3. ASSUME NEW r \in Requests, NEW verdict \in {"resolved", "rejected"}, Settle(r, verdict) PROVE FALSE
  BY <1>3 DEF Settle, TypeOK
<1>4. ASSUME NEW r \in Requests, Answer(r) PROVE FALSE
  BY <1>3, <1>4 DEF Answer, Succeed, Fail, Cool, RateLimited
<1>. QED BY <1>1, <1>2, <1>4 DEF SchedulerNext, Step, Age, Resume, Pace, Drained, WaitForPace

\* Whatever is taken, a request that has waited starvationMs is not overtaken by a younger
\* one, except by manual work.
THEOREM AgedFirst == SchedulerSpec => AgedNotOvertaken
<1>1. ASSUME TypeOK, [SchedulerNext]_vars, NEW r \in Requests, NEW s \in Requests, Overtaken(r, s)
      PROVE  Priority[s] = "manual"
  <2>1. Take(s) BY <1>1, OnlyTakeSelects DEF Overtaken, vars
  <2>2. CASE \E q \in Queue : Priority[q] = "manual" BY <2>1, <2>2 DEF Take, IsNext, Preferred, Queue
  <2>3. CASE ~\E q \in Queue : Priority[q] = "manual"
    <3>1. r \in Preferred BY <1>1, <2>3 DEF Preferred, Overtaken, Queue
    <3>2. entry[s].seq <= entry[r].seq BY <2>1, <3>1 DEF Take, IsNext
    <3>3. entry[s].seq \in Nat /\ entry[r].seq \in Nat BY <1>1 DEF TypeOK, Entry
    <3>. QED BY <1>1, <3>2, <3>3 DEF Overtaken
  <2>. QED BY <2>2, <2>3
<1>2. TypeOK /\ [SchedulerNext]_vars =>
        [\A r, s \in Requests :
           /\ status[s] = "queued" /\ status'[s] = "selected"
           /\ r \in Queue \cap aged /\ entry[r].seq < entry[s].seq
           => Priority[s] = "manual"]_vars
  BY <1>1 DEF Overtaken
<1>. QED BY <1>2, TypeCorrect, PTL DEF SchedulerSpec, AgedNotOvertaken
=============================================================================
