-------------------------- MODULE FinalFilterProofs --------------------------
(* Theorems about FinalFilterQueue and FinalFilterVerdict, for every number of *)
(* requests, servers, permits and attempts, and whatever the provider answers. *)
EXTENDS FinalFilterQueue, FiniteSetTheorems, TLAPS

-----------------------------------------------------------------------------
(* Verdicts. *)

\* A verdict that is read out of an answer is pass only if a reader who knows
\* the aliases finds pass in it and nothing else.
LEMMA PassIsSaid ==
  ASSUME NEW a \in Answer, ModelVerdict(a) = "pass"
  PROVE  SaysOnlyPass(a)
<1> USE NoneAssumption DEF Verdict
<1>1. CASE a.kind = "json"
  <2> DEFINE label == IF a.verdict # None THEN a.verdict ELSE a.other
  <2>1. FromLabel(label) = "pass"
    BY <1>1 DEF ModelVerdict, Coerce
  <2> HIDE DEF label
  <2>2. label \in DOMAIN Alias /\ Alias[label] = "pass"
    BY <2>1 DEF FromLabel
  <2>3. label \in {"pass", "safe"}
    BY <2>2 DEF Alias
  <2> QED BY <1>1, <2>3 DEF SaysOnlyPass, label
<1>2. CASE a.kind = "words"
  <2> DEFINE M == Matched(a)
  <2>1. M \in SUBSET {"pass", "hold", "reject"}
    BY DEF Matched, Alias
  <2>2. IsFiniteSet({"pass", "hold", "reject"})
    <3>1. IsFiniteSet({"pass"} \cup {"hold"})
      BY FS_Singleton, FS_AddElement
    <3>2. IsFiniteSet(({"pass"} \cup {"hold"}) \cup {"reject"})
      BY <3>1, FS_AddElement
    <3>3. ({"pass"} \cup {"hold"}) \cup {"reject"} = {"pass", "hold", "reject"}
      OBVIOUS
    <3> QED BY <3>2, <3>3
  <2>3. IsFiniteSet(M)
    BY <2>1, <2>2, FS_Subset
  <2>4. ParseWords(a) = "pass"
    BY <1>2 DEF ModelVerdict
  <2>5. M # {} /\ Cardinality(M) = 1
    <3>1. None # "pass" /\ Cardinality({}) # 1
      BY FS_EmptySet
    <3>2. M # {}
      BY <2>4, <3>1 DEF ParseWords
    <3> QED BY <2>4, <3>2 DEF ParseWords
  <2>6. PICK x : M = {x}
    BY <2>3, <2>5, FS_Singleton
  <2>7. M = {"pass"}
    BY <2>4, <2>5, <2>6 DEF ParseWords
  <2>8. \A label \in a.labels \cap DOMAIN Alias : Alias[label] = "pass"
    BY <2>7 DEF Matched
  <2>9. a.labels \cap DOMAIN Alias # {}
    BY <2>7 DEF Matched
  <2>10. a.labels \subseteq Label
    BY <1>2 DEF Answer
  <2>11. a.labels \ {"odd"} = a.labels \cap DOMAIN Alias
    BY <2>10 DEF Label, Alias
  <2>12. a.labels \ {"odd"} # {} /\ a.labels \ {"odd"} \subseteq {"pass", "safe"}
    BY <2>8, <2>9, <2>11 DEF Alias
  <2> QED BY <1>2, <2>12 DEF SaysOnlyPass
<1>3. CASE a.kind \notin {"json", "words"}
  BY <1>3 DEF ModelVerdict
<1> QED BY <1>1, <1>2, <1>3

\* So it is when what cannot be read is held.
LEMMA PassIsHeard ==
  ASSUME NEW a \in Answers, HoldUnlessRead(a) = "pass"
  PROVE  SaysOnlyPass(a)
BY PassIsSaid, AnswerAssumption DEF HoldUnlessRead

-----------------------------------------------------------------------------
(* The inductive invariant. *)

\* A thread that is at work has a request that is not blocked, and one that is
\* not has nothing.
AtWork(w) ==
  /\ worker[w].pc = "idle" => worker[w] = Idle
  /\ worker[w].pc # "idle" => worker[w].job \in Request \ Blocked
  /\ worker[w].pc = "storing" => worker[w].verdict \in Verdict

Typed ==
  /\ TypeOK
  /\ \A w \in Worker : AtWork(w)
  /\ \A q \in Blocked : jobs[q].status = "absent"

\* A pass that a thread is about to store was said, as was one that is stored.
Earned ==
  /\ \A q \in Request : jobs[q].result = "pass" => q \in cleared \ Blocked
  /\ \A w \in Worker : worker[w].verdict = "pass" => worker[w].job \in cleared \ Blocked
  /\ told \subseteq cleared \ Blocked

\* Until a lease is overrun, the thread of the live lease is alone.
Sole ==
  \A q \in Request \ overrun :
    /\ \A v, w \in Worker : worker[v].job = q /\ worker[w].job = q => v = w
    /\ \A w \in Worker : worker[w].job = q =>
         Holds(w, q) /\ jobs[q].status = "leased" /\ ~ jobs[q].lapsed
    /\ jobs[q].delayed => jobs[q].status = "queued"

\* What may still lead to a claim: that the request can be claimed, now or once it
\* is queued or due, and each thread that may put it back into the queue.
Open(q) ==
  jobs[q].status \in {"absent", "queued"} \/ (jobs[q].status = "leased" /\ jobs[q].lapsed)
Young(q) == {w \in Worker : worker[w].job = q /\ worker[w].attempt < MaxAttempts}
Ahead(q) == Cardinality(Young(q)) + (IF Open(q) THEN 1 ELSE 0)

\* A claim that makes a young thread uses up nothing, and every other claim one of
\* these; only a lapse adds one.
Bounded(q) ==
  /\ jobs[q].attempts < MaxAttempts => Ahead(q) <= 1 + lapses[q]
  /\ jobs[q].attempts >= MaxAttempts => jobs[q].attempts + Ahead(q) <= MaxAttempts + lapses[q]

IInv == Typed /\ Earned /\ Sole /\ \A q \in Request : Bounded(q)

-----------------------------------------------------------------------------
(* Types. *)

\* Every step keeps the types.
LEMMA NextTyped == Typed /\ [Next]_vars => Typed'
<1> SUFFICES ASSUME Typed, [Next]_vars PROVE Typed'
  OBVIOUS
<1>1. Idle \in WorkerState /\ Idle.pc = "idle"
  BY DEF Idle, WorkerState
<1>2. ASSUME NEW q \in Request, NEW row \in JobRow, jobs' = [jobs EXCEPT ![q] = row],
             q \notin Blocked
      PROVE  /\ jobs' \in [Request -> JobRow]
             /\ \A b \in Blocked : jobs'[b].status = "absent"
  BY <1>2, BlockedAssumption DEF Typed, TypeOK
<1>3. ASSUME NEW w \in Worker, NEW state \in WorkerState, worker' = [worker EXCEPT ![w] = state],
             state.pc = "idle" => state = Idle,
             state.pc # "idle" => state.job \in Request \ Blocked,
             state.pc = "storing" => state.verdict \in Verdict
      PROVE  worker' \in [Worker -> WorkerState] /\ \A v \in Worker : AtWork(v)'
  <2>1. worker'[w] = state /\ \A v \in Worker \ {w} : worker'[v] = worker[v]
    BY <1>3 DEF Typed, TypeOK
  <2> QED BY <1>3, <2>1 DEF Typed, TypeOK, AtWork
<1>4. ASSUME NEW q \in Request, jobs[q].status # "absent" PROVE q \notin Blocked
  BY <1>4 DEF Typed
<1>5. ASSUME NEW w \in Worker, NEW q \in Request, Claim(w, q) PROVE Typed'
  <2> DEFINE n == jobs[q].attempts + 1
             row == [jobs[q] EXCEPT !.status = "leased", !.attempts = n, !.lapsed = FALSE]
             state == [pc |-> "evaluating", job |-> q, attempt |-> n, verdict |-> None]
  <2>1. n \in Nat /\ jobs[q] \in JobRow
    BY DEF Typed, TypeOK, JobRow
  <2>2. jobs' = [jobs EXCEPT ![q] = row] /\ worker' = [worker EXCEPT ![w] = state]
    BY <1>5 DEF Claim
  <2> HIDE DEF n
  <2>3. row \in JobRow
    BY <2>1 DEF JobRow
  <2>4. state \in WorkerState
    BY <2>1 DEF WorkerState
  <2>5. q \notin Blocked
    BY <1>4, <1>5 DEF Claim, Claimable
  <2> QED BY <1>2, <1>3, <1>5, <2>2, <2>3, <2>4, <2>5 DEF Claim, Typed, TypeOK
<1>6. ASSUME NEW w \in Worker, NEW a \in Answers, Evaluate(w, a) PROVE Typed'
  <2> DEFINE verdict == QueueVerdictFor(w, a)
             state == [worker[w] EXCEPT !.pc = "storing", !.verdict = verdict]
  <2>1. worker[w] \in WorkerState /\ worker[w].job \in Request \ Blocked
    BY <1>6 DEF Evaluate, Typed, TypeOK, AtWork
  <2>2. verdict \in Verdict
    <3>1. ModelVerdict(a) # None => ModelVerdict(a) \in Verdict
      <4>1. \A label : FromLabel(label) # None => FromLabel(label) \in Verdict
        BY DEF FromLabel, Verdict, Alias
      <4>2. Matched(a) \subseteq Verdict
        BY DEF Matched, Verdict, Alias
      <4>3. ParseWords(a) # None => ParseWords(a) \in Verdict
        BY <4>2 DEF ParseWords, Verdict
      <4> QED BY <4>1, <4>3 DEF ModelVerdict, Coerce
    <3> QED BY <1>6, <3>1 DEF Evaluate, QueueVerdictFor, QueueVerdict, HoldUnlessRead, Verdict
  <2>3. worker' = [worker EXCEPT ![w] = state] /\ UNCHANGED <<jobs, lapses, overrun, told>>
    BY <1>6 DEF Evaluate
  <2> HIDE DEF verdict
  <2>4. state \in WorkerState /\ state.pc = "storing" /\ state.job = worker[w].job /\ state.verdict = verdict
    BY <2>1, <2>2 DEF WorkerState
  <2>5. cleared' \subseteq Request
    BY <1>6, <2>1 DEF Evaluate, Hear, Typed, TypeOK
  <2> HIDE DEF state
  <2>6. worker' \in [Worker -> WorkerState] /\ \A v \in Worker : AtWork(v)'
    BY <1>3, <2>1, <2>2, <2>3, <2>4
  <2> QED BY <2>3, <2>5, <2>6 DEF Typed, TypeOK
<1>7. ASSUME NEW w \in Worker, worker' = [worker EXCEPT ![w].pc = "retrying"], worker[w].pc # "idle",
             UNCHANGED <<jobs, lapses, overrun, cleared, told>>
      PROVE  Typed'
  <2> DEFINE state == [worker[w] EXCEPT !.pc = "retrying"]
  <2>1. state \in WorkerState /\ state.pc = "retrying" /\ state.job = worker[w].job
    BY DEF Typed, TypeOK, WorkerState
  <2>2. worker' = [worker EXCEPT ![w] = state]
    BY <1>7 DEF Typed, TypeOK
  <2> HIDE DEF state
  <2>3. worker' \in [Worker -> WorkerState] /\ \A v \in Worker : AtWork(v)'
    BY <1>3, <1>7, <2>1, <2>2 DEF Typed, AtWork
  <2> QED BY <1>7, <2>3 DEF Typed, TypeOK
<1>8. ASSUME NEW w \in Worker, worker[w].pc # "idle", worker' = [worker EXCEPT ![w] = Idle],
             \/ \E verdict \in Verdict : Succeed(w, verdict)
             \/ Requeue(w)
             \/ UNCHANGED <<jobs, lapses, overrun, cleared, told>>
      PROVE  Typed'
  <2> DEFINE q == worker[w].job
  <2>1. q \in Request \ Blocked /\ jobs[q] \in JobRow
    BY <1>8 DEF Typed, TypeOK, AtWork
  <2>2. worker' \in [Worker -> WorkerState] /\ \A v \in Worker : AtWork(v)'
    BY <1>1, <1>3, <1>8
  <2>3. CASE UNCHANGED <<jobs, lapses, overrun, cleared, told>>
    BY <2>2, <2>3 DEF Typed, TypeOK
  <2>4. CASE Requeue(w)
    <3> DEFINE row == [jobs[q] EXCEPT !.status = "queued", !.delayed = TRUE, !.lapsed = FALSE]
    <3>1. row \in JobRow
      BY <2>1 DEF JobRow
    <3>2. jobs' = [jobs EXCEPT ![q] = row]
      BY <2>4 DEF Requeue
    <3> QED BY <1>2, <2>1, <2>2, <2>4, <3>1, <3>2 DEF Requeue, Typed, TypeOK
  <2>5. ASSUME NEW verdict \in Verdict, Succeed(w, verdict) PROVE Typed'
    <3> DEFINE row == [jobs[q] EXCEPT !.status = "succeeded", !.lapsed = FALSE, !.result = verdict]
    <3>1. row \in JobRow
      BY <2>1 DEF JobRow
    <3>2. jobs' = [jobs EXCEPT ![q] = row]
      BY <2>5 DEF Succeed
    <3> QED BY <1>2, <2>1, <2>2, <2>5, <3>1, <3>2 DEF Succeed, Typed, TypeOK
  <2> QED BY <1>8, <2>3, <2>4, <2>5
<1>9. ASSUME NEW q \in Request, Enqueue(q) PROVE Typed'
  <2> DEFINE row == [jobs[q] EXCEPT !.status = "queued"]
  <2>1. row \in JobRow /\ jobs' = [jobs EXCEPT ![q] = row]
    BY <1>9 DEF Enqueue, Typed, TypeOK, JobRow
  <2> QED BY <1>2, <1>9, <2>1 DEF Enqueue, Typed, TypeOK, AtWork
<1>10. ASSUME NEW q \in Request, LeaseLapses(q) PROVE Typed'
  <2> DEFINE row == [jobs[q] EXCEPT !.lapsed = TRUE]
  <2>1. row \in JobRow /\ jobs' = [jobs EXCEPT ![q] = row]
    BY <1>10 DEF LeaseLapses, Typed, TypeOK, JobRow
  <2>2. q \notin Blocked
    BY <1>4, <1>10 DEF LeaseLapses
  <2>3. lapses' \in [Request -> Nat] /\ overrun' \subseteq Request
    BY <1>10 DEF LeaseLapses, Typed, TypeOK
  <2> QED BY <1>2, <1>10, <2>1, <2>2, <2>3 DEF LeaseLapses, Typed, TypeOK, AtWork
<1>11. ASSUME NEW q \in Request, BecomesAvailable(q) PROVE Typed'
  <2> DEFINE row == [jobs[q] EXCEPT !.delayed = FALSE]
  <2>1. row \in JobRow /\ row.status = jobs[q].status /\ jobs' = [jobs EXCEPT ![q] = row]
    BY <1>11 DEF BecomesAvailable, Typed, TypeOK, JobRow
  <2> HIDE DEF row
  <2>2. jobs' \in [Request -> JobRow] /\ \A b \in Blocked : jobs'[b].status = "absent"
    BY <2>1, BlockedAssumption DEF Typed, TypeOK
  <2> QED BY <1>11, <2>2 DEF BecomesAvailable, Typed, TypeOK, AtWork
<1>12. ASSUME NEW s \in Server, Crash(s) PROVE Typed'
  <2>1. /\ worker' \in [Worker -> WorkerState]
        /\ \A v \in Worker : worker'[v] = Idle \/ worker'[v] = worker[v]
    BY <1>1, <1>12 DEF Crash, Typed, TypeOK
  <2>2. \A v \in Worker : AtWork(v)'
    BY <1>1, <2>1 DEF Typed, AtWork
  <2> QED BY <1>12, <2>1, <2>2 DEF Crash, Typed, TypeOK
<1>13. ASSUME NEW s \in Server, NEW q \in Request, NEW a \in Answers, EvaluateDirectly(s, q, a)
       PROVE  Typed'
  BY <1>13 DEF EvaluateDirectly, Hear, Typed, TypeOK, AtWork
<1>14. CASE UNCHANGED vars
  BY <1>14 DEF vars, Typed, TypeOK, AtWork
<1>15. ASSUME NEW w \in Worker, WorkerStep(w) PROVE Typed'
  <2>1. Store(w) => worker[w].verdict \in Verdict
    BY DEF Store, Typed, AtWork
  <2>2. Store(w) \/ Hold(w) => \E verdict \in Verdict : Succeed(w, verdict)
    BY <2>1 DEF Store, Hold, Verdict
  <2>3. CASE Store(w) \/ Hold(w) \/ Requeue(w) \/ RetryFails(w)
    BY <1>8, <2>2, <2>3 DEF Store, Hold, Succeed, Requeue, RetryFails
  <2>4. CASE StoreFails(w) \/ \E a \in Answers : ProviderFails(w, a)
    BY <1>7, <2>4 DEF StoreFails, ProviderFails
  <2> QED BY <1>5, <1>6, <1>15, <2>3, <2>4 DEF WorkerStep
<1> QED
  BY <1>9, <1>10, <1>11, <1>12, <1>13, <1>14, <1>15 DEF Next

-----------------------------------------------------------------------------
(* What the steps do to threads and jobs. *)

\* A thread that ends its attempt writes the row of the request it has.
LEMMA Ending ==
  ASSUME Typed, NEW w \in Worker, Store(w) \/ Hold(w) \/ Requeue(w)
  PROVE  /\ worker[w].job \in Request
         /\ worker'[w] = Idle /\ \A v \in Worker \ {w} : worker'[v] = worker[v]
         /\ \A q \in Request \ {worker[w].job} : jobs'[q] = jobs[q]
         /\ jobs'[worker[w].job].attempts = jobs[worker[w].job].attempts
         /\ UNCHANGED <<lapses, overrun, cleared, told>>
<1>1. worker[w].job \in Request
  BY DEF Store, Hold, Requeue, Typed, AtWork
<1>2. worker' = [worker EXCEPT ![w] = Idle] /\ UNCHANGED <<lapses, overrun, cleared, told>>
  BY DEF Store, Hold, Requeue, Succeed
<1>3. \E row : /\ jobs' = [jobs EXCEPT ![worker[w].job] = row]
               /\ row.attempts = jobs[worker[w].job].attempts
  <2> DEFINE q == worker[w].job
  <2>1. jobs[q] \in JobRow
    BY <1>1 DEF Typed, TypeOK
  <2>2. ASSUME NEW verdict, Succeed(w, verdict)
        PROVE  \E row : jobs' = [jobs EXCEPT ![q] = row] /\ row.attempts = jobs[q].attempts
    <3> DEFINE row == [jobs[q] EXCEPT !.status = "succeeded", !.lapsed = FALSE, !.result = verdict]
    <3>1. jobs' = [jobs EXCEPT ![q] = row]
      BY <2>2 DEF Succeed
    <3>2. row.attempts = jobs[q].attempts
      BY <2>1 DEF JobRow
    <3> QED BY <3>1, <3>2
  <2>3. ASSUME Requeue(w)
        PROVE  \E row : jobs' = [jobs EXCEPT ![q] = row] /\ row.attempts = jobs[q].attempts
    <3> DEFINE row == [jobs[q] EXCEPT !.status = "queued", !.delayed = TRUE, !.lapsed = FALSE]
    <3>1. jobs' = [jobs EXCEPT ![q] = row]
      BY <2>3 DEF Requeue
    <3>2. row.attempts = jobs[q].attempts
      BY <2>1 DEF JobRow
    <3> QED BY <3>1, <3>2
  <2> QED BY <2>2, <2>3 DEF Store, Hold
<1> QED BY <1>1, <1>2, <1>3 DEF Typed, TypeOK

\* It leaves the row succeeded with its verdict, or queued.
LEMMA Ended ==
  ASSUME Typed, NEW w \in Worker, NEW q \in Request, q = worker[w].job
  PROVE  /\ Store(w) => /\ jobs'[q].status = "succeeded" /\ jobs'[q].result = worker[w].verdict
                        /\ jobs'[q].delayed = jobs[q].delayed
         /\ Hold(w) => /\ jobs'[q].status = "succeeded" /\ jobs'[q].result = "hold"
                       /\ jobs'[q].delayed = jobs[q].delayed
         /\ Requeue(w) => /\ jobs'[q].status = "queued" /\ jobs'[q].result = jobs[q].result
<1>1. jobs[q] \in JobRow /\ q \in DOMAIN jobs
  BY DEF Typed, TypeOK
<1>2. ASSUME NEW verdict, Succeed(w, verdict)
      PROVE  /\ jobs'[q].status = "succeeded" /\ jobs'[q].result = verdict
             /\ jobs'[q].delayed = jobs[q].delayed
  BY <1>1, <1>2 DEF Succeed, JobRow
<1>3. Requeue(w) => jobs'[q].status = "queued" /\ jobs'[q].result = jobs[q].result
  BY <1>1 DEF Requeue, JobRow
<1> QED BY <1>2, <1>3 DEF Store, Hold

\* A claim starts an attempt of a thread that had none.
LEMMA Claiming ==
  ASSUME Typed, NEW w \in Worker, NEW q \in Request, Claim(w, q)
  PROVE  /\ worker[w] = Idle
         /\ worker'[w].job = q /\ worker'[w].attempt = jobs'[q].attempts
         /\ worker'[w].verdict = None
         /\ \A v \in Worker \ {w} : worker'[v] = worker[v]
         /\ \A r \in Request \ {q} : jobs'[r] = jobs[r]
         /\ jobs'[q].attempts = jobs[q].attempts + 1 /\ jobs'[q].status = "leased"
         /\ ~ jobs'[q].lapsed /\ jobs'[q].delayed = jobs[q].delayed
         /\ jobs'[q].result = jobs[q].result
         /\ UNCHANGED <<lapses, overrun, cleared, told>>
<1>1. jobs[q] \in JobRow
  BY DEF Typed, TypeOK
<1> DEFINE n == jobs[q].attempts + 1
           row == [jobs[q] EXCEPT !.status = "leased", !.attempts = n, !.lapsed = FALSE]
<1>2. jobs' = [jobs EXCEPT ![q] = row]
  BY DEF Claim
<1> HIDE DEF n
<1>3. /\ row.attempts = n /\ row.status = "leased" /\ ~ row.lapsed
      /\ row.delayed = jobs[q].delayed /\ row.result = jobs[q].result
  BY <1>1 DEF JobRow
<1> HIDE DEF row
<1>4. jobs'[q] = row /\ \A r \in Request \ {q} : jobs'[r] = jobs[r]
  BY <1>2 DEF Typed, TypeOK
<1> USE DEF n
<1> DEFINE state == [pc |-> "evaluating", job |-> q, attempt |-> n, verdict |-> None]
<1>5. /\ worker[w] = Idle /\ UNCHANGED <<lapses, overrun, cleared, told>>
      /\ worker' = [worker EXCEPT ![w] = state]
  BY DEF Claim, Typed, AtWork
<1>6. row.attempts = jobs[q].attempts + 1
  BY <1>3
<1> HIDE DEF n
<1>7. state.job = q /\ state.attempt = n /\ state.verdict = None
  OBVIOUS
<1> HIDE DEF state
<1>8. worker'[w] = state /\ \A v \in Worker \ {w} : worker'[v] = worker[v]
  BY <1>5 DEF Typed, TypeOK
<1> QED BY <1>3, <1>4, <1>5, <1>6, <1>7, <1>8

\* A thread that goes on with its attempt keeps its request and its number.
LEMMA GoingOn ==
  ASSUME Typed, NEW w \in Worker,
         StoreFails(w) \/ \E a \in Answers : Evaluate(w, a) \/ ProviderFails(w, a)
  PROVE  /\ worker'[w].job = worker[w].job /\ worker'[w].attempt = worker[w].attempt
         /\ \A v \in Worker \ {w} : worker'[v] = worker[v]
         /\ UNCHANGED <<jobs, lapses, overrun, told>>
<1>1. worker[w] \in WorkerState
  BY DEF Typed, TypeOK
<1>2. CASE StoreFails(w) \/ \E a \in Answers : ProviderFails(w, a)
  BY <1>1, <1>2 DEF StoreFails, ProviderFails, Typed, TypeOK, WorkerState
<1>3. ASSUME NEW a \in Answers, Evaluate(w, a)
      PROVE  /\ worker'[w].job = worker[w].job /\ worker'[w].attempt = worker[w].attempt
             /\ \A v \in Worker \ {w} : worker'[v] = worker[v]
             /\ UNCHANGED <<jobs, lapses, overrun, told>>
  <2> DEFINE state == [worker[w] EXCEPT !.pc = "storing", !.verdict = QueueVerdictFor(w, a)]
  <2>1. worker' = [worker EXCEPT ![w] = state] /\ UNCHANGED <<jobs, lapses, overrun, told>>
    BY <1>3 DEF Evaluate
  <2>2. state.job = worker[w].job /\ state.attempt = worker[w].attempt
    BY <1>1 DEF WorkerState
  <2> HIDE DEF state
  <2> QED BY <2>1, <2>2 DEF Typed, TypeOK
<1> QED BY <1>2, <1>3

\* Threads that stop leave the database as it is.
LEMMA Stopping ==
  ASSUME Typed, (\E w \in Worker : RetryFails(w)) \/ (\E s \in Server : Crash(s))
  PROVE  /\ \A v \in Worker : worker'[v] = Idle \/ worker'[v] = worker[v]
         /\ UNCHANGED <<jobs, lapses, overrun, cleared, told>>
BY DEF RetryFails, Crash, Typed, TypeOK

\* A lease that lapses marks one row and counts.
LEMMA Lapsing ==
  ASSUME Typed, NEW q \in Request, LeaseLapses(q)
  PROVE  /\ \A r \in Request \ {q} : jobs'[r] = jobs[r] /\ lapses'[r] = lapses[r]
         /\ jobs'[q].status = "leased" /\ jobs'[q].attempts = jobs[q].attempts
         /\ jobs'[q].result = jobs[q].result /\ jobs'[q].delayed = jobs[q].delayed
         /\ jobs'[q].lapsed /\ lapses'[q] = lapses[q] + 1
         /\ overrun' = (IF \E w \in Worker : Holds(w, q) THEN overrun \cup {q} ELSE overrun)
         /\ UNCHANGED <<worker, cleared, told>>
<1>1. jobs[q] \in JobRow
  BY DEF Typed, TypeOK
<1> QED BY <1>1 DEF LeaseLapses, Typed, TypeOK, JobRow

\* A job whose time has come is no longer delayed.
LEMMA Due ==
  ASSUME Typed, NEW q \in Request, BecomesAvailable(q)
  PROVE  /\ jobs[q].delayed /\ ~ jobs'[q].delayed
         /\ \A r \in Request \ {q} : jobs'[r] = jobs[r]
         /\ jobs'[q].status = jobs[q].status /\ jobs'[q].attempts = jobs[q].attempts
         /\ jobs'[q].result = jobs[q].result /\ jobs'[q].lapsed = jobs[q].lapsed
         /\ UNCHANGED <<worker, lapses, overrun, cleared, told>>
<1>1. jobs[q] \in JobRow
  BY DEF Typed, TypeOK
<1> QED BY <1>1 DEF BecomesAvailable, Typed, TypeOK, JobRow

\* A request that is queued for the first time.
LEMMA Enqueueing ==
  ASSUME Typed, NEW q \in Request, Enqueue(q)
  PROVE  /\ jobs[q].status = "absent" /\ jobs'[q].status = "queued"
         /\ \A r \in Request \ {q} : jobs'[r] = jobs[r]
         /\ jobs'[q].attempts = jobs[q].attempts /\ jobs'[q].result = jobs[q].result
         /\ UNCHANGED <<worker, lapses, overrun, cleared, told>>
<1>1. jobs[q] \in JobRow
  BY DEF Typed, TypeOK
<1> QED BY <1>1 DEF Enqueue, Typed, TypeOK, JobRow

-----------------------------------------------------------------------------
(* Pass. *)

\* Every step keeps a pass earned.
LEMMA NextEarned == Typed /\ Earned /\ [Next]_vars => Earned'
<1> SUFFICES ASSUME Typed, Earned, [Next]_vars PROVE Earned'
  OBVIOUS
<1> USE NoneAssumption
<1>1. None # "pass" /\ Idle.verdict = None
  BY DEF Verdict, Idle
<1>2. ASSUME NEW w \in Worker, NEW q \in Request, Claim(w, q) PROVE Earned'
  <2>1. /\ worker'[w].verdict = None /\ \A v \in Worker \ {w} : worker'[v] = worker[v]
        /\ \A r \in Request : jobs'[r].result = jobs[r].result
        /\ UNCHANGED <<cleared, told>>
    BY <1>2, Claiming
  <2> QED BY <1>1, <2>1 DEF Earned
<1>3. ASSUME NEW w \in Worker, NEW a \in Answers, Evaluate(w, a) PROVE Earned'
  <2>1. /\ \A v \in Worker \ {w} : worker'[v] = worker[v]
        /\ worker'[w].job = worker[w].job /\ UNCHANGED <<jobs, told>>
    BY <1>3, GoingOn
  <2>2. worker'[w].verdict = QueueVerdictFor(w, a)
    BY <1>3 DEF Evaluate, Typed, TypeOK, WorkerState
  <2>3. worker[w].job \in Request \ Blocked
    BY <1>3 DEF Evaluate, Typed, AtWork
  <2>4. QueueVerdictFor(w, a) = "pass" => SaysOnlyPass(a)
    <3>1. QueueVerdictFor(w, a) = "pass" => HoldUnlessRead(a) = "pass"
      BY DEF QueueVerdictFor, QueueVerdict, Verdict
    <3> QED BY <3>1, PassIsHeard
  <2>5. /\ cleared \subseteq cleared'
        /\ SaysOnlyPass(a) => worker[w].job \in cleared'
    BY <1>3 DEF Evaluate, Hear
  <2> QED BY <2>1, <2>2, <2>3, <2>4, <2>5 DEF Earned
<1>4. ASSUME NEW w \in Worker, StoreFails(w) \/ \E a \in Answers : ProviderFails(w, a) PROVE Earned'
  <2>1. /\ \A v \in Worker : worker'[v].job = worker[v].job /\ worker'[v].verdict = worker[v].verdict
        /\ UNCHANGED <<jobs, cleared, told>>
    BY <1>4 DEF StoreFails, ProviderFails, Typed, TypeOK, WorkerState
  <2> QED BY <2>1 DEF Earned
<1>5. ASSUME NEW w \in Worker, Store(w) \/ Hold(w) \/ Requeue(w) PROVE Earned'
  <2>1. worker[w].job \in Request
    BY <1>5, Ending
  <2>2. jobs'[worker[w].job].result = "pass" => worker[w].job \in cleared \ Blocked
    BY <1>5, <2>1, Ended DEF Earned
  <2> QED BY <1>1, <1>5, <2>2, Ending DEF Earned
<1>6. ASSUME (\E w \in Worker : RetryFails(w)) \/ (\E s \in Server : Crash(s)) PROVE Earned'
  BY <1>1, <1>6, Stopping DEF Earned
<1>7. ASSUME NEW q \in Request, Enqueue(q) \/ LeaseLapses(q) \/ BecomesAvailable(q) PROVE Earned'
  BY <1>7, Enqueueing, Lapsing, Due DEF Earned
<1>8. ASSUME NEW s \in Server, NEW q \in Request, NEW a \in Answers, EvaluateDirectly(s, q, a)
      PROVE  Earned'
  <2>1. DirectVerdict(q \in Blocked, s \in Keyed, a) = "pass" =>
          q \notin Blocked /\ s \in Keyed /\ SaysOnlyPass(a)
    <3>1. DirectVerdict(q \in Blocked, s \in Keyed, a) = "pass" =>
            q \notin Blocked /\ s \in Keyed /\ HoldUnlessRead(a) = "pass"
      BY DEF DirectVerdict, Verdict
    <3> QED BY <3>1, PassIsHeard
  <2>2. /\ cleared \subseteq cleared'
        /\ q \notin Blocked /\ s \in Keyed /\ SaysOnlyPass(a) => q \in cleared'
        /\ UNCHANGED <<jobs, worker>>
    BY <1>8 DEF EvaluateDirectly, Hear
  <2>3. told' = told \/ (told' = told \cup {q} /\ DirectVerdict(q \in Blocked, s \in Keyed, a) = "pass")
    BY <1>8 DEF EvaluateDirectly
  <2> QED BY <2>1, <2>2, <2>3 DEF Earned
<1>9. CASE UNCHANGED vars
  BY <1>9 DEF vars, Earned
<1> QED
  BY <1>2, <1>3, <1>4, <1>5, <1>6, <1>7, <1>8, <1>9 DEF Next, WorkerStep

-----------------------------------------------------------------------------
(* One thread for a request. *)

\* Threads without a request, or with the same one and number as before, on rows
\* that did not change, are as alone as they were.
LEMMA SoleStays ==
  ASSUME Sole, UNCHANGED <<jobs, overrun>>,
         \A v \in Worker : \/ worker'[v].job = worker[v].job /\ worker'[v].attempt = worker[v].attempt
                         \/ worker'[v] = Idle
  PROVE  Sole'
<1>1. \A v \in Worker, q \in Request : worker'[v].job = q =>
        worker[v].job = q /\ worker'[v].attempt = worker[v].attempt
  BY NoneAssumption DEF Idle
<1> QED BY <1>1 DEF Sole, Holds

\* Every step keeps a thread alone, until its lease is overrun.
LEMMA NextSole == Typed /\ Sole /\ [Next]_vars => Sole'
<1> SUFFICES ASSUME Typed, Sole, [Next]_vars PROVE Sole'
  OBVIOUS
<1> USE NoneAssumption
<1>1. Idle.job = None
  BY DEF Idle
<1>2. ASSUME NEW w \in Worker, NEW q \in Request, Claim(w, q) PROVE Sole'
  <2>1. q \notin overrun => \A v \in Worker : worker[v].job # q
    BY <1>2 DEF Claim, Claimable, Sole
  <2>2. jobs[q].delayed => q \in overrun
    <3>1. (jobs[q].status = "queued" /\ ~ jobs[q].delayed) \/ jobs[q].status = "leased"
      BY <1>2 DEF Claim, Claimable
    <3> QED BY <3>1 DEF Sole
  <2>3. worker'[w].job = q /\ worker'[w].attempt = jobs'[q].attempts
    BY <1>2, Claiming
  <2>4. \A v \in Worker \ {w} : worker'[v] = worker[v]
    BY <1>2, Claiming
  <2>5. /\ jobs'[q].status = "leased" /\ ~ jobs'[q].lapsed /\ jobs'[q].delayed = jobs[q].delayed
        /\ \A r \in Request \ {q} : jobs'[r] = jobs[r]
        /\ overrun' = overrun
    BY <1>2, Claiming
  <2> QED BY <2>1, <2>2, <2>3, <2>4, <2>5 DEF Sole, Holds
<1>3. ASSUME NEW w \in Worker,
             StoreFails(w) \/ \E a \in Answers : Evaluate(w, a) \/ ProviderFails(w, a)
      PROVE  Sole'
  BY <1>3, GoingOn, SoleStays
<1>4. ASSUME (\E w \in Worker : RetryFails(w)) \/ (\E s \in Server : Crash(s)) PROVE Sole'
  BY <1>4, Stopping, SoleStays
<1>5. ASSUME NEW w \in Worker, Store(w) \/ Hold(w) \/ Requeue(w) PROVE Sole'
  <2> DEFINE q == worker[w].job
  <2>1. /\ q \in Request /\ worker'[w] = Idle /\ \A v \in Worker \ {w} : worker'[v] = worker[v]
        /\ \A r \in Request \ {q} : jobs'[r] = jobs[r]
        /\ overrun' = overrun
    BY <1>5, Ending
  <2>2. q \notin overrun => \A v \in Worker : worker'[v].job # q
    BY <1>1, <2>1 DEF Sole
  <2>3. q \notin overrun => ~ jobs[q].delayed
    BY <2>1 DEF Sole
  <2>4. jobs'[q].delayed => jobs[q].delayed \/ jobs'[q].status = "queued"
    BY <1>5, <2>1, Ended
  <2> HIDE DEF q
  <2> QED BY <1>1, <2>1, <2>2, <2>3, <2>4 DEF Sole, Holds
<1>6. ASSUME NEW q \in Request, Enqueue(q) PROVE Sole'
  BY <1>6, Enqueueing DEF Sole, Holds
<1>7. ASSUME NEW q \in Request, BecomesAvailable(q) PROVE Sole'
  BY <1>7, Due DEF Sole, Holds
<1>8. ASSUME NEW q \in Request, LeaseLapses(q) PROVE Sole'
  <2>1. q \notin overrun' => \A v \in Worker : worker[v].job # q
    BY <1>8, Lapsing DEF Sole
  <2>2. jobs[q].delayed => q \in overrun
    BY <1>8 DEF LeaseLapses, Sole
  <2>3. overrun \subseteq overrun' /\ worker' = worker
    BY <1>8, Lapsing
  <2> QED BY <1>8, <2>1, <2>2, <2>3, Lapsing DEF Sole, Holds
<1>9. ASSUME UNCHANGED <<jobs, worker, overrun>> PROVE Sole'
  BY <1>9 DEF Sole, Holds
<1> QED
  BY <1>2, <1>3, <1>4, <1>5, <1>6, <1>7, <1>8, <1>9 DEF Next, WorkerStep, EvaluateDirectly, vars

-----------------------------------------------------------------------------
(* How often a request is claimed. *)

\* A set of threads is finite, so that it can be counted.
LEMMA YoungCount ==
  ASSUME NEW q \in Request
  PROVE  IsFiniteSet(Young(q)) /\ Cardinality(Young(q)) \in Nat
BY WorkerAssumption, FS_Subset, FS_CardinalityType DEF Young

\* Where nothing is added to what is ahead, the bound stays.
LEMMA NoWorse ==
  ASSUME NEW q \in Request, Bounded(q), Open(q)' => Open(q), Young(q)' \subseteq Young(q),
         jobs'[q].attempts = jobs[q].attempts, lapses'[q] = lapses[q], Typed
  PROVE  Bounded(q)'
<1>1. /\ IsFiniteSet(Young(q)) /\ Cardinality(Young(q)) \in Nat
      /\ Cardinality(Young(q)') \in Nat /\ Cardinality(Young(q)') <= Cardinality(Young(q))
  BY YoungCount, FS_Subset, FS_CardinalityType
<1>2. Ahead(q)' <= Ahead(q) /\ Ahead(q) \in Nat /\ Ahead(q)' \in Nat
  BY <1>1 DEF Ahead
<1>3. jobs[q].attempts \in Nat /\ lapses[q] \in Nat
  BY DEF Typed, TypeOK, JobRow
<1> QED BY <1>2, <1>3, BoundAssumption DEF Bounded

\* A step that leaves a request's row, and gives it to no thread, keeps its bound.
LEMMA RowStays ==
  ASSUME NEW q \in Request, Bounded(q), Typed, jobs'[q] = jobs[q], lapses'[q] = lapses[q],
         \A v \in Worker : \/ worker'[v].job = worker[v].job /\ worker'[v].attempt = worker[v].attempt
                         \/ worker'[v].job # q
  PROVE  Bounded(q)'
<1>1. Open(q)' = Open(q)
  BY DEF Open
<1>2. Young(q)' \subseteq Young(q)
  BY DEF Young
<1> QED BY <1>1, <1>2, NoWorse

\* A claim keeps the bound of the request it claims.
LEMMA ClaimBounded ==
  ASSUME Typed, NEW w \in Worker, NEW q \in Request, Claim(w, q), Bounded(q)
  PROVE  Bounded(q)'
<1> DEFINE n == jobs[q].attempts
           m == lapses[q]
           y == Cardinality(Young(q))
<1>1. n \in Nat /\ m \in Nat /\ y \in Nat /\ MaxAttempts \in Nat \ {0}
  BY YoungCount, BoundAssumption DEF Typed, TypeOK, JobRow
<1>2. Open(q) /\ ~ Open(q)'
  BY Claiming DEF Claim, Claimable, Open
<1>3. w \notin Young(q)
  <2>1. worker[w].job = None
    BY Claiming DEF Idle
  <2> QED BY <2>1, NoneAssumption DEF Young
<1>4. jobs'[q].attempts = n + 1 /\ lapses'[q] = m
  BY Claiming
<1>5. /\ worker'[w].job = q /\ worker'[w].attempt = n + 1
      /\ \A v \in Worker \ {w} : worker'[v] = worker[v]
  BY Claiming
<1>6. n + 1 < MaxAttempts => Young(q)' = Young(q) \cup {w}
  BY <1>5 DEF Young
<1>7. n + 1 >= MaxAttempts => Young(q)' = Young(q)
  <2>1. SUFFICES ASSUME n + 1 >= MaxAttempts PROVE Young(q)' = Young(q)
    OBVIOUS
  <2>2. w \notin Young(q)'
    BY <1>1, <1>5, <2>1 DEF Young
  <2> QED BY <1>3, <1>5, <2>2 DEF Young
<1>8. n + 1 < MaxAttempts => Cardinality(Young(q)') = y + 1
  BY <1>3, <1>6, YoungCount, FS_AddElement
<1>9. n + 1 >= MaxAttempts => Cardinality(Young(q)') = y
  BY <1>7
<1>10. /\ Ahead(q) = y + 1
       /\ n + 1 < MaxAttempts => Ahead(q)' = y + 1
       /\ n + 1 >= MaxAttempts => Ahead(q)' = y
  <2>1. Ahead(q)' = Cardinality(Young(q)') + 0
    BY <1>2 DEF Ahead
  <2> QED BY <1>1, <1>2, <1>8, <1>9, <2>1 DEF Ahead
<1>11. /\ n < MaxAttempts => y + 1 <= 1 + m
       /\ n >= MaxAttempts => n + (y + 1) <= MaxAttempts + m
  BY <1>10 DEF Bounded
<1> HIDE DEF n, m, y
<1>12. /\ n + 1 < MaxAttempts => Ahead(q)' <= 1 + m
       /\ n + 1 >= MaxAttempts => (n + 1) + Ahead(q)' <= MaxAttempts + m
  BY <1>1, <1>10, <1>11
<1> QED BY <1>4, <1>12 DEF Bounded

\* No step claims a request more often than the attempts and its lapses allow.
LEMMA NextBounded ==
  ASSUME Typed, \A q \in Request : Bounded(q), [Next]_vars, NEW q \in Request
  PROVE  Bounded(q)'
<1> USE NoneAssumption
<1>1. Idle.job # q
  BY DEF Idle
<1>2. ASSUME NEW w \in Worker, NEW r \in Request, Claim(w, r) PROVE Bounded(q)'
  <2>1. CASE r = q
    BY <1>2, <2>1, ClaimBounded
  <2>2. CASE r # q
    BY <1>2, <2>2, Claiming, RowStays
  <2> QED BY <2>1, <2>2
<1>3. ASSUME NEW w \in Worker,
             StoreFails(w) \/ \E a \in Answers : Evaluate(w, a) \/ ProviderFails(w, a)
      PROVE  Bounded(q)'
  BY <1>3, GoingOn, RowStays
<1>4. ASSUME (\E w \in Worker : RetryFails(w)) \/ (\E s \in Server : Crash(s)) PROVE Bounded(q)'
  BY <1>1, <1>4, Stopping, RowStays
<1>5. ASSUME NEW w \in Worker, Store(w) \/ Hold(w) \/ Requeue(w) PROVE Bounded(q)'
  <2>1. /\ worker'[w] = Idle /\ \A v \in Worker \ {w} : worker'[v] = worker[v]
        /\ jobs'[worker[w].job].attempts = jobs[worker[w].job].attempts
        /\ \A r \in Request \ {worker[w].job} : jobs'[r] = jobs[r]
        /\ lapses' = lapses
    BY <1>5, Ending
  <2>2. CASE worker[w].job # q
    BY <1>1, <2>1, <2>2, RowStays
  <2>3. CASE worker[w].job = q
    <3>1. Young(q)' = Young(q) \ {w}
      BY <1>1, <2>1 DEF Young
    <3>2. CASE Store(w) \/ Hold(w)
      <4>1. ~ Open(q)'
        BY <2>3, <3>2, Ended DEF Open
      <4> QED BY <2>1, <2>3, <3>1, <4>1, NoWorse
    <3>3. CASE Requeue(w)
      <4>1. w \in Young(q)
        BY <2>3, <3>3 DEF Requeue, Young
      <4>2. /\ Cardinality(Young(q)') = Cardinality(Young(q)) - 1
            /\ Cardinality(Young(q)) \in Nat /\ Cardinality(Young(q)') \in Nat
        BY <3>1, <4>1, YoungCount, FS_RemoveElement, FS_CardinalityType
      <4>3. Ahead(q)' <= Ahead(q) /\ Ahead(q) \in Nat /\ Ahead(q)' \in Nat
        BY <4>2 DEF Ahead
      <4>4. jobs[q].attempts \in Nat /\ lapses[q] \in Nat /\ MaxAttempts \in Nat
        BY BoundAssumption DEF Typed, TypeOK, JobRow
      <4> QED BY <2>1, <2>3, <4>3, <4>4 DEF Bounded
    <3> QED BY <1>5, <3>2, <3>3
  <2> QED BY <2>2, <2>3
<1>6. ASSUME NEW r \in Request, Enqueue(r) \/ BecomesAvailable(r) PROVE Bounded(q)'
  <2>1. /\ worker' = worker /\ lapses' = lapses /\ jobs'[q].attempts = jobs[q].attempts
        /\ Open(q)' => Open(q)
    BY <1>6, Enqueueing, Due DEF Open
  <2>2. Young(q)' = Young(q)
    BY <2>1 DEF Young
  <2> QED BY <2>1, <2>2, NoWorse
<1>7. ASSUME NEW r \in Request, LeaseLapses(r) PROVE Bounded(q)'
  <2>1. CASE r # q
    BY <1>7, <2>1, Lapsing, RowStays
  <2>2. CASE r = q
    <3>1. /\ jobs'[q].attempts = jobs[q].attempts /\ lapses'[q] = lapses[q] + 1
          /\ worker' = worker
      BY <1>7, <2>2, Lapsing
    <3>2. ~ Open(q)
      BY <1>7, <2>2 DEF LeaseLapses, Open
    <3>3. Young(q)' = Young(q) /\ Cardinality(Young(q)) \in Nat
      BY <3>1, YoungCount DEF Young
    <3>4. Ahead(q)' <= Ahead(q) + 1 /\ Ahead(q) \in Nat /\ Ahead(q)' \in Nat
      BY <3>2, <3>3 DEF Ahead
    <3>5. jobs[q].attempts \in Nat /\ lapses[q] \in Nat /\ MaxAttempts \in Nat
      BY BoundAssumption DEF Typed, TypeOK, JobRow
    <3> QED BY <3>1, <3>4, <3>5 DEF Bounded
  <2> QED BY <2>1, <2>2
<1>8. ASSUME UNCHANGED <<jobs, worker, lapses>> PROVE Bounded(q)'
  BY <1>8, RowStays
<1> QED
  BY <1>2, <1>3, <1>4, <1>5, <1>6, <1>7, <1>8 DEF Next, WorkerStep, EvaluateDirectly, vars

-----------------------------------------------------------------------------
(* The theorems. *)

\* The initial states satisfy the invariant.
LEMMA InitIInv == Init => IInv
<1> SUFFICES ASSUME Init PROVE IInv
  OBVIOUS
<1> USE NoneAssumption
<1>1. TypeOK
  BY DEF Init, TypeOK, JobRow, WorkerState, Idle
<1>2. /\ \A w \in Worker : worker[w] = Idle
      /\ \A q \in Request : jobs[q] = [status |-> "absent", attempts |-> 0, lapsed |-> FALSE,
                                      delayed |-> FALSE, result |-> None]
  BY DEF Init
<1>3. Typed
  BY <1>1, <1>2, BlockedAssumption DEF Typed, AtWork, Idle
<1>4. Earned
  BY <1>2 DEF Init, Earned, Idle, Verdict
<1>5. Sole
  BY <1>2 DEF Sole, Idle
<1>6. ASSUME NEW q \in Request PROVE Bounded(q)
  <2>1. Young(q) = {}
    BY <1>2 DEF Young, Idle
  <2>2. Open(q) /\ jobs[q].attempts = 0 /\ lapses[q] = 0
    BY <1>2 DEF Open, Init
  <2>3. Ahead(q) = 1
    BY <2>1, <2>2, FS_EmptySet DEF Ahead
  <2> QED BY <2>2, <2>3, BoundAssumption DEF Bounded
<1> QED BY <1>3, <1>4, <1>5, <1>6 DEF IInv

\* In every reachable state the invariant holds.
LEMMA Invariance == Spec => []IInv
<1>1. IInv /\ [Next]_vars => IInv'
  <2> SUFFICES ASSUME IInv, [Next]_vars PROVE IInv'
    OBVIOUS
  <2>1. Typed' /\ Earned' /\ Sole'
    BY NextTyped, NextEarned, NextSole DEF IInv
  <2>2. \A q \in Request : Bounded(q)'
    BY NextBounded DEF IInv
  <2> QED BY <2>1, <2>2 DEF IInv
<1> QED BY InitIInv, <1>1, PTL DEF Spec

\* Jobs, threads and the history are what they are declared as.
THEOREM TypeCorrect == Spec => []TypeOK
<1>1. IInv => TypeOK
  BY DEF IInv, Typed
<1> QED BY Invariance, <1>1, PTL

\* Nobody is told pass of a request that is blocked, or for which the provider has
\* not said pass and nothing else.
THEOREM FailsClosed == Spec => []PassIsEarned
<1>1. IInv => PassIsEarned
  BY DEF IInv, Earned, PassIsEarned, View
<1> QED BY Invariance, <1>1, PTL

\* As long as no lease of a request was overrun, it has one thread at most.
THEOREM OneWorker == Spec => []SoleWorker
<1>1. ASSUME IInv, NEW q \in Request \ overrun
      PROVE  Cardinality({w \in Worker : worker[w].job = q}) <= 1
  <2> DEFINE W == {w \in Worker : worker[w].job = q}
  <2>1. W = {} \/ \E w : W = {w}
    BY <1>1 DEF IInv, Sole
  <2>2. Cardinality(W) = 0 \/ Cardinality(W) = 1
    BY <2>1, FS_EmptySet, FS_Singleton
  <2> QED BY <2>2
<1>2. IInv => SoleWorker
  BY <1>1 DEF IInv, Sole, SoleWorker
<1> QED BY Invariance, <1>2, PTL

\* A request is sent to the provider a bounded number of times.
THEOREM Attempts == Spec => []AttemptsBounded
<1>1. ASSUME IInv, NEW q \in Request PROVE jobs[q].attempts <= MaxAttempts + lapses[q]
  <2>1. jobs[q].attempts \in Nat /\ lapses[q] \in Nat /\ MaxAttempts \in Nat
    BY <1>1, BoundAssumption DEF IInv, Typed, TypeOK, JobRow
  <2>2. Ahead(q) \in Nat
    BY YoungCount DEF Ahead
  <2>3. Bounded(q)
    BY <1>1 DEF IInv
  <2> QED BY <2>1, <2>2, <2>3 DEF Bounded
<1>2. IInv => AttemptsBounded
  BY <1>1 DEF AttemptsBounded
<1> QED BY Invariance, <1>2, PTL

\* A verdict that a client has read stays, unless a lease was overrun.
THEOREM Finality == Spec => VerdictIsFinal
<1>1. ASSUME IInv, [Next]_vars, NEW q \in Request \ overrun, jobs[q].status = "succeeded"
      PROVE  jobs'[q] = jobs[q]
  <2>1. Typed /\ ~ jobs[q].delayed /\ \A w \in Worker : worker[w].job # q
    BY <1>1 DEF IInv, Sole
  <2>2. ASSUME NEW w \in Worker, WorkerStep(w) PROVE jobs'[q] = jobs[q]
    <3>1. CASE Store(w) \/ Hold(w) \/ Requeue(w)
      BY <2>1, <3>1, Ending
    <3>2. ASSUME NEW r \in Request, Claim(w, r) PROVE jobs'[q] = jobs[q]
      <4>1. r # q
        BY <1>1, <3>2 DEF Claim, Claimable
      <4> QED BY <2>1, <3>2, <4>1, Claiming
    <3>3. CASE RetryFails(w) \/ StoreFails(w) \/ \E a \in Answers : Evaluate(w, a) \/ ProviderFails(w, a)
      BY <3>3 DEF RetryFails, StoreFails, Evaluate, ProviderFails
    <3> QED BY <2>2, <3>1, <3>2, <3>3 DEF WorkerStep
  <2>3. ASSUME NEW r \in Request, Enqueue(r) \/ LeaseLapses(r) \/ BecomesAvailable(r)
        PROVE  jobs'[q] = jobs[q]
    <3>1. r # q
      BY <1>1, <2>1, <2>3 DEF Enqueue, LeaseLapses, BecomesAvailable
    <3> QED BY <2>1, <2>3, <3>1, Enqueueing, Lapsing, Due
  <2> QED BY <1>1, <2>2, <2>3 DEF Next, Crash, EvaluateDirectly, vars
<1>2. IInv /\ [Next]_vars =>
        [\A q \in Request \ overrun : jobs[q].status = "succeeded" => jobs'[q] = jobs[q]]_vars
  BY <1>1
<1> QED BY Invariance, <1>2, PTL DEF Spec, VerdictIsFinal

-----------------------------------------------------------------------------
(* What SettlesForGood rests on: leases lapse only so often, so that claims  *)
(* come to an end, there is always a step to take for a request without a    *)
(* verdict, and a verdict that no thread can overwrite stays.  Fairness of   *)
(* the steps does the rest.                                                  *)

\* Each attempt of request q has one lease, which lapses at most once; from
\* attempt Patience on it has the thread that claimed it, and does not lapse.
InHand(q) ==
  /\ lapses[q] <= jobs[q].attempts
  /\ jobs[q].status = "leased" /\ ~ jobs[q].lapsed => lapses[q] < jobs[q].attempts
  /\ lapses[q] = 0 \/ lapses[q] < Patience
  /\ jobs[q].status = "leased" /\ jobs[q].attempts >= Patience =>
       ~ jobs[q].lapsed /\ \E w \in Worker : Holds(w, q)

\* The thread of a lease that lapses no more has it until the row changes.
LEMMA HoldsOn ==
  ASSUME Typed, NEW q \in Request, jobs'[q].attempts = jobs[q].attempts,
         jobs[q].attempts >= Patience,
         \A v \in Worker : \/ /\ worker'[v].job = worker[v].job
                              /\ worker'[v].attempt = worker[v].attempt
                           \/ worker[v].job # q
                           \/ worker[v].attempt < Patience
  PROVE  (\E w \in Worker : Holds(w, q)) => \E w \in Worker : Holds(w, q)'
<1>1. jobs[q].attempts \in Nat /\ Patience \in Nat
  BY BoundAssumption DEF Typed, TypeOK, JobRow
<1> QED BY <1>1 DEF Holds

\* Every step keeps every request in hand.
LEMMA StaysInHand ==
  ASSUME Typed, [Next]_vars, NEW q \in Request, InHand(q)
  PROVE  InHand(q)'
<1>1. /\ jobs[q].attempts \in Nat /\ lapses[q] \in Nat /\ Patience \in Nat
      /\ \A v \in Worker : worker[v].attempt \in Nat
  BY BoundAssumption DEF Typed, TypeOK, JobRow, WorkerState
\* A step that leaves the row of q, its lapses and its live threads alone.
<1>2. ASSUME jobs'[q].status = jobs[q].status, jobs'[q].attempts = jobs[q].attempts,
             jobs'[q].lapsed = jobs[q].lapsed, lapses'[q] = lapses[q],
             \A v \in Worker : \/ /\ worker'[v].job = worker[v].job
                                  /\ worker'[v].attempt = worker[v].attempt
                               \/ worker[v].job # q
                               \/ worker[v].attempt < Patience
      PROVE  InHand(q)'
  <2>1. ASSUME jobs[q].status = "leased", jobs[q].attempts >= Patience
        PROVE  \E w \in Worker : Holds(w, q)'
    BY <1>2, <2>1, HoldsOn DEF InHand
  <2> QED BY <1>2, <2>1 DEF InHand
\* The row is written with another status.
<1>3. ASSUME jobs'[q].status # "leased", jobs'[q].attempts = jobs[q].attempts,
             lapses'[q] = lapses[q]
      PROVE  InHand(q)'
  BY <1>3 DEF InHand
<1>4. ASSUME NEW w \in Worker, NEW r \in Request, Claim(w, r) PROVE InHand(q)'
  <2>1. CASE r = q
    <3>1. Holds(w, q)'
      BY <1>4, <2>1, Claiming DEF Holds
    <3>2. jobs'[q].attempts = jobs[q].attempts + 1 /\ ~ jobs'[q].lapsed /\ lapses'[q] = lapses[q]
      BY <1>4, <2>1, Claiming
    <3> QED BY <1>1, <3>1, <3>2 DEF InHand
  <2>2. CASE r # q
    <3>1. worker[w].job # q
      BY <1>4, Claiming, NoneAssumption DEF Idle
    <3> QED BY <1>2, <1>4, <2>2, <3>1, Claiming
  <2> QED BY <2>1, <2>2
<1>5. ASSUME NEW w \in Worker,
             StoreFails(w) \/ \E a \in Answers : Evaluate(w, a) \/ ProviderFails(w, a)
      PROVE  InHand(q)'
  BY <1>2, <1>5, GoingOn
<1>6. ASSUME (\E w \in Worker : RetryFails(w)) \/ (\E s \in Server : Crash(s)) PROVE InHand(q)'
  <2>1. \A v \in Worker : worker'[v] = worker[v] \/ worker[v].attempt < Patience
    BY <1>6 DEF RetryFails, Crash, Typed, TypeOK
  <2> QED BY <1>2, <1>6, <2>1, Stopping
<1>7. ASSUME NEW w \in Worker, Store(w) \/ Hold(w) \/ Requeue(w) PROVE InHand(q)'
  <2>1. /\ \A v \in Worker \ {w} : worker'[v] = worker[v]
        /\ jobs'[worker[w].job].attempts = jobs[worker[w].job].attempts
        /\ \A r \in Request \ {worker[w].job} : jobs'[r] = jobs[r]
        /\ lapses' = lapses
    BY <1>7, Ending
  <2>2. CASE worker[w].job = q
    <3>1. jobs'[q].status # "leased"
      BY <1>7, <2>2, Ended
    <3> QED BY <1>3, <2>1, <2>2, <3>1
  <2>3. CASE worker[w].job # q
    BY <1>2, <2>1, <2>3
  <2> QED BY <2>2, <2>3
<1>8. ASSUME NEW r \in Request, Enqueue(r) PROVE InHand(q)'
  <2>1. CASE r = q
    BY <1>3, <1>8, <2>1, Enqueueing
  <2>2. CASE r # q
    BY <1>2, <1>8, <2>2, Enqueueing
  <2> QED BY <2>1, <2>2
<1>9. ASSUME NEW r \in Request, BecomesAvailable(r) PROVE InHand(q)'
  BY <1>2, <1>9, Due
<1>10. ASSUME NEW r \in Request, LeaseLapses(r) PROVE InHand(q)'
  <2>1. CASE r = q
    <3>1. jobs[q].attempts < Patience /\ lapses[q] < jobs[q].attempts
      BY <1>1, <1>10, <2>1 DEF LeaseLapses, InHand
    <3>2. /\ jobs'[q].attempts = jobs[q].attempts /\ lapses'[q] = lapses[q] + 1
          /\ jobs'[q].lapsed
      BY <1>10, <2>1, Lapsing
    <3> QED BY <1>1, <3>1, <3>2 DEF InHand
  <2>2. CASE r # q
    BY <1>2, <1>10, <2>2, Lapsing
  <2> QED BY <2>1, <2>2
<1>11. ASSUME UNCHANGED <<jobs, worker, lapses>> PROVE InHand(q)'
  BY <1>2, <1>11
<1> QED
  BY <1>4, <1>5, <1>6, <1>7, <1>8, <1>9, <1>10, <1>11 DEF Next, WorkerStep,
     EvaluateDirectly, vars

\* In every reachable state every request is in hand.
LEMMA AllInHand == Spec => [](\A q \in Request : InHand(q))
<1>1. Init => \A q \in Request : InHand(q)
  BY BoundAssumption DEF Init, InHand
<1>2. IInv /\ (\A q \in Request : InHand(q)) /\ [Next]_vars => (\A q \in Request : InHand(q))'
  BY StaysInHand DEF IInv
<1> QED BY <1>1, <1>2, Invariance, PTL DEF Spec

\* Claims come to an end: whatever crashes, stalls and late writers do, a request
\* has no more leases that lapse than attempts, nor as many as Patience, and so
\* no more than MaxAttempts + Patience attempts.
THEOREM AttemptsEnd ==
  Spec => [](\A q \in Request : lapses[q] <= jobs[q].attempts
                                /\ jobs[q].attempts <= MaxAttempts + Patience)
<1>1. ASSUME IInv, AttemptsBounded, NEW q \in Request, InHand(q)
      PROVE  lapses[q] <= jobs[q].attempts /\ jobs[q].attempts <= MaxAttempts + Patience
  BY <1>1, BoundAssumption DEF IInv, Typed, TypeOK, JobRow, AttemptsBounded, InHand
<1>2. IInv /\ AttemptsBounded /\ (\A q \in Request : InHand(q)) =>
        \A q \in Request : lapses[q] <= jobs[q].attempts
                           /\ jobs[q].attempts <= MaxAttempts + Patience
  BY <1>1
<1> QED BY <1>2, Invariance, Attempts, AllInHand, PTL

\* Thread w can take a step: an idle one while a request can be claimed, any other
\* at once, whatever the provider answers and whether attempts are left (the guards
\* of WorkerStep).
WorkerCan(w) ==
  \/ worker[w].pc = "idle" /\ \E q \in Request : Claimable(q)
  \/ worker[w].pc = "evaluating" /\ Answers # {}
  \/ worker[w].pc \in {"storing", "retrying"}

\* Time can pass for request q (the guards of LeaseLapses and BecomesAvailable).
ClockCan(q) ==
  \/ jobs[q].delayed
  \/ /\ jobs[q].status = "leased" /\ ~ jobs[q].lapsed
     /\ (\E w \in Worker : Holds(w, q)) => jobs[q].attempts < Patience

\* A request that is queued or leased, or has a thread at work on it after all,
\* is never stuck: its time can come, or it can be claimed or its thread go on,
\* or the threads are all at work and can go on.
THEOREM NoStandstill ==
  ASSUME Worker # {}, Answers # {}
  PROVE  Spec => [](\A q \in Request :
           jobs[q].status \in {"queued", "leased"} \/ (\E w \in Worker : worker[w].job = q) =>
             ClockCan(q) \/ \E w \in Worker : WorkerCan(w))
<1>1. ASSUME IInv, NEW w \in Worker, worker[w].pc # "idle" PROVE WorkerCan(w)
  BY <1>1 DEF IInv, Typed, TypeOK, WorkerState, WorkerCan
<1>2. ASSUME IInv, NEW w \in Worker, worker[w].job \in Request PROVE WorkerCan(w)
  <2>1. worker[w].pc # "idle"
    BY <1>2, NoneAssumption DEF IInv, Typed, AtWork, Idle
  <2> QED BY <1>1, <1>2, <2>1
<1>3. ASSUME IInv, NEW q \in Request, jobs[q].status \in {"queued", "leased"}
      PROVE  ClockCan(q) \/ \E w \in Worker : WorkerCan(w)
  <2>1. CASE Claimable(q)
    <3>1. PICK w \in Worker : TRUE
      OBVIOUS
    <3> QED BY <1>1, <1>3, <2>1, <3>1 DEF WorkerCan
  <2>2. CASE ~ Claimable(q) /\ jobs[q].status = "queued"
    BY <2>2 DEF Claimable, ClockCan
  <2>3. CASE ~ Claimable(q) /\ jobs[q].status = "leased"
    <3>1. (\E w \in Worker : Holds(w, q)) => \E w \in Worker : worker[w].job = q
      BY DEF Holds
    <3> QED BY <1>2, <1>3, <2>3, <3>1 DEF Claimable, ClockCan
  <2> QED BY <1>3, <2>1, <2>2, <2>3
<1>4. IInv => \A q \in Request :
        jobs[q].status \in {"queued", "leased"} \/ (\E w \in Worker : worker[w].job = q) =>
          ClockCan(q) \/ \E w \in Worker : WorkerCan(w)
  BY <1>2, <1>3
<1> QED BY <1>4, Invariance, PTL

\* The request has its verdict and no thread is at work on it any more.
Settled(q) == jobs[q].status = "succeeded" /\ \A w \in Worker : worker[w].job # q

\* A verdict stays for good from the moment on that no thread is left which could
\* write over it, overrun leases or not.
THEOREM SettledStays ==
  Spec => [][\A q \in Request : Settled(q) => Settled(q)' /\ jobs'[q].result = jobs[q].result]_vars
<1>1. ASSUME IInv, Next, NEW q \in Request, Settled(q)
      PROVE  Settled(q)' /\ jobs'[q].result = jobs[q].result
  <2>1. Typed /\ Idle.job # q
    BY <1>1, NoneAssumption DEF IInv, Idle
  <2>2. ASSUME NEW w \in Worker, NEW r \in Request, Claim(w, r)
        PROVE  Settled(q)' /\ jobs'[q].result = jobs[q].result
    <3>1. r # q
      BY <1>1, <2>2 DEF Settled, Claim, Claimable
    <3> QED BY <1>1, <2>1, <2>2, <3>1, Claiming DEF Settled
  <2>3. ASSUME NEW w \in Worker,
               StoreFails(w) \/ \E a \in Answers : Evaluate(w, a) \/ ProviderFails(w, a)
        PROVE  Settled(q)' /\ jobs'[q].result = jobs[q].result
    BY <1>1, <2>1, <2>3, GoingOn DEF Settled
  <2>4. ASSUME (\E w \in Worker : RetryFails(w)) \/ (\E s \in Server : Crash(s))
        PROVE  Settled(q)' /\ jobs'[q].result = jobs[q].result
    BY <1>1, <2>1, <2>4, Stopping DEF Settled
  <2>5. ASSUME NEW w \in Worker, Store(w) \/ Hold(w) \/ Requeue(w)
        PROVE  Settled(q)' /\ jobs'[q].result = jobs[q].result
    <3>1. worker[w].job # q
      BY <1>1 DEF Settled
    <3> QED BY <1>1, <2>1, <2>5, <3>1, Ending DEF Settled
  <2>6. ASSUME NEW r \in Request, Enqueue(r) \/ LeaseLapses(r)
        PROVE  Settled(q)' /\ jobs'[q].result = jobs[q].result
    <3>1. r # q
      BY <1>1, <2>6 DEF Settled, Enqueue, LeaseLapses
    <3> QED BY <1>1, <2>1, <2>6, <3>1, Enqueueing, Lapsing DEF Settled
  <2>7. ASSUME NEW r \in Request, BecomesAvailable(r)
        PROVE  Settled(q)' /\ jobs'[q].result = jobs[q].result
    BY <1>1, <2>1, <2>7, Due DEF Settled
  <2>8. ASSUME UNCHANGED <<jobs, worker>>
        PROVE  Settled(q)' /\ jobs'[q].result = jobs[q].result
    BY <1>1, <2>8 DEF Settled
  <2> QED
    BY <1>1, <2>2, <2>3, <2>4, <2>5, <2>6, <2>7, <2>8 DEF Next, WorkerStep, EvaluateDirectly
<1>2. IInv /\ [Next]_vars =>
        [\A q \in Request : Settled(q) => Settled(q)' /\ jobs'[q].result = jobs[q].result]_vars
  BY <1>1
<1> QED BY <1>2, Invariance, PTL DEF Spec
=============================================================================
