--------------------------- MODULE FinalFilterQueue ---------------------------
(***************************************************************************)
(* The final filter of scripts/knudg_closed_api.py: publication candidates *)
(* are queued under the digest of their request, API servers claim them    *)
(* under a lease, ask the model provider and store its verdict; or a       *)
(* server evaluates a request directly, without the queue.                 *)
(*                                                                         *)
(* Each statement runs in a connection of its own and is one action.       *)
(* Nothing but the job's id is in the WHERE clause of the statements that  *)
(* end an attempt, and a lapsed lease is claimed over, so a server that    *)
(* outlives its lease may still write.  lapses and overrun are history     *)
(* variables: they say when that happened.  cleared and told are, too: what *)
(* the provider has said, and what clients that did not queue were told.   *)
(***************************************************************************)
EXTENDS Naturals, FinalFilterVerdict

CONSTANTS
  Request,      \* request digests
  Blocked,      \* those in whose request a blocked pattern is found
  Server,       \* API server processes
  Keyed,        \* those with a key of the provider and queue workers
  Worker,       \* permits of the servers' semaphores, with their threads
  serverOf,     \* the server of each permit
  MaxAttempts,  \* final_filter_jobs.max_attempts
  Answers,      \* what the provider may answer
  Patience      \* bound: from this attempt on nothing crashes, stalls or loses the database

ASSUME ServerAssumption == Keyed \subseteq Server /\ serverOf \in [Worker -> Keyed]
ASSUME WorkerAssumption == IsFiniteSet(Worker)
ASSUME BlockedAssumption == Blocked \subseteq Request
ASSUME AnswerAssumption == Answers \subseteq Answer
ASSUME BoundAssumption == MaxAttempts \in Nat \ {0} /\ Patience \in Nat
ASSUME NoneAssumption == None \notin Request \cup Verdict

VARIABLES
  jobs,    \* final_filter_jobs
  worker,  \* what each permit's thread is doing
  lapses,  \* how many leases of each request have lapsed
  overrun, \* requests whose lease lapsed under a thread still at work on it
  cleared, \* requests for which the provider has said pass and nothing else
  told     \* requests that a direct evaluation has passed

vars == <<jobs, worker, lapses, overrun, cleared, told>>

\* lapsed: leased_until has passed; delayed: available_at has not come.
JobRow == [status : {"absent", "queued", "leased", "succeeded"}, attempts : Nat,
           lapsed : BOOLEAN, delayed : BOOLEAN, result : Verdict \cup {None}]
\* attempt is row["attempts"] of the row the thread was given.
WorkerState == [pc : {"idle", "evaluating", "storing", "retrying"},
                job : Request \cup {None}, attempt : Nat, verdict : Verdict \cup {None}]

Idle == [pc |-> "idle", job |-> None, attempt |-> 0, verdict |-> None]

TypeOK ==
  /\ jobs \in [Request -> JobRow]
  /\ worker \in [Worker -> WorkerState]
  /\ lapses \in [Request -> Nat]
  /\ overrun \subseteq Request
  /\ cleared \subseteq Request /\ told \subseteq Request

Init ==
  /\ jobs = [q \in Request |-> [status |-> "absent", attempts |-> 0,
                                lapsed |-> FALSE, delayed |-> FALSE, result |-> None]]
  /\ worker = [w \in Worker |-> Idle]
  /\ lapses = [q \in Request |-> 0]
  /\ overrun = {}
  /\ cleared = {}
  /\ told = {}

-----------------------------------------------------------------------------

\* A second insert starts the request afresh.
FaultyEnqueue(q) ==
  /\ jobs[q].status # "queued"
  /\ jobs' = [jobs EXCEPT ![q].status = "queued"]
  /\ UNCHANGED <<worker, lapses, overrun, cleared, told>>

\* enqueue_or_evaluate_final_filter.  A second insert of the digest changes
\* updated_at only; a blocked request is evaluated directly.
Enqueue(q) ==
  /\ jobs[q].status = "absent" /\ q \notin Blocked
  /\ jobs' = [jobs EXCEPT ![q].status = "queued"]
  /\ UNCHANGED <<worker, lapses, overrun, cleared, told>>

\* Does not look at leased_until.
FaultyClaimableLeased(q) ==
  jobs[q].status \in {"queued", "leased"} /\ ~ jobs[q].delayed

\* Leaves lapsed leases alone.
FaultyClaimableQueued(q) == jobs[q].status = "queued" /\ ~ jobs[q].delayed

Claimable(q) ==
  \/ jobs[q].status = "queued" /\ ~ jobs[q].delayed
  \/ jobs[q].status = "leased" /\ jobs[q].lapsed

\* The order of the claims is left open: locked rows are skipped.
Claim(w, q) ==
  /\ worker[w].pc = "idle"
  /\ Claimable(q)
  /\ jobs' = [jobs EXCEPT ![q] =
       [@ EXCEPT !.status = "leased", !.attempts = jobs[q].attempts + 1, !.lapsed = FALSE]]
  /\ worker' = [worker EXCEPT ![w] =
       [pc |-> "evaluating", job |-> q, attempt |-> jobs[q].attempts + 1,
        verdict |-> None]]
  /\ UNCHANGED <<lapses, overrun, cleared, told>>

Hear(q, a) == cleared' = IF SaysOnlyPass(a) THEN cleared \cup {q} ELSE cleared

\* evaluate_final_filter on a server, which changes nothing.
EvaluateDirectly(s, q, a) ==
  /\ told' = IF DirectVerdict(q \in Blocked, s \in Keyed, a) = "pass"
             THEN told \cup {q} ELSE told
  /\ IF q \in Blocked \/ s \notin Keyed THEN UNCHANGED cleared ELSE Hear(q, a)
  /\ UNCHANGED <<jobs, worker, lapses, overrun>>

QueueVerdictFor(w, a) ==
  QueueVerdict(worker[w].job \in Blocked, serverOf[w] \in Keyed, a)

Evaluate(w, a) ==
  /\ worker[w].pc = "evaluating" /\ QueueVerdictFor(w, a) # None
  /\ worker' = [worker EXCEPT ![w] =
       [@ EXCEPT !.pc = "storing", !.verdict = QueueVerdictFor(w, a)]]
  /\ Hear(worker[w].job, a)
  /\ UNCHANGED <<jobs, lapses, overrun, told>>

\* The provider is busy, down or too slow.
ProviderFails(w, a) ==
  /\ worker[w].pc = "evaluating" /\ QueueVerdictFor(w, a) = None
  /\ worker' = [worker EXCEPT ![w].pc = "retrying"]
  /\ UNCHANGED <<jobs, lapses, overrun, cleared, told>>

\* complete_final_filter_job, whatever the status of the job is by now.
Succeed(w, verdict) ==
  /\ jobs' = [jobs EXCEPT ![worker[w].job] =
       [@ EXCEPT !.status = "succeeded", !.lapsed = FALSE, !.result = verdict]]
  /\ worker' = [worker EXCEPT ![w] = Idle]
  /\ UNCHANGED <<lapses, overrun, cleared, told>>

Store(w) ==
  /\ worker[w].pc = "storing"
  /\ Succeed(w, worker[w].verdict)

\* The database refuses the update: any exception goes to retry_or_hold.
StoreFails(w) ==
  /\ worker[w].pc = "storing" /\ worker[w].attempt < Patience
  /\ worker' = [worker EXCEPT ![w].pc = "retrying"]
  /\ UNCHANGED <<jobs, lapses, overrun, cleared, told>>

\* The decision uses the attempts of the row that was claimed.
Hold(w) ==
  /\ worker[w].pc = "retrying" /\ worker[w].attempt >= MaxAttempts
  /\ Succeed(w, "hold")

\* Has no limit.
FaultyRequeue(w) ==
  /\ worker[w].pc = "retrying"
  /\ jobs' = [jobs EXCEPT ![worker[w].job] =
       [@ EXCEPT !.status = "queued", !.delayed = TRUE, !.lapsed = FALSE]]
  /\ worker' = [worker EXCEPT ![w] = Idle]
  /\ UNCHANGED <<lapses, overrun, cleared, told>>

Requeue(w) ==
  /\ worker[w].pc = "retrying" /\ worker[w].attempt < MaxAttempts
  /\ jobs' = [jobs EXCEPT ![worker[w].job] =
       [@ EXCEPT !.status = "queued", !.delayed = TRUE, !.lapsed = FALSE]]
  /\ worker' = [worker EXCEPT ![w] = Idle]
  /\ UNCHANGED <<lapses, overrun, cleared, told>>

\* The update of Hold or Requeue raises: the permit is released, the lease stays.
RetryFails(w) ==
  /\ worker[w].pc = "retrying" /\ worker[w].attempt < Patience
  /\ worker' = [worker EXCEPT ![w] = Idle]
  /\ UNCHANGED <<jobs, lapses, overrun, cleared, told>>

\* A server dies with all its threads.
Crash(s) ==
  LET threads == {w \in Worker : serverOf[w] = s /\ worker[w].pc # "idle"}
  IN /\ threads # {} /\ \A w \in threads : worker[w].attempt < Patience
     /\ worker' = [w \in Worker |-> IF w \in threads THEN Idle ELSE worker[w]]
     /\ UNCHANGED <<jobs, lapses, overrun, cleared, told>>

Holds(w, q) == worker[w].job = q /\ worker[w].attempt = jobs[q].attempts

LeaseLapses(q) ==
  LET stalled == \E w \in Worker : Holds(w, q)
  IN /\ jobs[q].status = "leased" /\ ~ jobs[q].lapsed
     /\ stalled => jobs[q].attempts < Patience
     /\ jobs' = [jobs EXCEPT ![q].lapsed = TRUE]
     /\ lapses' = [lapses EXCEPT ![q] = @ + 1]
     /\ overrun' = IF stalled THEN overrun \cup {q} ELSE overrun
     /\ UNCHANGED <<worker, cleared, told>>

BecomesAvailable(q) ==
  /\ jobs[q].delayed
  /\ jobs' = [jobs EXCEPT ![q].delayed = FALSE]
  /\ UNCHANGED <<worker, lapses, overrun, cleared, told>>

-----------------------------------------------------------------------------

WorkerStep(w) ==
  \/ \E q \in Request : Claim(w, q)
  \/ \E a \in Answers : Evaluate(w, a) \/ ProviderFails(w, a)
  \/ Store(w)
  \/ StoreFails(w)
  \/ Hold(w)
  \/ Requeue(w)
  \/ RetryFails(w)

Next ==
  \/ \E q \in Request : Enqueue(q) \/ LeaseLapses(q) \/ BecomesAvailable(q)
  \/ \E w \in Worker : WorkerStep(w)
  \/ \E s \in Server : Crash(s) \/ \E q \in Request, a \in Answers : EvaluateDirectly(s, q, a)

Spec == Init /\ [][Next]_vars

\* The scheduler thread loops for ever, threads run, the provider answers or
\* times out, and time passes.
Fairness ==
  /\ \A w \in Worker : WF_vars(WorkerStep(w))
  /\ \A q \in Request : WF_vars(LeaseLapses(q)) /\ WF_vars(BecomesAvailable(q))

FairSpec == Spec /\ Fairness

-----------------------------------------------------------------------------

\* final_filter_queue_result_response: what a client that asks for the job reads.
View(q) == IF jobs[q].status = "succeeded" THEN jobs[q].result ELSE "hold"

\* No client is told pass, by a job or by a direct evaluation, of a request that
\* is blocked or for which the provider never answered pass and nothing else:
\* whatever fails on the way fails closed.
PassIsEarned ==
  \A q \in Request : View(q) = "pass" \/ q \in told => q \in cleared \ Blocked

\* As long as no lease lapsed under a live thread, a request has one thread at
\* most, that of its last attempt, and only while it is leased: crashes,
\* retries and claims of lapsed leases never put two at the provider.
SoleWorker ==
  \A q \in Request \ overrun :
    /\ Cardinality({w \in Worker : worker[w].job = q}) <= 1
    /\ \A w \in Worker : worker[w].job = q =>
         Holds(w, q) /\ jobs[q].status = "leased" /\ ~ jobs[q].lapsed

\* A request is sent to the provider max_attempts times at most, and once more
\* for each of its leases that lapsed, overrun or not.
AttemptsBounded ==
  \A q \in Request : jobs[q].attempts <= MaxAttempts + lapses[q]

\* The verdict that a client has read stays, unless a lease was overrun.
VerdictIsFinal ==
  [][\A q \in Request \ overrun : jobs[q].status = "succeeded" => jobs'[q] = jobs[q]]_vars

\* Every queued request gets a verdict in the end, and keeps it from some time
\* on, also after late writers have put it back in the queue.
SettlesForGood ==
  \A q \in Request : jobs[q].status = "queued" ~> [](jobs[q].status = "succeeded")
=============================================================================
