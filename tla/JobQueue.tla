------------------------------ MODULE JobQueue ------------------------------
(***************************************************************************)
(* The outbox and its worker jobs: knudg_enqueue_outbox_job, claim_job,    *)
(* complete_job and fail_job of migrations/0001_m0_schema.up.sql, the      *)
(* two-transaction runner of `knudgctl writer run-next` and the stale      *)
(* lease release of `knudgctl writer sweep` (scripts/knudgctl.py).         *)
(*                                                                         *)
(* A runner claims a job in one transaction and does its work and          *)
(* completes it in a second one.  When that one raises, everything it did  *)
(* is rolled back and a third one reports the failure.  Inside a           *)
(* transaction now() is the time it began, so a lease that lapses after    *)
(* the second one began does not stop it.  Runners are known to the        *)
(* database by their principal only, and several may share one.            *)
(***************************************************************************)
EXTENDS Naturals, Sequences

CONSTANTS
  Job,          \* a lane and an idempotency key: an outbox row and its job
  Runner,       \* runner processes
  Sweeper,      \* sweeper processes
  Principal,    \* worker principals
  principalOf,  \* the principal each runner authenticates as
  MaxAttempts,  \* jobs.max_attempts
  Patience,     \* bound: from this attempt on no runner crashes or stalls
  Stalls,       \* whether a lease may lapse under a runner that still lives
  NoJob         \* a runner that has no job, and a job nobody leases

ASSUME PrincipalAssumption == principalOf \in [Runner -> Principal]
ASSUME BoundAssumption ==
  MaxAttempts \in Nat \ {0} /\ Patience \in Nat /\ Stalls \in BOOLEAN
ASSUME NoJobAssumption == NoJob \notin Job \cup Principal

VARIABLES
  jobs,      \* jobs: status, attempts, leased_by, lease_expires_at, available_at
  outbox,    \* outbox_events.status
  attempts,  \* job_attempts.status of each job; attempt_number is the index
  runner,    \* what each runner process knows and is doing
  sweeping   \* the rows each sweep has read and not yet released

vars == <<jobs, outbox, attempts, runner, sweeping>>

-----------------------------------------------------------------------------

\* lapsed: lease_expires_at has passed; delayed: available_at has not come.
JobRow == [status : {"absent", "ready", "leased", "succeeded", "dead"},
           attempts : Nat, by : Principal \cup {NoJob},
           lapsed : BOOLEAN, delayed : BOOLEAN]
AttemptStatus == {"leased", "succeeded", "retry_scheduled", "dead"}
\* attempt: the one this runner claimed; late: the attempt whose lease had
\* lapsed when the runner's second transaction began, 0 if there was none.
RunnerState == [pc : {"idle", "claimed", "working", "failing"},
                job : Job \cup {NoJob}, attempt : Nat, late : Nat]

Idle == [pc |-> "idle", job |-> NoJob, attempt |-> 0, late |-> 0]

TypeOK ==
  /\ jobs \in [Job -> JobRow]
  /\ outbox \in [Job -> {"absent", "job_enqueued", "completed", "dead"}]
  /\ attempts \in [Job -> Seq(AttemptStatus)]
  /\ runner \in [Runner -> RunnerState]
  /\ \A r \in Runner : runner[r].pc # "idle" => runner[r].job \in Job
  /\ sweeping \in [Sweeper -> SUBSET (Job \X Nat)]

Init ==
  /\ jobs = [j \in Job |-> [status |-> "absent", attempts |-> 0, by |-> NoJob,
                            lapsed |-> FALSE, delayed |-> FALSE]]
  /\ outbox = [j \in Job |-> "absent"]
  /\ attempts = [j \in Job |-> <<>>]
  /\ runner = [r \in Runner |-> Idle]
  /\ sweeping = [s \in Sweeper |-> {}]

\* An outbox row of any status with the same lane and key is an early return.
Enqueue(j) ==
  /\ outbox[j] = "absent"
  /\ outbox' = [outbox EXCEPT ![j] = "job_enqueued"]
  /\ jobs' = [jobs EXCEPT ![j].status = "ready"]
  /\ UNCHANGED <<attempts, runner, sweeping>>

-----------------------------------------------------------------------------
(* A runner. *)

\* Which ready job comes first is left open: claim_job skips locked rows.
Claim(r, j) ==
  /\ runner[r].pc = "idle"
  /\ jobs[j].status = "ready" /\ ~ jobs[j].delayed
  /\ jobs' = [jobs EXCEPT ![j] =
       [@ EXCEPT !.status = "leased", !.by = principalOf[r], !.lapsed = FALSE,
                 !.attempts = jobs[j].attempts + 1]]
  /\ attempts' = [attempts EXCEPT ![j] = Append(@, "leased")]
  /\ runner' = [runner EXCEPT ![r] =
       [pc |-> "claimed", job |-> j, attempt |-> jobs[j].attempts + 1, late |-> 0]]
  /\ UNCHANGED <<outbox, sweeping>>

\* The second transaction begins: its now() is fixed here.
BeginWork(r) ==
  /\ runner[r].pc = "claimed"
  /\ LET row == jobs[runner[r].job]
     IN runner' = [runner EXCEPT ![r] =
          [@ EXCEPT !.pc = "working",
                    !.late = IF row.lapsed THEN row.attempts ELSE 0]]
  /\ UNCHANGED <<jobs, outbox, attempts, sweeping>>

\* Completes the job it once claimed in whatever state it is.
FaultyMayCompleteBlind(r) == runner[r].pc = "working"

\* complete_job's WHERE clause: it names the job and the principal, neither
\* the attempt nor the runner.
MayComplete(r) ==
  LET row == jobs[runner[r].job]
  IN /\ runner[r].pc = "working"
     /\ row.status = "leased" /\ row.by = principalOf[r]
     /\ row.attempts # runner[r].late

\* Takes the first attempt for the current one.
FaultySettleFirst(j, status, delayed, outcome) ==
  /\ jobs' = [jobs EXCEPT ![j] =
       [@ EXCEPT !.status = status, !.by = NoJob, !.lapsed = FALSE,
                 !.delayed = delayed]]
  /\ attempts' = [attempts EXCEPT ![j][1] = outcome]

\* Ends a job or its attempt: the update of the job row by complete_job,
\* fail_job or the sweeper, and of the attempt that the job row counts.
Settle(j, status, delayed, outcome) ==
  /\ jobs' = [jobs EXCEPT ![j] =
       [@ EXCEPT !.status = status, !.by = NoJob, !.lapsed = FALSE,
                 !.delayed = delayed]]
  /\ attempts' = [attempts EXCEPT ![j][jobs[j].attempts] = outcome]

Complete(r) ==
  LET j == runner[r].job
  IN /\ MayComplete(r)
     /\ Settle(j, "succeeded", FALSE, "succeeded")
     /\ outbox' = [outbox EXCEPT ![j] = "completed"]
     /\ runner' = [runner EXCEPT ![r] = Idle]
     /\ UNCHANGED sweeping

\* The work or complete_job raises: the second transaction leaves no trace.
Raise(r) ==
  /\ runner[r].pc = "working"
  /\ runner' = [runner EXCEPT ![r].pc = "failing"]
  /\ UNCHANGED <<jobs, outbox, attempts, sweeping>>

MayFail(r) ==
  LET row == jobs[runner[r].job]
  IN /\ runner[r].pc = "failing"
     /\ row.status = "leased" /\ row.by = principalOf[r] /\ ~ row.lapsed

Fail(r) ==
  LET j    == runner[r].job
      dead == jobs[j].attempts >= MaxAttempts
  IN /\ MayFail(r)
     /\ IF dead THEN /\ Settle(j, "dead", FALSE, "dead")
                     /\ outbox' = [outbox EXCEPT ![j] = "dead"]
                ELSE /\ Settle(j, "ready", TRUE, "retry_scheduled")
                     /\ UNCHANGED outbox
     /\ runner' = [runner EXCEPT ![r] = Idle]
     /\ UNCHANGED sweeping

\* fail_job finds no live lease of the principal; the error is swallowed.
FailRefused(r) ==
  /\ runner[r].pc = "failing" /\ ~ MayFail(r)
  /\ runner' = [runner EXCEPT ![r] = Idle]
  /\ UNCHANGED <<jobs, outbox, attempts, sweeping>>

\* The process dies; a transaction it had open is rolled back.
Crash(r) ==
  /\ runner[r].pc # "idle" /\ runner[r].attempt < Patience
  /\ runner' = [runner EXCEPT ![r] = Idle]
  /\ UNCHANGED <<jobs, outbox, attempts, sweeping>>

-----------------------------------------------------------------------------
(* The clock and the sweeper. *)

LeaseLapses(j) ==
  /\ jobs[j].status = "leased" /\ ~ jobs[j].lapsed /\ jobs[j].attempts < Patience
  /\ Stalls \/ \A r \in Runner :
                  ~ (runner[r].job = j /\ runner[r].attempt = jobs[j].attempts)
  /\ jobs' = [jobs EXCEPT ![j].lapsed = TRUE]
  /\ UNCHANGED <<outbox, attempts, runner, sweeping>>

BecomesAvailable(j) ==
  /\ jobs[j].delayed
  /\ jobs' = [jobs EXCEPT ![j].delayed = FALSE]
  /\ UNCHANGED <<outbox, attempts, runner, sweeping>>

\* Passes over the jobs that have no attempt left.
FaultySweepRead(s) ==
  /\ sweeping[s] = {}
  /\ LET stale == {j \in Job : /\ jobs[j].status = "leased" /\ jobs[j].lapsed
                               /\ jobs[j].attempts < MaxAttempts}
     IN /\ stale # {}
        /\ sweeping' = [sweeping EXCEPT ![s] = {<<j, jobs[j].attempts>> : j \in stale}]
  /\ UNCHANGED <<jobs, outbox, attempts, runner>>

SweepRead(s) ==
  /\ sweeping[s] = {}
  /\ LET stale == {j \in Job : jobs[j].status = "leased" /\ jobs[j].lapsed}
     IN /\ stale # {}
        /\ sweeping' = [sweeping EXCEPT ![s] = {<<j, jobs[j].attempts>> : j \in stale}]
  /\ UNCHANGED <<jobs, outbox, attempts, runner>>

\* Releases the jobs it read without looking at them again.
FaultySweepRelease(s) ==
  /\ sweeping[s] # {}
  /\ jobs' = [j \in Job |->
       IF \E row \in sweeping[s] : row[1] = j
         THEN [jobs[j] EXCEPT !.status = "ready", !.by = NoJob,
                              !.lapsed = FALSE, !.delayed = FALSE]
         ELSE jobs[j]]
  /\ attempts' = [j \in Job |-> [i \in DOMAIN attempts[j] |->
       IF <<j, i>> \in sweeping[s] /\ attempts[j][i] = "leased"
         THEN "retry_scheduled" ELSE attempts[j][i]]]
  /\ sweeping' = [sweeping EXCEPT ![s] = {}]
  /\ UNCHANGED <<outbox, runner>>

\* The sweep's transaction commits its updates.  A lease taken after the rows
\* were read ends after the sweep's now(), so only the leases it read are
\* released; the attempt row has a guard of its own.  max_attempts is not
\* looked at.
SweepRelease(s) ==
  LET released == {row \in sweeping[s] :
                     /\ jobs[row[1]].status = "leased" /\ jobs[row[1]].lapsed
                     /\ jobs[row[1]].attempts = row[2]}
  IN /\ sweeping[s] # {}
     /\ jobs' = [j \in Job |->
          IF \E row \in released : row[1] = j
            THEN [jobs[j] EXCEPT !.status = "ready", !.by = NoJob,
                                 !.lapsed = FALSE, !.delayed = FALSE]
            ELSE jobs[j]]
     /\ attempts' = [j \in Job |-> [i \in DOMAIN attempts[j] |->
          IF <<j, i>> \in sweeping[s] /\ attempts[j][i] = "leased"
            THEN "retry_scheduled" ELSE attempts[j][i]]]
     /\ sweeping' = [sweeping EXCEPT ![s] = {}]
     /\ UNCHANGED <<outbox, runner>>

-----------------------------------------------------------------------------

RunnerStep(r) ==
  \/ \E j \in Job : Claim(r, j)
  \/ BeginWork(r)
  \/ Complete(r)
  \/ Raise(r)
  \/ Fail(r)
  \/ FailRefused(r)

Sweep(s) == SweepRead(s) \/ SweepRelease(s)

Clock(j) == LeaseLapses(j) \/ BecomesAvailable(j)

Next ==
  \/ \E j \in Job : Enqueue(j) \/ Clock(j)
  \/ \E r \in Runner : RunnerStep(r) \/ Crash(r)
  \/ \E s \in Sweeper : Sweep(s)

Spec == Init /\ [][Next]_vars

\* Runners are started again and again and each one returns; an operator keeps
\* running the sweep, which nothing in the repository schedules; time passes.
Fairness ==
  /\ \A r \in Runner : WF_vars(RunnerStep(r))
  /\ \A s \in Sweeper : WF_vars(Sweep(s))
  /\ \A j \in Job : WF_vars(Clock(j))

FairSpec == Spec /\ Fairness

-----------------------------------------------------------------------------

\* The attempts of a job are its history: as many as the job row counts, every
\* one but the last given up for a retry, and the last one as the job itself.
\* No late runner and no sweep that read old rows disturbs it.
AttemptLedger ==
  \A j \in Job :
    LET n == jobs[j].attempts
    IN /\ Len(attempts[j]) = n
       /\ \A i \in 1 .. n - 1 : attempts[j][i] = "retry_scheduled"
       /\ n = 0 => jobs[j].status \in {"absent", "ready"}
       /\ n > 0 => attempts[j][n] =
            (IF jobs[j].status = "ready" THEN "retry_scheduled" ELSE jobs[j].status)

\* The outbox row tells the fate of its job.
OutboxFollowsJob ==
  \A j \in Job :
    /\ jobs[j].status = "absent" <=> outbox[j] = "absent"
    /\ jobs[j].status \in {"ready", "leased"} <=> outbox[j] = "job_enqueued"
    /\ jobs[j].status = "succeeded" <=> outbox[j] = "completed"
    /\ jobs[j].status = "dead" <=> outbox[j] = "dead"

\* A job that was completed or given up is never run, released or reported
\* again, and an attempt that has ended keeps its outcome.
SettledIsFinal ==
  [][\A j \in Job :
       /\ jobs[j].status \in {"succeeded", "dead"} =>
            jobs'[j] = jobs[j] /\ attempts'[j] = attempts[j] /\ outbox'[j] = outbox[j]
       /\ \A i \in 1 .. Len(attempts[j]) :
            attempts[j][i] # "leased" => attempts'[j][i] = attempts[j][i]]_vars

\* Every job that was enqueued is completed or given up in the end, whatever
\* crashes and stalls its first attempts met.
Settles ==
  \A j \in Job :
    outbox[j] = "job_enqueued" ~> outbox[j] \in {"completed", "dead"}
=============================================================================
