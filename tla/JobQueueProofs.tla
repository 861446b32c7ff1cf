---------------------------- MODULE JobQueueProofs ----------------------------
(* Theorems about JobQueue, for every number of jobs, runners, sweepers,      *)
(* principals and attempts, and about the Writer that puts it to work.  The   *)
(* first parts use nothing of Writer: there Job is any set.                   *)
EXTENDS Writer, TLAPS

-----------------------------------------------------------------------------
(* The inductive invariant. *)

\* A sweep may sit on rows it read long ago: each names an attempt that was
\* made, and when that is still the job's lease, the lease has lapsed.
SweepsKnow ==
  \A s \in Sweeper : \A row \in sweeping[s] :
    /\ row[2] <= jobs[row[1]].attempts
    /\ jobs[row[1]].status = "leased" /\ jobs[row[1]].attempts = row[2] => jobs[row[1]].lapsed

\* Only a job that is to be tried again is put off.
OnlyReadyDelayed == \A j \in Job : jobs[j].delayed => jobs[j].status = "ready"

IInv == TypeOK /\ AttemptLedger /\ OutboxFollowsJob /\ SweepsKnow /\ OnlyReadyDelayed

-----------------------------------------------------------------------------
(* The pieces of a step. *)

\* A leased job has an attempt, and it is the one that counts.
LEMMA LeasedAttempt ==
  ASSUME TypeOK, AttemptLedger, NEW j \in Job, jobs[j].status = "leased"
  PROVE  /\ jobs[j].attempts \in 1 .. Len(attempts[j])
         /\ attempts[j][jobs[j].attempts] = "leased"
<1>1. jobs[j].attempts \in Nat /\ Len(attempts[j]) = jobs[j].attempts
  BY DEF TypeOK, JobRow, AttemptLedger
<1>2. jobs[j].attempts # 0
  BY DEF AttemptLedger
<1> QED BY <1>1, <1>2 DEF AttemptLedger

\* Of the attempts of a job only the last can be a lease, and it is the job's.
LEMMA OneLease ==
  ASSUME TypeOK, AttemptLedger, NEW j \in Job, NEW i \in 1 .. Len(attempts[j]),
         attempts[j][i] = "leased"
  PROVE  i = jobs[j].attempts /\ jobs[j].status = "leased"
<1>1. jobs[j].attempts \in Nat /\ Len(attempts[j]) = jobs[j].attempts
  BY DEF TypeOK, JobRow, AttemptLedger
<1>2. i = jobs[j].attempts
  BY <1>1 DEF AttemptLedger
<1> QED BY <1>1, <1>2 DEF AttemptLedger

\* What complete_job and fail_job do to a leased job, to its attempts, and to
\* what the sweeps know of it.
LEMMA SettleKeeps ==
  ASSUME IInv, NEW j \in Job, jobs[j].status = "leased", NEW delayed \in BOOLEAN,
         NEW status \in {"succeeded", "dead", "ready"}, NEW outcome \in AttemptStatus,
         outcome = (IF status = "ready" THEN "retry_scheduled" ELSE status),
         delayed => status = "ready",
         Settle(j, status, delayed, outcome), UNCHANGED sweeping
  PROVE  /\ jobs' \in [Job -> JobRow]
         /\ attempts' \in [Job -> Seq(AttemptStatus)]
         /\ AttemptLedger' /\ SweepsKnow' /\ OnlyReadyDelayed'
         /\ jobs'[j].status = status
         /\ \A k \in Job \ {j} : jobs'[k] = jobs[k] /\ attempts'[k] = attempts[k]
         /\ \A i \in 1 .. Len(attempts[j]) :
              attempts[j][i] # "leased" => attempts'[j][i] = attempts[j][i]
<1> DEFINE n == jobs[j].attempts
           row == [jobs[j] EXCEPT !.status = status, !.by = NoJob, !.lapsed = FALSE,
                                  !.delayed = delayed]
<1>1. n \in 1 .. Len(attempts[j]) /\ attempts[j][n] = "leased" /\ Len(attempts[j]) = n
  BY LeasedAttempt DEF IInv, AttemptLedger
<1>2. jobs[j] \in JobRow /\ attempts[j] \in Seq(AttemptStatus)
  BY DEF IInv, TypeOK
<1>3. /\ row \in JobRow
      /\ row.status = status /\ row.attempts = n /\ row.delayed = delayed
  BY <1>2 DEF JobRow
<1>4. jobs' = [jobs EXCEPT ![j] = row]
  BY DEF Settle
<1> HIDE DEF row
<1>5. /\ jobs' \in [Job -> JobRow] /\ jobs'[j] = row
      /\ \A k \in Job \ {j} : jobs'[k] = jobs[k]
  BY <1>3, <1>4 DEF IInv, TypeOK
<1>6. /\ attempts' = [attempts EXCEPT ![j] = [attempts[j] EXCEPT ![n] = outcome]]
  BY DEF Settle, IInv, TypeOK
<1>7. /\ [attempts[j] EXCEPT ![n] = outcome] \in Seq(AttemptStatus)
      /\ Len([attempts[j] EXCEPT ![n] = outcome]) = n
      /\ [attempts[j] EXCEPT ![n] = outcome][n] = outcome
      /\ \A i \in 1 .. n - 1 : [attempts[j] EXCEPT ![n] = outcome][i] = attempts[j][i]
  BY <1>1, <1>2
<1>8. /\ attempts' \in [Job -> Seq(AttemptStatus)]
      /\ Len(attempts'[j]) = n /\ attempts'[j][n] = outcome
      /\ \A i \in 1 .. n - 1 : attempts'[j][i] = attempts[j][i]
      /\ \A k \in Job \ {j} : attempts'[k] = attempts[k]
  BY <1>6, <1>7 DEF IInv, TypeOK
<1>9. AttemptLedger'
  <2>1. SUFFICES ASSUME NEW k \in Job
        PROVE /\ Len(attempts'[k]) = jobs'[k].attempts
              /\ \A i \in 1 .. jobs'[k].attempts - 1 : attempts'[k][i] = "retry_scheduled"
              /\ jobs'[k].attempts = 0 => jobs'[k].status \in {"absent", "ready"}
              /\ jobs'[k].attempts > 0 => attempts'[k][jobs'[k].attempts] =
                   (IF jobs'[k].status = "ready" THEN "retry_scheduled" ELSE jobs'[k].status)
    BY DEF AttemptLedger
  <2>2. CASE k = j
    BY <1>1, <1>3, <1>5, <1>8, <2>2 DEF IInv, AttemptLedger
  <2>3. CASE k # j
    BY <1>5, <1>8, <2>3 DEF IInv, AttemptLedger
  <2> QED BY <2>2, <2>3
<1>10. SweepsKnow'
  <2>1. SUFFICES ASSUME NEW s \in Sweeper, NEW w \in sweeping[s]
        PROVE /\ w[2] <= jobs'[w[1]].attempts
              /\ jobs'[w[1]].status = "leased" /\ jobs'[w[1]].attempts = w[2] => jobs'[w[1]].lapsed
    BY DEF SweepsKnow
  <2>2. w[1] \in Job
    BY DEF IInv, TypeOK
  <2>3. CASE w[1] = j
    BY <1>3, <1>5, <2>3 DEF IInv, SweepsKnow
  <2>4. CASE w[1] # j
    BY <1>5, <2>2, <2>4 DEF IInv, SweepsKnow
  <2> QED BY <2>3, <2>4
<1>11. OnlyReadyDelayed'
  BY <1>3, <1>5 DEF IInv, OnlyReadyDelayed
<1> QED BY <1>1, <1>3, <1>5, <1>8, <1>9, <1>10, <1>11

\* What a sweep's updates do: a job it still may release is ready again, with its
\* attempt marked, and no other job or attempt changes.
LEMMA ReleaseEffect ==
  ASSUME IInv, NEW s \in Sweeper, SweepRelease(s), NEW j \in Job
  PROVE  \/ /\ jobs'[j] = jobs[j] /\ attempts'[j] = attempts[j]
         \/ /\ jobs[j].status = "leased" /\ <<j, jobs[j].attempts>> \in sweeping[s]
            /\ jobs'[j] = [jobs[j] EXCEPT !.status = "ready", !.by = NoJob,
                                         !.lapsed = FALSE, !.delayed = FALSE]
            /\ attempts'[j] = [attempts[j] EXCEPT ![jobs[j].attempts] = "retry_scheduled"]
<1> DEFINE n == jobs[j].attempts
           Released == {row \in sweeping[s] : /\ jobs[row[1]].status = "leased" /\ jobs[row[1]].lapsed
                                              /\ jobs[row[1]].attempts = row[2]}
<1>1. attempts'[j] = [i \in DOMAIN attempts[j] |->
        IF <<j, i>> \in sweeping[s] /\ attempts[j][i] = "leased"
          THEN "retry_scheduled" ELSE attempts[j][i]]
  BY DEF SweepRelease
<1>2. jobs'[j] = IF \E row \in Released : row[1] = j
                   THEN [jobs[j] EXCEPT !.status = "ready", !.by = NoJob,
                                        !.lapsed = FALSE, !.delayed = FALSE]
                   ELSE jobs[j]
  BY DEF SweepRelease
<1>3. /\ attempts[j] \in Seq(AttemptStatus) /\ Len(attempts[j]) = n /\ n \in Nat
      /\ DOMAIN attempts[j] = 1 .. n
      /\ attempts[j] = [i \in DOMAIN attempts[j] |-> attempts[j][i]]
  BY DEF IInv, TypeOK, JobRow, AttemptLedger
<1>4. ASSUME NEW row \in Released, row[1] = j
      PROVE  jobs[j].status = "leased" /\ <<j, n>> \in sweeping[s] /\ n \in 1 .. Len(attempts[j])
  <2>1. row = <<j, n>>
    BY <1>4 DEF IInv, TypeOK
  <2> QED BY <1>4, <2>1, LeasedAttempt DEF IInv
<1>5. CASE \E row \in Released : row[1] = j
  <2>1. jobs[j].status = "leased" /\ <<j, n>> \in sweeping[s] /\ n \in 1 .. Len(attempts[j])
    BY <1>4, <1>5
  <2>2. attempts[j][n] = "leased"
    BY <2>1, LeasedAttempt DEF IInv
  <2>3. \A i \in DOMAIN attempts[j] : (<<j, i>> \in sweeping[s] /\ attempts[j][i] = "leased") <=> i = n
    BY <1>3, <2>1, <2>2, OneLease DEF IInv
  <2>4. attempts'[j] = [i \in DOMAIN attempts[j] |-> IF i = n THEN "retry_scheduled" ELSE attempts[j][i]]
    BY <1>1, <2>3
  <2>5. attempts'[j] = [attempts[j] EXCEPT ![n] = "retry_scheduled"]
    BY <1>3, <2>4
  <2> QED BY <1>2, <1>5, <2>1, <2>5
<1>6. CASE ~ \E row \in Released : row[1] = j
  <2>1. ASSUME NEW i \in DOMAIN attempts[j], <<j, i>> \in sweeping[s], attempts[j][i] = "leased"
        PROVE  FALSE
    <3>1. i = n /\ jobs[j].status = "leased"
      BY <1>3, <2>1, OneLease DEF IInv
    <3>2. jobs[j].lapsed
      BY <2>1, <3>1 DEF IInv, SweepsKnow
    <3>3. <<j, n>> \in Released
      BY <2>1, <3>1, <3>2
    <3> QED BY <1>6, <3>3
  <2>2. attempts'[j] = attempts[j]
    BY <1>1, <1>3, <2>1
  <2> QED BY <1>2, <1>6, <2>2
<1> QED BY <1>5, <1>6

-----------------------------------------------------------------------------
(* The steps. *)

\* What is to be shown of a step: the invariant stays, what is settled stays, and
\* so does an attempt that has ended.
Kept == /\ IInv'
        /\ \A j \in Job :
             /\ jobs[j].status \in {"succeeded", "dead"} =>
                  jobs'[j] = jobs[j] /\ attempts'[j] = attempts[j] /\ outbox'[j] = outbox[j]
             /\ \A i \in 1 .. Len(attempts[j]) :
                  attempts[j][i] # "leased" => attempts'[j][i] = attempts[j][i]

\* A step that releases or renews leases, but does not take one back to an attempt
\* that was read, leaves the sweeps what they know.
LEMMA SweepsStay ==
  ASSUME IInv, UNCHANGED sweeping, jobs' \in [Job -> JobRow],
         \A k \in Job :
           /\ jobs[k].attempts <= jobs'[k].attempts
           /\ jobs'[k].status = "leased" /\ jobs'[k].attempts = jobs[k].attempts =>
                jobs[k].status = "leased" /\ (jobs[k].lapsed => jobs'[k].lapsed)
  PROVE  SweepsKnow'
<1>1. SUFFICES ASSUME NEW s \in Sweeper, NEW w \in sweeping[s]
      PROVE /\ w[2] <= jobs'[w[1]].attempts
            /\ jobs'[w[1]].status = "leased" /\ jobs'[w[1]].attempts = w[2] => jobs'[w[1]].lapsed
  BY DEF SweepsKnow
<1> DEFINE k == w[1]
<1>2. k \in Job /\ w[2] \in Nat /\ w[2] <= jobs[k].attempts
  BY DEF IInv, TypeOK, SweepsKnow
<1>3. jobs[k].attempts \in Nat /\ jobs'[k].attempts \in Nat
  BY <1>2 DEF IInv, TypeOK, JobRow
<1>4. jobs[k].status = "leased" /\ jobs[k].attempts = w[2] => jobs[k].lapsed
  BY DEF IInv, SweepsKnow
<1> HIDE DEF k
<1>5. /\ w[2] <= jobs'[k].attempts
      /\ jobs'[k].status = "leased" /\ jobs'[k].attempts = w[2] => jobs'[k].lapsed
  BY <1>2, <1>3, <1>4
<1> QED BY <1>5 DEF k

\* The steps of a runner outside the database change nothing that is kept there.
LEMMA RunnerOnly ==
  ASSUME IInv, NEW r \in Runner, NEW q \in RunnerState, q.pc # "idle" => q.job \in Job,
         runner' = [runner EXCEPT ![r] = q], UNCHANGED <<jobs, outbox, attempts, sweeping>>
  PROVE  Kept
<1>1. TypeOK'
  BY DEF IInv, TypeOK
<1> QED
  BY <1>1 DEF IInv, Kept, AttemptLedger, OutboxFollowsJob, SweepsKnow, OnlyReadyDelayed

\* Enqueuing finds no outbox row, so there is no job and no attempt either.
LEMMA EnqueueKeeps == ASSUME IInv, NEW j \in Job, Enqueue(j) PROVE Kept
<1> DEFINE row == [jobs[j] EXCEPT !.status = "ready"]
<1>1. jobs[j].status = "absent" /\ outbox[j] = "absent"
  BY DEF Enqueue, IInv, OutboxFollowsJob
<1>2. /\ row \in JobRow /\ row.status = "ready" /\ row.attempts = jobs[j].attempts
      /\ row.delayed = jobs[j].delayed /\ jobs[j].attempts \in Nat
  BY DEF IInv, TypeOK, JobRow
<1>3. jobs' = [jobs EXCEPT ![j] = row]
  BY DEF Enqueue
<1> HIDE DEF row
<1>4. jobs'[j] = row /\ \A k \in Job \ {j} : jobs'[k] = jobs[k]
  BY <1>3 DEF IInv, TypeOK
<1>5. /\ outbox'[j] = "job_enqueued" /\ \A k \in Job \ {j} : outbox'[k] = outbox[k]
      /\ UNCHANGED <<attempts, runner, sweeping>>
  BY DEF Enqueue, IInv, TypeOK
<1>6. TypeOK'
  BY <1>2, <1>3 DEF Enqueue, IInv, TypeOK
<1>7. jobs[j].attempts = 0
  <2>1. SUFFICES ASSUME jobs[j].attempts > 0 PROVE FALSE
    BY <1>2
  <2>2. jobs[j].attempts \in 1 .. Len(attempts[j]) /\ attempts[j][jobs[j].attempts] = "absent"
    BY <1>1, <1>2, <2>1 DEF IInv, AttemptLedger
  <2>3. attempts[j] \in Seq(AttemptStatus)
    BY DEF IInv, TypeOK
  <2>4. attempts[j][jobs[j].attempts] \in AttemptStatus
    BY <2>2, <2>3
  <2> QED BY <2>2, <2>4 DEF AttemptStatus
<1>8. AttemptLedger'
  BY <1>2, <1>4, <1>5, <1>7 DEF IInv, AttemptLedger
<1>9. OutboxFollowsJob'
  BY <1>2, <1>4, <1>5 DEF IInv, OutboxFollowsJob
<1>10. SweepsKnow'
  <2>1. \A k \in Job : jobs[k].attempts \in Nat
    BY DEF IInv, TypeOK, JobRow
  <2>2. \A k \in Job : jobs'[k].attempts = jobs[k].attempts /\ (jobs'[k].status = "leased" => k # j)
    BY <1>2, <1>4
  <2> QED BY <1>4, <1>5, <1>6, <2>1, <2>2, SweepsStay DEF TypeOK
<1>11. OnlyReadyDelayed'
  BY <1>1, <1>2, <1>4, <1>5 DEF IInv, OnlyReadyDelayed
<1> QED BY <1>1, <1>4, <1>5, <1>6, <1>8, <1>9, <1>10, <1>11 DEF IInv, Kept

\* A claim takes the job to an attempt that no sweep has read.
LEMMA ClaimKeeps == ASSUME IInv, NEW r \in Runner, NEW j \in Job, Claim(r, j) PROVE Kept
<1> DEFINE n == jobs[j].attempts
           m == n + 1
           row == [jobs[j] EXCEPT !.status = "leased", !.by = principalOf[r], !.lapsed = FALSE,
                                  !.attempts = m]
<1>1. /\ jobs[j].status = "ready" /\ ~ jobs[j].delayed
      /\ n \in Nat /\ m \in Nat /\ m = n + 1 /\ jobs[j] \in JobRow
  BY DEF Claim, IInv, TypeOK, JobRow
<1>2. /\ row \in JobRow /\ row.status = "leased" /\ row.attempts = n + 1
      /\ row.delayed = jobs[j].delayed
  <2>1. principalOf[r] \in Principal
    BY PrincipalAssumption
  <2> HIDE DEF n, m
  <2> QED BY <1>1, <2>1 DEF JobRow
<1>3. jobs' = [jobs EXCEPT ![j] = row]
  BY DEF Claim
<1>4. attempts[j] \in Seq(AttemptStatus) /\ "leased" \in AttemptStatus /\ Len(attempts[j]) = n
  BY DEF IInv, TypeOK, AttemptStatus, AttemptLedger
<1> HIDE DEF row
<1>5. jobs'[j] = row /\ \A k \in Job \ {j} : jobs'[k] = jobs[k]
  BY <1>3 DEF IInv, TypeOK
<1>6. /\ attempts'[j] = Append(attempts[j], "leased")
      /\ \A k \in Job \ {j} : attempts'[k] = attempts[k]
      /\ UNCHANGED <<outbox, sweeping>>
  BY DEF Claim, IInv, TypeOK
<1>7. /\ attempts'[j] \in Seq(AttemptStatus) /\ Len(attempts'[j]) = n + 1
      /\ attempts'[j][n + 1] = "leased"
      /\ \A i \in 1 .. n : attempts'[j][i] = attempts[j][i]
  BY <1>1, <1>4, <1>6
<1>8. TypeOK'
  <2>1. jobs' \in [Job -> JobRow]
    BY <1>2, <1>3 DEF IInv, TypeOK
  <2>2. attempts' \in [Job -> Seq(AttemptStatus)]
    BY <1>6, <1>7 DEF Claim, IInv, TypeOK
  <2>3. /\ runner' \in [Runner -> RunnerState]
        /\ \A q \in Runner : runner'[q].pc # "idle" => runner'[q].job \in Job
    BY <1>1 DEF Claim, IInv, TypeOK, RunnerState
  <2> QED BY <1>6, <2>1, <2>2, <2>3 DEF IInv, TypeOK
<1>9. AttemptLedger'
  <2>1. SUFFICES ASSUME NEW k \in Job
        PROVE /\ Len(attempts'[k]) = jobs'[k].attempts
              /\ \A i \in 1 .. jobs'[k].attempts - 1 : attempts'[k][i] = "retry_scheduled"
              /\ jobs'[k].attempts = 0 => jobs'[k].status \in {"absent", "ready"}
              /\ jobs'[k].attempts > 0 => attempts'[k][jobs'[k].attempts] =
                   (IF jobs'[k].status = "ready" THEN "retry_scheduled" ELSE jobs'[k].status)
    BY DEF AttemptLedger
  <2>2. CASE k = j
    <3>1. \A i \in 1 .. n : attempts[j][i] = "retry_scheduled"
      BY <1>1 DEF IInv, AttemptLedger
    <3>2. jobs'[k].attempts = n + 1 /\ jobs'[k].status = "leased"
      BY <1>2, <1>5, <2>2
    <3>3. n + 1 > 0 /\ (n + 1) - 1 = n /\ n + 1 # 0
      BY <1>1
    <3> QED BY <1>7, <2>2, <3>1, <3>2, <3>3
  <2>3. CASE k # j
    BY <1>5, <1>6, <2>3 DEF IInv, AttemptLedger
  <2> QED BY <2>2, <2>3
<1>10. OutboxFollowsJob'
  BY <1>1, <1>2, <1>5, <1>6 DEF IInv, OutboxFollowsJob
<1>11. SweepsKnow' /\ OnlyReadyDelayed'
  <2>1. \A k \in Job : jobs[k].attempts \in Nat
    BY DEF IInv, TypeOK, JobRow
  <2>2. SweepsKnow'
    BY <1>2, <1>3, <1>5, <1>6, <1>8, <2>1, SweepsStay DEF TypeOK
  <2> QED BY <1>1, <1>2, <1>5, <2>2 DEF IInv, OnlyReadyDelayed
<1> QED
  BY <1>1, <1>4, <1>5, <1>6, <1>7, <1>8, <1>9, <1>10, <1>11 DEF IInv, Kept

\* The beginning of the second transaction is known to its runner only.
LEMMA BeginWorkKeeps == ASSUME IInv, NEW r \in Runner, BeginWork(r) PROVE Kept
<1> DEFINE row == jobs[runner[r].job]
           q == [runner[r] EXCEPT !.pc = "working", !.late = IF row.lapsed THEN row.attempts ELSE 0]
<1>1. runner[r] \in RunnerState /\ runner[r].job \in Job
  BY DEF BeginWork, IInv, TypeOK
<1>2. row.attempts \in Nat
  BY <1>1 DEF IInv, TypeOK, JobRow
<1>3. q \in RunnerState /\ q.job \in Job
  BY <1>1, <1>2 DEF RunnerState
<1>4. runner' = [runner EXCEPT ![r] = q] /\ UNCHANGED <<jobs, outbox, attempts, sweeping>>
  BY DEF BeginWork
<1> HIDE DEF q
<1> QED BY <1>3, <1>4, RunnerOnly

\* A runner that raises, gives up or dies leaves nothing in the tables.
LEMMA EndsKeep ==
  ASSUME IInv, NEW r \in Runner, Raise(r) \/ FailRefused(r) \/ Crash(r)
  PROVE  Kept
<1>1. CASE Raise(r)
  <2> DEFINE q == [runner[r] EXCEPT !.pc = "failing"]
  <2>1. q \in RunnerState /\ q.job \in Job
    BY <1>1 DEF Raise, IInv, TypeOK, RunnerState
  <2>2. runner' = [runner EXCEPT ![r] = q] /\ UNCHANGED <<jobs, outbox, attempts, sweeping>>
    BY <1>1 DEF Raise
  <2> HIDE DEF q
  <2> QED BY <2>1, <2>2, RunnerOnly
<1>2. CASE FailRefused(r) \/ Crash(r)
  <2>1. Idle \in RunnerState /\ Idle.pc = "idle"
    BY DEF Idle, RunnerState
  <2>2. runner' = [runner EXCEPT ![r] = Idle] /\ UNCHANGED <<jobs, outbox, attempts, sweeping>>
    BY <1>2 DEF FailRefused, Crash
  <2> QED BY <2>1, <2>2, RunnerOnly
<1> QED BY <1>1, <1>2

\* complete_job ends the attempt that counts, whoever made it.
LEMMA CompleteKeeps == ASSUME IInv, NEW r \in Runner, Complete(r) PROVE Kept
<1> DEFINE j == runner[r].job
<1>1. j \in Job /\ jobs[j].status = "leased"
  BY DEF Complete, MayComplete, IInv, TypeOK
<1>2. /\ Settle(j, "succeeded", FALSE, "succeeded") /\ UNCHANGED sweeping
      /\ outbox' = [outbox EXCEPT ![j] = "completed"] /\ runner' = [runner EXCEPT ![r] = Idle]
  BY DEF Complete
<1> HIDE DEF j
<1>3. /\ jobs' \in [Job -> JobRow] /\ attempts' \in [Job -> Seq(AttemptStatus)]
      /\ AttemptLedger' /\ SweepsKnow' /\ OnlyReadyDelayed'
      /\ jobs'[j].status = "succeeded"
      /\ \A k \in Job \ {j} : jobs'[k] = jobs[k] /\ attempts'[k] = attempts[k]
      /\ \A i \in 1 .. Len(attempts[j]) :
           attempts[j][i] # "leased" => attempts'[j][i] = attempts[j][i]
  BY <1>1, <1>2, SettleKeeps DEF AttemptStatus
<1>4. outbox'[j] = "completed" /\ \A k \in Job \ {j} : outbox'[k] = outbox[k]
  BY <1>1, <1>2 DEF IInv, TypeOK
<1>5. OutboxFollowsJob'
  BY <1>3, <1>4 DEF IInv, OutboxFollowsJob
<1>6. TypeOK'
  BY <1>2, <1>3 DEF IInv, TypeOK, Idle, RunnerState
<1> QED BY <1>1, <1>3, <1>4, <1>5, <1>6 DEF IInv, Kept

\* fail_job ends it too, for a retry or for good.
LEMMA FailKeeps == ASSUME IInv, NEW r \in Runner, Fail(r) PROVE Kept
<1> DEFINE j == runner[r].job
<1>1. j \in Job /\ jobs[j].status = "leased"
  BY DEF Fail, MayFail, IInv, TypeOK
<1>2. /\ \/ Settle(j, "dead", FALSE, "dead") /\ outbox' = [outbox EXCEPT ![j] = "dead"]
         \/ Settle(j, "ready", TRUE, "retry_scheduled") /\ UNCHANGED outbox
      /\ UNCHANGED sweeping /\ runner' = [runner EXCEPT ![r] = Idle]
  BY DEF Fail
<1> HIDE DEF j
<1>3. ASSUME NEW status \in {"dead", "ready"}, NEW delayed \in BOOLEAN, NEW outcome \in AttemptStatus,
             outcome = (IF status = "ready" THEN "retry_scheduled" ELSE status),
             delayed => status = "ready", Settle(j, status, delayed, outcome),
             outbox' = [outbox EXCEPT ![j] = IF status = "ready" THEN "job_enqueued" ELSE "dead"]
      PROVE  Kept
  <2>1. /\ jobs' \in [Job -> JobRow] /\ attempts' \in [Job -> Seq(AttemptStatus)]
        /\ AttemptLedger' /\ SweepsKnow' /\ OnlyReadyDelayed'
        /\ jobs'[j].status = status
        /\ \A k \in Job \ {j} : jobs'[k] = jobs[k] /\ attempts'[k] = attempts[k]
        /\ \A i \in 1 .. Len(attempts[j]) :
             attempts[j][i] # "leased" => attempts'[j][i] = attempts[j][i]
    BY <1>1, <1>2, <1>3, SettleKeeps
  <2>2. /\ outbox'[j] = (IF status = "ready" THEN "job_enqueued" ELSE "dead")
        /\ \A k \in Job \ {j} : outbox'[k] = outbox[k]
    BY <1>1, <1>3 DEF IInv, TypeOK
  <2>3. OutboxFollowsJob'
    BY <2>1, <2>2 DEF IInv, OutboxFollowsJob
  <2>4. TypeOK'
    BY <1>2, <1>3, <2>1 DEF IInv, TypeOK, Idle, RunnerState
  <2> QED BY <1>1, <2>1, <2>2, <2>3, <2>4 DEF IInv, Kept
<1>4. outbox[j] = "job_enqueued"
  BY <1>1 DEF IInv, OutboxFollowsJob
<1>5. UNCHANGED outbox => outbox' = [outbox EXCEPT ![j] = "job_enqueued"]
  BY <1>4 DEF IInv, TypeOK
<1> QED BY <1>2, <1>3, <1>5 DEF AttemptStatus

\* A lease that lapses stays the lease it was; a delay ends on a ready job only.
LEMMA ClockKeeps == ASSUME IInv, NEW j \in Job, Clock(j) PROVE Kept
<1> DEFINE lapsed == [jobs[j] EXCEPT !.lapsed = TRUE]
           ready == [jobs[j] EXCEPT !.delayed = FALSE]
<1>1. /\ UNCHANGED <<outbox, attempts, runner, sweeping>>
      /\ \/ jobs' = [jobs EXCEPT ![j] = lapsed]
         \/ jobs' = [jobs EXCEPT ![j] = ready]
  BY DEF Clock, LeaseLapses, BecomesAvailable
<1>2. /\ jobs' \in [Job -> JobRow] /\ \A k \in Job \ {j} : jobs'[k] = jobs[k]
      /\ jobs'[j].status = jobs[j].status /\ jobs'[j].attempts = jobs[j].attempts
      /\ jobs[j].lapsed => jobs'[j].lapsed
      /\ jobs'[j].delayed => jobs[j].delayed
  <2>1. jobs[j] \in JobRow
    BY DEF IInv, TypeOK
  <2>2. /\ lapsed \in JobRow /\ lapsed.status = jobs[j].status
        /\ lapsed.attempts = jobs[j].attempts /\ lapsed.lapsed /\ lapsed.delayed = jobs[j].delayed
    BY <2>1 DEF JobRow
  <2>3. /\ ready \in JobRow /\ ready.status = jobs[j].status
        /\ ready.attempts = jobs[j].attempts /\ ready.lapsed = jobs[j].lapsed /\ ~ ready.delayed
    BY <2>1 DEF JobRow
  <2> HIDE DEF lapsed, ready
  <2> QED BY <1>1, <2>2, <2>3 DEF IInv, TypeOK
<1>3. jobs[j].status \notin {"succeeded", "dead"}
  BY DEF Clock, LeaseLapses, BecomesAvailable, IInv, OnlyReadyDelayed
<1>4. TypeOK'
  BY <1>1, <1>2 DEF IInv, TypeOK
<1>5. AttemptLedger' /\ OutboxFollowsJob'
  BY <1>1, <1>2 DEF IInv, AttemptLedger, OutboxFollowsJob
<1>6. SweepsKnow' /\ OnlyReadyDelayed'
  <2>1. \A k \in Job : jobs[k].attempts \in Nat
    BY DEF IInv, TypeOK, JobRow
  <2>2. SweepsKnow'
    BY <1>1, <1>2, <2>1, SweepsStay
  <2> QED BY <1>2, <2>2 DEF IInv, OnlyReadyDelayed
<1> QED BY <1>1, <1>2, <1>3, <1>4, <1>5, <1>6 DEF IInv, Kept

\* What a sweep reads has lapsed.
LEMMA SweepReadKeeps == ASSUME IInv, NEW s \in Sweeper, SweepRead(s) PROVE Kept
<1> DEFINE stale == {j \in Job : jobs[j].status = "leased" /\ jobs[j].lapsed}
           rows == {<<j, jobs[j].attempts>> : j \in stale}
<1>1. /\ sweeping' = [sweeping EXCEPT ![s] = rows] /\ UNCHANGED <<jobs, outbox, attempts, runner>>
  BY DEF SweepRead
<1>2. rows \in SUBSET (Job \X Nat)
  BY DEF IInv, TypeOK, JobRow
<1>3. \A row \in rows : row[2] <= jobs[row[1]].attempts /\ jobs[row[1]].lapsed
  BY DEF IInv, TypeOK, JobRow
<1> HIDE DEF rows
<1>4. sweeping'[s] = rows /\ \A t \in Sweeper \ {s} : sweeping'[t] = sweeping[t]
  BY <1>1 DEF IInv, TypeOK
<1>5. TypeOK'
  BY <1>1, <1>2 DEF IInv, TypeOK
<1>6. SweepsKnow'
  BY <1>1, <1>3, <1>4 DEF IInv, SweepsKnow
<1> QED
  BY <1>1, <1>5, <1>6 DEF IInv, Kept, AttemptLedger, OutboxFollowsJob, OnlyReadyDelayed

\* What a sweep releases is what it read, and its attempt is marked with it.
LEMMA SweepReleaseKeeps == ASSUME IInv, NEW s \in Sweeper, SweepRelease(s) PROVE Kept
<1> DEFINE Released(j) == jobs[j].status = "leased" /\ jobs'[j] # jobs[j]
<1>1. ASSUME NEW j \in Job
      PROVE  /\ jobs'[j] \in JobRow /\ attempts'[j] \in Seq(AttemptStatus)
             /\ jobs'[j].attempts = jobs[j].attempts /\ Len(attempts'[j]) = Len(attempts[j])
             /\ \/ jobs'[j] = jobs[j] /\ attempts'[j] = attempts[j]
                \/ /\ jobs[j].status = "leased" /\ jobs'[j].status = "ready" /\ ~ jobs'[j].delayed
                   /\ attempts'[j][jobs[j].attempts] = "retry_scheduled"
                   /\ \A i \in 1 .. jobs[j].attempts - 1 : attempts'[j][i] = attempts[j][i]
  <2>1. jobs[j] \in JobRow /\ attempts[j] \in Seq(AttemptStatus)
    BY DEF IInv, TypeOK
  <2>2. jobs[j].status = "leased" => jobs[j].attempts \in 1 .. Len(attempts[j])
    BY LeasedAttempt DEF IInv
  <2>3. CASE jobs'[j] = jobs[j] /\ attempts'[j] = attempts[j]
    BY <2>1, <2>3
  <2>4. CASE /\ jobs[j].status = "leased"
             /\ jobs'[j] = [jobs[j] EXCEPT !.status = "ready", !.by = NoJob,
                                          !.lapsed = FALSE, !.delayed = FALSE]
             /\ attempts'[j] = [attempts[j] EXCEPT ![jobs[j].attempts] = "retry_scheduled"]
    <3>1. /\ jobs'[j] \in JobRow /\ jobs'[j].attempts = jobs[j].attempts
          /\ jobs'[j].status = "ready" /\ ~ jobs'[j].delayed
      BY <2>1, <2>4 DEF JobRow
    <3>2. /\ attempts'[j] \in Seq(AttemptStatus) /\ Len(attempts'[j]) = Len(attempts[j])
          /\ attempts'[j][jobs[j].attempts] = "retry_scheduled"
      BY <2>1, <2>2, <2>4 DEF AttemptStatus
    <3>3. \A i \in 1 .. jobs[j].attempts - 1 : attempts'[j][i] = attempts[j][i]
      BY <2>1, <2>2, <2>4
    <3> QED BY <2>4, <3>1, <3>2, <3>3
  <2> QED BY <2>3, <2>4, ReleaseEffect
<1>2. /\ UNCHANGED <<outbox, runner>> /\ DOMAIN jobs' = Job /\ DOMAIN attempts' = Job
      /\ jobs' = [j \in Job |-> jobs'[j]] /\ attempts' = [j \in Job |-> attempts'[j]]
      /\ sweeping' \in [Sweeper -> SUBSET (Job \X Nat)]
      /\ \A t \in Sweeper : sweeping'[t] \subseteq sweeping[t]
  BY DEF SweepRelease, IInv, TypeOK
<1>3. TypeOK'
  <2>1. jobs' \in [Job -> JobRow] /\ attempts' \in [Job -> Seq(AttemptStatus)]
    BY <1>1, <1>2
  <2> QED BY <1>2, <2>1 DEF IInv, TypeOK
<1>4. AttemptLedger'
  <2>1. SUFFICES ASSUME NEW k \in Job
        PROVE /\ Len(attempts'[k]) = jobs'[k].attempts
              /\ \A i \in 1 .. jobs'[k].attempts - 1 : attempts'[k][i] = "retry_scheduled"
              /\ jobs'[k].attempts = 0 => jobs'[k].status \in {"absent", "ready"}
              /\ jobs'[k].attempts > 0 => attempts'[k][jobs'[k].attempts] =
                   (IF jobs'[k].status = "ready" THEN "retry_scheduled" ELSE jobs'[k].status)
    BY DEF AttemptLedger
  <2> QED BY <1>1 DEF IInv, AttemptLedger
<1>5. OutboxFollowsJob' /\ OnlyReadyDelayed'
  BY <1>1, <1>2 DEF IInv, OutboxFollowsJob, OnlyReadyDelayed
<1>6. SweepsKnow'
  <2>1. SUFFICES ASSUME NEW t \in Sweeper, NEW w \in sweeping[t]
        PROVE /\ w[2] <= jobs'[w[1]].attempts
              /\ jobs'[w[1]].status = "leased" /\ jobs'[w[1]].attempts = w[2] => jobs'[w[1]].lapsed
    BY <1>2 DEF SweepsKnow
  <2>2. w[1] \in Job
    BY DEF IInv, TypeOK
  <2> QED BY <1>1, <2>2 DEF IInv, SweepsKnow
<1>7. \A j \in Job : jobs[j].status \in {"succeeded", "dead"} =>
        jobs'[j] = jobs[j] /\ attempts'[j] = attempts[j] /\ outbox'[j] = outbox[j]
  BY <1>1, <1>2
<1>8. ASSUME NEW j \in Job, NEW i \in 1 .. Len(attempts[j]), attempts[j][i] # "leased"
      PROVE  attempts'[j][i] = attempts[j][i]
  <2>1. jobs[j].attempts \in Nat /\ Len(attempts[j]) = jobs[j].attempts
    BY DEF IInv, TypeOK, JobRow, AttemptLedger
  <2>2. jobs[j].status = "leased" => i # jobs[j].attempts
    BY <1>8, LeasedAttempt DEF IInv
  <2> QED BY <1>1, <2>1, <2>2
<1> QED BY <1>3, <1>4, <1>5, <1>6, <1>7, <1>8 DEF IInv, Kept

-----------------------------------------------------------------------------
(* The theorems. *)

\* Every step keeps the invariant, what is settled and the attempts that ended.
LEMMA NextKeeps == IInv /\ [Next]_vars => Kept
<1>1. ASSUME IInv, UNCHANGED vars PROVE Kept
  BY <1>1 DEF vars, IInv, Kept, TypeOK, AttemptLedger, OutboxFollowsJob, SweepsKnow, OnlyReadyDelayed
<1> QED
  BY <1>1, EnqueueKeeps, ClaimKeeps, BeginWorkKeeps, EndsKeep, CompleteKeeps, FailKeeps,
     ClockKeeps, SweepReadKeeps, SweepReleaseKeeps DEF Next, RunnerStep, Sweep

\* An empty queue satisfies the invariant.
LEMMA InitIInv == Init => IInv
<1> SUFFICES ASSUME Init PROVE IInv
  OBVIOUS
<1>1. TypeOK
  BY DEF Init, TypeOK, JobRow, RunnerState, Idle
<1>2. AttemptLedger /\ OutboxFollowsJob /\ SweepsKnow /\ OnlyReadyDelayed
  BY DEF Init, AttemptLedger, OutboxFollowsJob, SweepsKnow, OnlyReadyDelayed
<1> QED BY <1>1, <1>2 DEF IInv

\* In every reachable state the invariant holds.
LEMMA Invariance == Spec => []IInv
<1>1. Init => IInv
  BY InitIInv
<1>2. IInv /\ [Next]_vars => IInv'
  BY NextKeeps DEF Kept
<1> QED BY <1>1, <1>2, PTL DEF Spec

\* Jobs, outbox rows, attempts, runners and sweeps are what they are declared as.
THEOREM TypeCorrect == Spec => []TypeOK
<1>1. IInv => TypeOK
  BY DEF IInv
<1> QED BY Invariance, <1>1, PTL

\* The attempts of a job are its history, whatever late runners and sweeps do.
THEOREM LedgerOfAttempts == Spec => []AttemptLedger
<1>1. IInv => AttemptLedger
  BY DEF IInv
<1> QED BY Invariance, <1>1, PTL

\* The outbox row tells the fate of its job.
THEOREM OutboxTells == Spec => []OutboxFollowsJob
<1>1. IInv => OutboxFollowsJob
  BY DEF IInv
<1> QED BY Invariance, <1>1, PTL

\* A settled job and an attempt that has ended stay as they are.
THEOREM Finality == Spec => SettledIsFinal
<1>1. IInv /\ [Next]_vars =>
        [\A j \in Job :
           /\ jobs[j].status \in {"succeeded", "dead"} =>
                jobs'[j] = jobs[j] /\ attempts'[j] = attempts[j] /\ outbox'[j] = outbox[j]
           /\ \A i \in 1 .. Len(attempts[j]) :
                attempts[j][i] # "leased" => attempts'[j][i] = attempts[j][i]]_vars
  BY NextKeeps DEF Kept
<1> QED BY Invariance, <1>1, PTL DEF Spec, SettledIsFinal

-----------------------------------------------------------------------------
(* What Settles rests on: a job has only so many attempts, the last ones are *)
(* attended by the runner that claimed them, and there is always a step to   *)
(* take for a job that is not settled.  Fairness of the steps does the rest. *)

\* The attempts a job can have: its max_attempts, or as many as leases lapse.
Most == IF MaxAttempts > Patience THEN MaxAttempts ELSE Patience

\* Runner r is at work on the attempt of job j that counts.
Attends(r, j) ==
  /\ runner[r].pc # "idle" /\ runner[r].job = j
  /\ runner[r].attempt = jobs[j].attempts /\ principalOf[r] = jobs[j].by

\* Job j has attempts left while it waits for one, and a lease that can no more
\* lapse is attended.
InHand(j) ==
  /\ jobs[j].attempts <= Most
  /\ jobs[j].status \in {"absent", "ready"} => jobs[j].attempts < Most
  /\ jobs[j].status = "leased" /\ jobs[j].attempts >= Patience =>
       ~ jobs[j].lapsed /\ \E r \in Runner : Attends(r, j)

\* A runner claims job j: it is a new attempt, and attended.
Taken(j) ==
  /\ jobs[j].status = "ready" /\ jobs'[j].status = "leased"
  /\ jobs'[j].attempts = jobs[j].attempts + 1 /\ ~ jobs'[j].lapsed
  /\ \E r \in Runner : Attends(r, j)'

\* Job j is put back for another attempt, by its runner while max_attempts
\* leaves one, or by a sweep after the lease has lapsed.
GivenBack(j) ==
  /\ jobs[j].status = "leased" /\ jobs'[j].status = "ready"
  /\ jobs'[j].attempts = jobs[j].attempts
  /\ jobs[j].attempts < MaxAttempts \/ jobs[j].lapsed

\* The lease of job j lapses.
Expires(j) ==
  /\ jobs[j].status = "leased" /\ jobs[j].attempts < Patience
  /\ jobs'[j].status = "leased" /\ jobs'[j].attempts = jobs[j].attempts

\* Nothing happens to job j, but that it may be tried at once.
Rests(j) ==
  /\ jobs'[j].status = jobs[j].status /\ jobs'[j].attempts = jobs[j].attempts
  /\ jobs'[j].by = jobs[j].by /\ jobs'[j].lapsed = jobs[j].lapsed

\* What a step may make of job j.
Course(j) ==
  \/ Rests(j) \/ Taken(j) \/ GivenBack(j) \/ Expires(j)
  \/ /\ jobs[j].status = "absent" /\ jobs'[j].status = "ready"
     /\ jobs'[j].attempts = jobs[j].attempts
  \/ /\ jobs[j].status = "leased" /\ jobs'[j].status \in {"succeeded", "dead"}
     /\ jobs'[j].attempts = jobs[j].attempts

\* What an update of one job row makes of the jobs.
LEMMA RowUpdate ==
  ASSUME IInv, NEW j \in Job, NEW row, jobs' = [jobs EXCEPT ![j] = row]
  PROVE  jobs'[j] = row /\ \A k \in Job \ {j} : jobs'[k] = jobs[k]
BY DEF IInv, TypeOK

\* Every step takes every job along its course.
LEMMA JobCourse ==
  ASSUME IInv, Next, NEW j \in Job
  PROVE  Course(j)
<1>1. jobs[j] \in JobRow /\ \A k \in Job : jobs[k] \in JobRow
  BY DEF IInv, TypeOK
<1>2. jobs'[j] = jobs[j] => Rests(j)
  BY DEF Rests
<1>3. ASSUME NEW k \in Job, Enqueue(k) PROVE Course(j)
  <2> DEFINE row == [jobs[k] EXCEPT !.status = "ready"]
  <2>1. jobs' = [jobs EXCEPT ![k] = row] /\ jobs[k].status = "absent"
    BY <1>3 DEF Enqueue, IInv, OutboxFollowsJob
  <2>2. row.status = "ready" /\ row.attempts = jobs[k].attempts
    BY <1>1 DEF JobRow
  <2> HIDE DEF row
  <2>3. jobs'[k] = row /\ \A i \in Job \ {k} : jobs'[i] = jobs[i]
    BY <2>1, RowUpdate
  <2> QED BY <1>2, <2>1, <2>2, <2>3 DEF Course
<1>4. ASSUME NEW k \in Job, Clock(k) PROVE Course(j)
  <2> DEFINE lapsed == [jobs[k] EXCEPT !.lapsed = TRUE]
             ready == [jobs[k] EXCEPT !.delayed = FALSE]
  <2>1. \/ /\ jobs' = [jobs EXCEPT ![k] = lapsed]
           /\ jobs[k].status = "leased" /\ jobs[k].attempts < Patience
        \/ jobs' = [jobs EXCEPT ![k] = ready]
    BY <1>4 DEF Clock, LeaseLapses, BecomesAvailable
  <2>2. /\ lapsed.status = jobs[k].status /\ lapsed.attempts = jobs[k].attempts
        /\ ready.status = jobs[k].status /\ ready.attempts = jobs[k].attempts
        /\ ready.by = jobs[k].by /\ ready.lapsed = jobs[k].lapsed
    BY <1>1 DEF JobRow
  <2> HIDE DEF lapsed, ready
  <2>3. /\ \A i \in Job \ {k} : jobs'[i] = jobs[i]
        /\ \/ /\ jobs'[k] = lapsed
              /\ jobs[k].status = "leased" /\ jobs[k].attempts < Patience
           \/ jobs'[k] = ready
    BY <2>1, RowUpdate
  <2> QED BY <1>2, <2>2, <2>3 DEF Course, Rests, Expires
<1>5. ASSUME NEW r \in Runner, NEW k \in Job, Claim(r, k) PROVE Course(j)
  <2> DEFINE row == [jobs[k] EXCEPT !.status = "leased", !.by = principalOf[r],
                       !.lapsed = FALSE, !.attempts = jobs[k].attempts + 1]
  <2>1. /\ jobs' = [jobs EXCEPT ![k] = row] /\ jobs[k].status = "ready"
        /\ runner'[r] = [pc |-> "claimed", job |-> k, attempt |-> jobs[k].attempts + 1,
                         late |-> 0]
    BY <1>5 DEF Claim, IInv, TypeOK
  <2>2. /\ row.status = "leased" /\ row.attempts = jobs[k].attempts + 1
        /\ row.by = principalOf[r] /\ row.lapsed = FALSE
    BY <1>1 DEF JobRow
  <2> HIDE DEF row
  <2>3. jobs'[k] = row /\ \A i \in Job \ {k} : jobs'[i] = jobs[i]
    BY <2>1, RowUpdate
  <2>4. Attends(r, k)'
    BY <2>1, <2>2, <2>3 DEF Attends
  <2> QED BY <1>2, <2>1, <2>2, <2>3, <2>4 DEF Course, Taken
<1>6. ASSUME NEW k \in Job, jobs[k].status = "leased", NEW status, NEW delayed, NEW outcome,
             status \in {"succeeded", "dead"} \/ (status = "ready" /\ jobs[k].attempts < MaxAttempts),
             Settle(k, status, delayed, outcome)
      PROVE  Course(j)
  <2> DEFINE row == [jobs[k] EXCEPT !.status = status, !.by = NoJob, !.lapsed = FALSE,
                                    !.delayed = delayed]
  <2>1. jobs' = [jobs EXCEPT ![k] = row]
    BY <1>6 DEF Settle
  <2>2. row.status = status /\ row.attempts = jobs[k].attempts
    BY <1>1 DEF JobRow
  <2> HIDE DEF row
  <2>3. jobs'[k] = row /\ \A i \in Job \ {k} : jobs'[i] = jobs[i]
    BY <2>1, RowUpdate
  <2> QED BY <1>2, <1>6, <2>2, <2>3 DEF Course, GivenBack
<1>7. ASSUME NEW r \in Runner, Complete(r) \/ Fail(r) PROVE Course(j)
  <2>1. runner[r].job \in Job /\ jobs[runner[r].job].status = "leased"
    BY <1>7 DEF Complete, MayComplete, Fail, MayFail, IInv, TypeOK
  <2>2. ~ (jobs[runner[r].job].attempts >= MaxAttempts)
          => jobs[runner[r].job].attempts < MaxAttempts
    BY <1>1, <2>1, BoundAssumption DEF JobRow
  <2>3. \/ Settle(runner[r].job, "succeeded", FALSE, "succeeded")
        \/ Settle(runner[r].job, "dead", FALSE, "dead")
        \/ /\ Settle(runner[r].job, "ready", TRUE, "retry_scheduled")
           /\ jobs[runner[r].job].attempts < MaxAttempts
    BY <1>7, <2>2, Zenon DEF Complete, Fail
  <2> DEFINE k == runner[r].job
  <2>4. k \in Job /\ jobs[k].status = "leased"
    BY <2>1
  <2>5. CASE Settle(k, "succeeded", FALSE, "succeeded")
    <3> HIDE DEF k
    <3> QED BY <1>6, <2>4, <2>5
  <2>6. CASE Settle(k, "dead", FALSE, "dead")
    <3> HIDE DEF k
    <3> QED BY <1>6, <2>4, <2>6
  <2>7. CASE Settle(k, "ready", TRUE, "retry_scheduled") /\ jobs[k].attempts < MaxAttempts
    <3> HIDE DEF k
    <3> QED BY <1>6, <2>4, <2>7
  <2> QED BY <2>3, <2>5, <2>6, <2>7
<1>8. ASSUME NEW s \in Sweeper, SweepRelease(s) PROVE Course(j)
  <2> DEFINE row == [jobs[j] EXCEPT !.status = "ready", !.by = NoJob, !.lapsed = FALSE,
                                    !.delayed = FALSE]
  <2>1. \/ jobs'[j] = jobs[j]
        \/ /\ jobs[j].status = "leased" /\ <<j, jobs[j].attempts>> \in sweeping[s]
           /\ jobs'[j] = row
    BY <1>8, ReleaseEffect
  <2>2. row.status = "ready" /\ row.attempts = jobs[j].attempts
    BY <1>1 DEF JobRow
  <2> HIDE DEF row
  <2>3. <<j, jobs[j].attempts>> \in sweeping[s] /\ jobs[j].status = "leased" => jobs[j].lapsed
    BY DEF IInv, SweepsKnow
  <2> QED BY <1>2, <2>1, <2>2, <2>3 DEF Course, GivenBack
<1> QED
  BY <1>2, <1>3, <1>4, <1>5, <1>7, <1>8 DEF Next, RunnerStep, Sweep, Course, BeginWork,
     Raise, FailRefused, Crash, SweepRead

\* The runner that attends the last attempt of a job is at work on it until the
\* job changes: it no more crashes, and fail_job knows its lease.
LEMMA AttendsStays ==
  ASSUME IInv, Next, NEW j \in Job, NEW r \in Runner, Attends(r, j), Rests(j),
         jobs[j].status = "leased", ~ jobs[j].lapsed, jobs[j].attempts >= Patience
  PROVE  Attends(r, j)'
<1>1. /\ jobs[j].attempts \in Nat /\ runner \in [Runner -> RunnerState]
      /\ runner[r] \in RunnerState /\ runner[r].job = j /\ runner[r].pc # "idle"
      /\ runner[r].attempt = jobs[j].attempts
  BY DEF IInv, TypeOK, JobRow, Attends
<1>2. CASE runner'[r] = runner[r]
  BY <1>2 DEF Attends, Rests
<1>3. CASE BeginWork(r) \/ Raise(r)
  <2> DEFINE late(row) == [runner[r] EXCEPT !.pc = "working", !.late = row]
             failing == [runner[r] EXCEPT !.pc = "failing"]
  <2>1. \/ \E row : runner' = [runner EXCEPT ![r] = late(row)]
        \/ runner' = [runner EXCEPT ![r] = failing]
    BY <1>3 DEF BeginWork, Raise
  <2>2. /\ \A row : late(row).job = j /\ late(row).attempt = runner[r].attempt
                    /\ late(row).pc = "working"
        /\ failing.job = j /\ failing.attempt = runner[r].attempt /\ failing.pc = "failing"
    BY <1>1 DEF RunnerState
  <2> HIDE DEF late, failing
  <2> QED BY <1>1, <2>1, <2>2 DEF Attends, Rests
<1>4. CASE Complete(r) \/ Fail(r)
  <2>1. jobs'[j].status # "leased"
    <3> DEFINE row(status, delayed) ==
          [jobs[j] EXCEPT !.status = status, !.by = NoJob, !.lapsed = FALSE, !.delayed = delayed]
    <3>1. \E status \in {"succeeded", "dead", "ready"}, delayed \in BOOLEAN :
            jobs' = [jobs EXCEPT ![j] = row(status, delayed)]
      BY <1>1, <1>4, Zenon DEF Complete, Fail, Settle
    <3>2. \A status, delayed : row(status, delayed).status = status
      BY DEF IInv, TypeOK, JobRow
    <3> HIDE DEF row
    <3> QED BY <3>1, <3>2 DEF IInv, TypeOK
  <2> QED BY <2>1 DEF Rests
<1>5. CASE Crash(r)
  BY <1>1, <1>5, BoundAssumption DEF Crash
<1>6. CASE FailRefused(r)
  BY <1>1, <1>6 DEF FailRefused, MayFail, Attends
<1>7. ASSUME NEW k \in Job, Claim(r, k) PROVE FALSE
  BY <1>1, <1>7 DEF Claim
<1>8. ASSUME NEW q \in Runner \ {r}, RunnerStep(q) \/ Crash(q) PROVE runner'[r] = runner[r]
  BY <1>1, <1>8 DEF RunnerStep, Claim, BeginWork, Complete, Raise, Fail, FailRefused, Crash
<1> QED
  BY <1>2, <1>3, <1>4, <1>5, <1>6, <1>7, <1>8 DEF Next, RunnerStep, Enqueue, Clock,
     LeaseLapses, BecomesAvailable, Sweep, SweepRead, SweepRelease

\* Every job stays in hand.
LEMMA StaysInHand ==
  ASSUME IInv, Next, NEW j \in Job, InHand(j)
  PROVE  InHand(j)'
<1>1. /\ jobs[j].attempts \in Nat /\ Most \in Nat /\ MaxAttempts <= Most
      /\ Patience <= Most /\ Patience \in Nat /\ MaxAttempts \in Nat
  BY BoundAssumption DEF IInv, TypeOK, JobRow, Most
<1>2. CASE Rests(j)
  <2>1. ASSUME jobs[j].status = "leased", jobs[j].attempts >= Patience
        PROVE  ~ jobs[j].lapsed /\ \E r \in Runner : Attends(r, j)'
    BY <1>2, <2>1, AttendsStays DEF InHand
  <2> QED BY <1>2, <2>1 DEF InHand, Rests, Most
<1>3. CASE Taken(j)
  BY <1>1, <1>3 DEF Taken, InHand, Most
<1>4. CASE GivenBack(j)
  <2>1. jobs[j].attempts < Most
    BY <1>1, <1>4 DEF GivenBack, InHand
  <2> QED BY <1>1, <1>4, <2>1 DEF GivenBack, InHand, Most
<1>5. CASE Expires(j)
  BY <1>1, <1>5 DEF Expires, InHand, Most
<1> QED
  BY <1>1, <1>2, <1>3, <1>4, <1>5, JobCourse DEF Course, InHand, Most

\* In every reachable state every job is in hand.
LEMMA AllInHand == Spec => [](\A j \in Job : InHand(j))
<1>1. Init => \A j \in Job : InHand(j)
  <2> SUFFICES ASSUME Init, NEW j \in Job PROVE InHand(j)
    OBVIOUS
  <2>1. jobs[j].attempts = 0 /\ jobs[j].status = "absent"
    BY DEF Init
  <2> QED BY <2>1, BoundAssumption DEF InHand, Most
<1>2. IInv /\ (\A j \in Job : InHand(j)) /\ [Next]_vars => (\A j \in Job : InHand(j))'
  <2> SUFFICES ASSUME IInv, \A j \in Job : InHand(j), [Next]_vars, NEW j \in Job
               PROVE  InHand(j)'
    OBVIOUS
  <2>1. CASE UNCHANGED vars
    BY <2>1 DEF vars, InHand, Attends, Most
  <2>2. CASE Next
    BY <2>2, StaysInHand
  <2> QED BY <2>1, <2>2
<1> QED BY <1>1, <1>2, Invariance, PTL DEF Spec

\* No job has more attempts than max_attempts, unless leases lapse on later ones
\* (from Patience on none does): only a lapsed lease, which the sweep gives back
\* without a look at max_attempts, has a job tried once more.
THEOREM AttemptsEnd == Spec => [](\A j \in Job : jobs[j].attempts <= Most)
<1>1. (\A j \in Job : InHand(j)) => \A j \in Job : jobs[j].attempts <= Most
  BY DEF InHand
<1> QED BY <1>1, AllInHand, PTL

\* A job whose lease lapses no more is not stranded: a runner that claimed this
\* very attempt is at work on it, and no other runner of its principal, late
\* with an attempt of its own, takes its place.
THEOREM LastAttemptsAttended ==
  Spec => [](\A j \in Job : jobs[j].status = "leased" /\ jobs[j].attempts >= Patience =>
               ~ jobs[j].lapsed /\ \E r \in Runner : Attends(r, j))
<1>1. (\A j \in Job : InHand(j)) =>
        \A j \in Job : jobs[j].status = "leased" /\ jobs[j].attempts >= Patience =>
          ~ jobs[j].lapsed /\ \E r \in Runner : Attends(r, j)
  BY DEF InHand
<1> QED BY <1>1, AllInHand, PTL

\* Each step of the queue takes every job along its course: only a claim adds an
\* attempt, and a job that has had max_attempts goes back for another one from a
\* lapsed lease alone.
THEOREM CourseOfJobs == Spec => [][\A j \in Job : Course(j)]_vars
<1>1. IInv /\ [Next]_vars => [\A j \in Job : Course(j)]_vars
  BY JobCourse
<1> QED BY <1>1, Invariance, PTL DEF Spec

\* Runner r can take a step: an idle one while a job is ready, any other at once,
\* to raise if it can do no better (the guards of RunnerStep).
RunnerCan(r) ==
  \/ runner[r].pc # "idle"
  \/ \E j \in Job : jobs[j].status = "ready" /\ ~ jobs[j].delayed

\* Sweep s can read or release (the guards of Sweep).
SweepCan(s) ==
  \/ sweeping[s] # {}
  \/ \E j \in Job : jobs[j].status = "leased" /\ jobs[j].lapsed

\* Time can pass for job j (the guards of Clock).
ClockCan(j) ==
  \/ jobs[j].delayed
  \/ /\ jobs[j].status = "leased" /\ ~ jobs[j].lapsed /\ jobs[j].attempts < Patience
     /\ Stalls \/ \A r \in Runner :
                     ~ (runner[r].job = j /\ runner[r].attempt = jobs[j].attempts)

\* A runner that is idle has no job in mind.
IdleHasNone == \A r \in Runner : runner[r].pc = "idle" => runner[r].job = NoJob

\* Every runner that ends is idle without a job.
LEMMA IdleInvariance == Spec => []IdleHasNone
<1>1. Init => IdleHasNone
  BY DEF Init, IdleHasNone, Idle
<1>2. IInv /\ IdleHasNone /\ [Next]_vars => IdleHasNone'
  <2> SUFFICES ASSUME IInv, IdleHasNone, [Next]_vars, NEW q \in Runner
               PROVE  runner'[q].pc = "idle" => runner'[q].job = NoJob
    BY DEF IdleHasNone
  <2>1. runner \in [Runner -> RunnerState]
    BY DEF IInv, TypeOK
  <2>2. CASE runner' = runner
    BY <2>2 DEF IdleHasNone
  <2>3. ASSUME NEW r \in Runner, RunnerStep(r) \/ Crash(r)
        PROVE  runner'[q].pc = "idle" => runner'[q].job = NoJob
    <3>1. \/ runner' = [runner EXCEPT ![r] = Idle]
          \/ runner'[r].pc # "idle" /\ \A p \in Runner \ {r} : runner'[p] = runner[p]
      <4>1. CASE \E j \in Job : Claim(r, j)
        BY <2>1, <4>1 DEF Claim
      <4>2. CASE BeginWork(r) \/ Raise(r)
        BY <2>1, <4>2 DEF BeginWork, Raise, RunnerState
      <4>3. CASE Complete(r) \/ Fail(r) \/ FailRefused(r) \/ Crash(r)
        BY <4>3, Zenon DEF Complete, Fail, FailRefused, Crash
      <4> QED BY <2>3, <4>1, <4>2, <4>3 DEF RunnerStep
    <3> QED BY <2>1, <3>1 DEF IdleHasNone, Idle
  <2> QED
    BY <2>2, <2>3 DEF Next, vars, Enqueue, Clock, LeaseLapses, BecomesAvailable, Sweep,
       SweepRead, SweepRelease
<1> QED BY <1>1, <1>2, Invariance, PTL DEF Spec

\* While a job is not settled, one of the fair steps can be taken: its delay or its
\* lease runs out, a runner that has it goes on, a runner that is idle claims
\* it or a busy one becomes idle, or a sweep gives it back.  No state of the queue
\* strands a job, whatever crashed before.
THEOREM NoStandstill ==
  ASSUME Runner # {}, Sweeper # {}
  PROVE  Spec => []((\E j \in Job : outbox[j] = "job_enqueued") =>
                      \/ \E r \in Runner : RunnerCan(r)
                      \/ \E s \in Sweeper : SweepCan(s)
                      \/ \E j \in Job : ClockCan(j))
<1>1. ASSUME IInv, IdleHasNone, \A j \in Job : InHand(j), NEW j \in Job,
             outbox[j] = "job_enqueued"
      PROVE  \/ \E r \in Runner : RunnerCan(r)
             \/ \E s \in Sweeper : SweepCan(s)
             \/ ClockCan(j)
  <2>1. jobs[j].status \in {"ready", "leased"}
    BY <1>1 DEF IInv, OutboxFollowsJob
  <2>2. \A r \in Runner : runner[r].pc # "idle" => RunnerCan(r)
    BY DEF RunnerCan
  <2>3. CASE jobs[j].status = "ready"
    BY <2>2, <2>3 DEF RunnerCan, ClockCan
  <2>4. CASE jobs[j].status = "leased" /\ jobs[j].lapsed
    BY <2>4 DEF SweepCan
  <2>5. CASE jobs[j].status = "leased" /\ ~ jobs[j].lapsed /\ jobs[j].attempts < Patience
    <3>1. CASE \E r \in Runner : runner[r].job = j /\ runner[r].attempt = jobs[j].attempts
                                 /\ runner[r].pc # "idle"
      BY <2>2, <3>1
    <3>2. CASE ~ \E r \in Runner : runner[r].job = j /\ runner[r].attempt = jobs[j].attempts
                                 /\ runner[r].pc # "idle"
      BY <1>1, <2>5, <3>2, NoJobAssumption DEF ClockCan, IdleHasNone
    <3> QED BY <3>1, <3>2
  <2>6. CASE jobs[j].status = "leased" /\ jobs[j].attempts >= Patience
    BY <1>1, <2>2, <2>6 DEF InHand, Attends
  <2>7. jobs[j].attempts \in Nat
    BY <1>1 DEF IInv, TypeOK, JobRow
  <2> QED BY <2>1, <2>3, <2>4, <2>5, <2>6, <2>7, BoundAssumption
<1>2. IInv /\ IdleHasNone /\ (\A j \in Job : InHand(j)) =>
        ((\E j \in Job : outbox[j] = "job_enqueued") =>
           \/ \E r \in Runner : RunnerCan(r)
           \/ \E s \in Sweeper : SweepCan(s)
           \/ \E j \in Job : ClockCan(j))
  BY <1>1
<1> QED BY <1>2, Invariance, IdleInvariance, AllInHand, PTL

-----------------------------------------------------------------------------
(* The writer: its steps are steps of the queue and of the kernel.            *)

\* What a planner has in mind is a job.
Planned == plan \in [Planner -> Job \cup {NoJob}]

\* Cards and versions are rows of their tables, a card that is there stands at
\* a version, and a version has a digest.
Standing ==
  /\ cards \in [Card -> Kernel!CardRow]
  /\ versions \in [Version -> Kernel!VersionRow]
  /\ \A v \in Version : versions[v].card # None => versions[v].payload \in Payload
  /\ \A c \in Card : Kernel!Exists(c) =>
       cards[c].current \in Version /\ versions[cards[c].current].card # None

WriterInv == IInv /\ Planned /\ Standing /\ JobEffect

\* Planners, runners and owners do nothing to the queue that it does not do
\* alone, and planners think of jobs only.
LEMMA StepOfQueue ==
  ASSUME Planned, [AllNext]_allVars
  PROVE  [Next]_vars /\ Planned'
<1>1. ASSUME NEW p \in Planner, EnqueuePlan(p) PROVE [Next]_vars /\ Planned'
  BY <1>1 DEF EnqueuePlan, Next, Planned
<1>2. ASSUME NEW p \in Planner, NEW j \in Job, PlanCard(p, j) PROVE UNCHANGED vars /\ Planned'
  BY <1>2 DEF PlanCard, Planned
<1>3. ASSUME NEW r \in Runner, WriterStep(r) PROVE Next /\ UNCHANGED plan
  BY <1>3 DEF WriterStep, QueueOnly, Work, WorkRaises, Next, RunnerStep
<1>4. ASSUME NEW c \in Card, NEW key \in OwnerKey, OwnerStep(c, key)
      PROVE  UNCHANGED vars /\ UNCHANGED plan
  BY <1>4 DEF OwnerStep
<1> QED
  BY <1>1, <1>2, <1>3, <1>4 DEF AllNext, allVars, QueueOnly, Next, Planned

\* The steps of the queue but complete_job.
OtherStep ==
  \/ \E j \in Job : Enqueue(j) \/ Clock(j)
  \/ \E r \in Runner : \/ \E j \in Job : Claim(r, j)
                        \/ BeginWork(r) \/ Raise(r) \/ Fail(r) \/ FailRefused(r) \/ Crash(r)
  \/ \E s \in Sweeper : Sweep(s)

\* None of them makes a job succeed.
LEMMA NoSuccess ==
  ASSUME IInv, NEW j \in Job, OtherStep
  PROVE  jobs'[j].status = "succeeded" <=> jobs[j].status = "succeeded"
<1>1. jobs[j].status = "succeeded" => jobs'[j].status = "succeeded"
  BY NextKeeps DEF Kept, Next, OtherStep, RunnerStep
<1>2. ASSUME NEW k \in Job, NEW row, jobs' = [jobs EXCEPT ![k] = row],
             row.status \in {"ready", "leased", "dead", jobs[k].status}
      PROVE  jobs'[j].status = "succeeded" => jobs[j].status = "succeeded"
  BY <1>2 DEF IInv, TypeOK
<1>3. ASSUME NEW k \in Job, Enqueue(k) \/ Clock(k)
      PROVE  jobs'[j].status = "succeeded" => jobs[j].status = "succeeded"
  <2>1. jobs[k] \in JobRow
    BY DEF IInv, TypeOK
  <2> DEFINE a == [jobs[k] EXCEPT !.status = "ready"]
             b == [jobs[k] EXCEPT !.lapsed = TRUE]
             c == [jobs[k] EXCEPT !.delayed = FALSE]
  <2>2. a.status = "ready" /\ b.status = jobs[k].status /\ c.status = jobs[k].status
    BY <2>1 DEF JobRow
  <2>3. jobs' = [jobs EXCEPT ![k] = a] \/ jobs' = [jobs EXCEPT ![k] = b]
          \/ jobs' = [jobs EXCEPT ![k] = c]
    BY <1>3 DEF Enqueue, Clock, LeaseLapses, BecomesAvailable
  <2> HIDE DEF a, b, c
  <2> QED BY <1>2, <2>2, <2>3
<1>4. ASSUME NEW r \in Runner, NEW k \in Job, Claim(r, k)
      PROVE  jobs'[j].status = "succeeded" => jobs[j].status = "succeeded"
  <2> DEFINE a == [jobs[k] EXCEPT !.status = "leased", !.by = principalOf[r], !.lapsed = FALSE,
                                  !.attempts = jobs[k].attempts + 1]
  <2>1. a.status = "leased"
    BY DEF IInv, TypeOK, JobRow
  <2>2. jobs' = [jobs EXCEPT ![k] = a]
    BY <1>4 DEF Claim
  <2> HIDE DEF a
  <2> QED BY <1>2, <2>1, <2>2
<1>5. ASSUME NEW r \in Runner, Fail(r)
      PROVE  jobs'[j].status = "succeeded" => jobs[j].status = "succeeded"
  <2> DEFINE k == runner[r].job
             a(status, delayed) == [jobs[k] EXCEPT !.status = status, !.by = NoJob,
                                      !.lapsed = FALSE, !.delayed = delayed]
  <2>1. k \in Job /\ jobs[k] \in JobRow
    BY <1>5 DEF Fail, MayFail, IInv, TypeOK
  <2>2. a("dead", FALSE).status = "dead" /\ a("ready", TRUE).status = "ready"
    BY <2>1 DEF JobRow
  <2>3. jobs' = [jobs EXCEPT ![k] = a("dead", FALSE)] \/ jobs' = [jobs EXCEPT ![k] = a("ready", TRUE)]
    BY <1>5 DEF Fail, Settle
  <2> HIDE DEF k, a
  <2> QED BY <1>2, <2>1, <2>2, <2>3
<1>6. ASSUME NEW s \in Sweeper, SweepRelease(s)
      PROVE  jobs'[j].status = "succeeded" => jobs[j].status = "succeeded"
  BY <1>6, ReleaseEffect DEF IInv, TypeOK, JobRow
<1>7. ASSUME NEW r \in Runner, BeginWork(r) \/ Raise(r) \/ FailRefused(r) \/ Crash(r)
      PROVE  jobs' = jobs
  BY <1>7 DEF BeginWork, Raise, FailRefused, Crash
<1>8. ASSUME NEW s \in Sweeper, SweepRead(s) PROVE jobs' = jobs
  BY <1>8 DEF SweepRead
<1> QED BY <1>1, <1>3, <1>4, <1>5, <1>6, <1>7, <1>8 DEF OtherStep, Sweep

\* The transition that a job stands for has been made.
Made(j) == \E e \in idem : e.op = j.op /\ e.subject = j.card /\ e.key = j.version

\* The kernel's idempotency rows stay, and the only ones that are added are
\* those of the given operation, subject and key.
Adds(op, subject, key) ==
  /\ idem \subseteq idem'
  /\ \A e \in idem' \ idem : e.op = op /\ e.subject = subject /\ e.key = key

\* What a runner dispatches makes the transition of its job and of no other.
LEMMA DispatchMakes ==
  ASSUME NEW j \in Job, Dispatch(j)
  PROVE  Made(j)' /\ \A k \in Job \ {j} : Made(k)' <=> Made(k)
<1>1. Made(j)' /\ Adds(j.op, j.card, j.version)
  <2>1. CASE Replayed(j) /\ UNCHANGED kernelVars
    BY <2>1 DEF Replayed, kernelVars, Kernel!Fresh, Made, Adds
  <2>2. ASSUME NEW seq, idem' = idem \cup {[op |-> j.op, subject |-> j.card, key |-> j.version,
                                            card |-> j.card, seq |-> seq]}
        PROVE  Made(j)' /\ Adds(j.op, j.card, j.version)
    <3> DEFINE e == [op |-> j.op, subject |-> j.card, key |-> j.version, card |-> j.card, seq |-> seq]
    <3>1. e.op = j.op /\ e.subject = j.card /\ e.key = j.version /\ idem' = idem \cup {e}
      BY <2>2
    <3> HIDE DEF e
    <3> QED BY <3>1 DEF Made, Adds
  <2>3. ~ (Replayed(j) /\ UNCHANGED kernelVars) =>
          \E seq : idem' = idem \cup {[op |-> j.op, subject |-> j.card, key |-> j.version,
                                       card |-> j.card, seq |-> seq]}
    BY DEF Dispatch, Kernel!AcceptAdmission, Kernel!RequestRedaction, Kernel!WorkerAdvanceCard,
           Kernel!CompleteRedaction, Kernel!RequestPrivateApproval, Kernel!Advance
  <2> QED BY <2>1, <2>2, <2>3
<1>2. ASSUME NEW k \in Job, k.op = j.op, k.card = j.card, k.version = j.version
      PROVE  k = j
  BY <1>2, WriterAssumption DEF WriterJob
<1> QED BY <1>1, <1>2 DEF Made, Adds

\* The owner's keys are no job's.
LEMMA OwnerMakesNone ==
  ASSUME NEW c \in Card, NEW key \in OwnerKey, OwnerStep(c, key), NEW j \in Job
  PROVE  Made(j)' <=> Made(j)
<1>1. \E op, subject : Adds(op, subject, key)
  <2>1. ASSUME NEW v \in Version, NEW p \in Payload, NEW u \in User,
               Kernel!SubmitCandidate(c, v, p, u, key)
        PROVE  Adds("submit_candidate", c, key)
    BY <2>1 DEF Kernel!SubmitCandidate, Adds
  <2>2. ASSUME NEW expected \in Version,
               \/ Kernel!DiscardRequested(c, expected, key)
               \/ Kernel!DiscardRestored(c, expected, key)
               \/ Kernel!ApprovalDigestInvalidated(c, expected, key)
        PROVE  Adds("append_card_event", c, key)
    BY <2>2 DEF Kernel!DiscardRequested, Kernel!DiscardRestored,
         Kernel!ApprovalDigestInvalidated, Kernel!AppendCardEvent, Kernel!Advance, Adds
  <2>3. ASSUME NEW h \in Challenge, NEW u \in User,
               Kernel!ApprovePrivateRetention(c, h, u, key)
        PROVE  Adds("approve_private_retention", c, key)
    BY <2>3 DEF Kernel!ApprovePrivateRetention, Kernel!Advance, Adds
  <2>4. ASSUME Kernel!RevokeSubject("card", c, key) PROVE Adds("revoke_subject", c, key)
    BY <2>4 DEF Kernel!RevokeSubject, Kernel!Revoke, Kernel!Advance, Adds
  <2> QED BY <2>1, <2>2, <2>3, <2>4 DEF OwnerStep
<1>2. j.version # key
  BY WriterAssumption DEF WriterJob
<1> QED BY <1>1, <1>2 DEF Made, Adds

\* A job succeeds in the step that makes its transition, and in no other.
LEMMA EffectKept == ASSUME IInv, Planned, JobEffect, [AllNext]_allVars PROVE JobEffect'
<1>1. SUFFICES ASSUME NEW j \in Job PROVE jobs'[j].status = "succeeded" <=> Made(j)'
  BY DEF JobEffect, Made
<1>2. jobs[j].status = "succeeded" <=> Made(j)
  BY DEF JobEffect, Made
<1>3. ASSUME NEW r \in Runner, Work(r) PROVE jobs'[j].status = "succeeded" <=> Made(j)'
  <2>1. PICK k \in Job : k = runner[r].job /\ jobs[k].status = "leased" /\ Dispatch(k)
    BY <1>3 DEF Work, Complete, MayComplete, IInv, TypeOK
  <2>2. jobs'[k].status = "succeeded" /\ \A i \in Job \ {k} : jobs'[i] = jobs[i]
    <3>1. jobs' = [jobs EXCEPT ![k] = [jobs[k] EXCEPT !.status = "succeeded", !.by = NoJob,
                                                     !.lapsed = FALSE, !.delayed = FALSE]]
      BY <1>3, <2>1 DEF Work, Complete, Settle
    <3> QED BY <2>1, <3>1 DEF IInv, TypeOK, JobRow
  <2>3. Made(k)' /\ \A i \in Job \ {k} : Made(i)' <=> Made(i)
    BY <2>1, DispatchMakes
  <2>4. CASE j = k
    BY <2>2, <2>3, <2>4
  <2>5. CASE j # k
    BY <1>2, <2>2, <2>3, <2>5
  <2> QED BY <2>4, <2>5
<1>4. ASSUME NEW c \in Card, NEW key \in OwnerKey, OwnerStep(c, key)
      PROVE  jobs'[j].status = "succeeded" <=> Made(j)'
  <2>1. jobs' = jobs
    BY <1>4 DEF OwnerStep, vars
  <2> QED BY <1>2, <1>4, <2>1, OwnerMakesNone
<1>5. ASSUME UNCHANGED kernelVars, OtherStep \/ UNCHANGED vars
      PROVE  jobs'[j].status = "succeeded" <=> Made(j)'
  <2>1. Made(j)' <=> Made(j)
    BY <1>5 DEF kernelVars, Made
  <2>2. UNCHANGED vars => jobs' = jobs
    BY DEF vars
  <2> QED BY <1>2, <1>5, <2>1, <2>2, NoSuccess
<1>6. ASSUME NEW p \in Planner, EnqueuePlan(p) \/ \E k \in Job : PlanCard(p, k)
      PROVE  UNCHANGED kernelVars /\ (OtherStep \/ UNCHANGED vars)
  BY <1>6 DEF EnqueuePlan, PlanCard, Planned, OtherStep
<1>7. ASSUME NEW r \in Runner, WriterStep(r) \/ QueueOnly(Crash(r)), ~ Work(r)
      PROVE  UNCHANGED kernelVars /\ OtherStep
  BY <1>7 DEF WriterStep, WorkRaises, QueueOnly, OtherStep
<1>8. ASSUME \/ \E s \in Sweeper : QueueOnly(Sweep(s))
             \/ \E k \in Job : QueueOnly(Clock(k))
      PROVE  UNCHANGED kernelVars /\ OtherStep
  BY <1>8 DEF QueueOnly, OtherStep
<1>9. UNCHANGED allVars => UNCHANGED kernelVars /\ UNCHANGED vars
  BY DEF allVars
<1> QED BY <1>3, <1>4, <1>5, <1>6, <1>7, <1>8, <1>9 DEF AllNext

\* A transition that leaves a card at its version leaves all cards standing.
LEMMA AdvanceStands ==
  ASSUME Standing, NEW c \in Card, Kernel!Exists(c), UNCHANGED versions,
         NEW to \in Kernel!Status, to # None,
         \E op, subject, key, type, role, expected :
           Kernel!Advance(op, subject, key, c, type, role, to, expected, cards[c].current)
  PROVE  Standing'
<1> DEFINE row == [cards[c] EXCEPT !.status = to, !.current = cards[c].current]
<1>1. cards[c] \in Kernel!CardRow
  BY DEF Standing
<1>2. row \in Kernel!CardRow /\ row.current = cards[c].current
  BY <1>1 DEF Kernel!CardRow
<1>3. cards' = [cards EXCEPT ![c] = row]
  BY DEF Kernel!Advance
<1> HIDE DEF row
<1>4. /\ cards' \in [Card -> Kernel!CardRow]
      /\ \A d \in Card : cards'[d].current = cards[d].current
                         /\ (Kernel!Exists(d)' => Kernel!Exists(d))
  BY <1>2, <1>3 DEF Standing, Kernel!Exists
<1> QED BY <1>4 DEF Standing, Kernel!Exists

\* A card that is submitted takes a version that no card has.
LEMMA SubmitStands ==
  ASSUME Standing, NEW c \in Card, NEW v \in Version, NEW p \in Payload, NEW u \in User,
         NEW key, Kernel!SubmitCandidate(c, v, p, u, key)
  PROVE  Standing'
<1> DEFINE row == [status |-> "candidate_created", current |-> v, creator |-> u]
           new == [card |-> c, number |-> 1, payload |-> p]
<1>1. /\ row \in Kernel!CardRow /\ row.current = v
      /\ new \in Kernel!VersionRow /\ new.card = c /\ new.payload = p
  BY DEF Kernel!CardRow, Kernel!VersionRow, Kernel!Status, Kernel!PreReview
<1>2. /\ cards' = [cards EXCEPT ![c] = row] /\ versions' = [versions EXCEPT ![v] = new]
      /\ versions[v].card = None /\ c # None
  BY KernelAssumption DEF Kernel!SubmitCandidate
<1> HIDE DEF row, new
<1>3. /\ cards' \in [Card -> Kernel!CardRow] /\ cards'[c].current = v
      /\ \A d \in Card \ {c} : cards'[d] = cards[d]
  BY <1>1, <1>2 DEF Standing
<1>4. /\ versions' \in [Version -> Kernel!VersionRow]
      /\ versions'[v].card = c /\ versions'[v].payload = p
      /\ \A w \in Version \ {v} : versions'[w] = versions[w]
  BY <1>1, <1>2 DEF Standing
<1>5. \A d \in Card : Kernel!Exists(d)' =>
        cards'[d].current \in Version /\ versions'[cards'[d].current].card # None
  BY <1>2, <1>3, <1>4 DEF Standing, Kernel!Exists
<1> QED BY <1>3, <1>4, <1>5 DEF Standing

\* What a runner dispatches is a step of the kernel, or none: the digest it
\* hands to complete_redaction is the one the card has.
LEMMA DispatchSteps ==
  ASSUME Standing, NEW j \in Job, Dispatch(j)
  PROVE  (Kernel!Next \/ UNCHANGED kernelVars) /\ Standing'
<1>1. j.card \in Card /\ j.version \in Version
  BY WriterAssumption DEF WriterJob
<1>2. None \notin Kernel!Status
  BY KernelAssumption
<1>3. CASE UNCHANGED kernelVars
  BY <1>3 DEF kernelVars, Standing, Kernel!Exists
<1>4. CASE Kernel!AcceptAdmission(j.card, j.version, j.version)
  <2>1. Kernel!Next
    BY <1>1, <1>4 DEF Kernel!Next
  <2>2. Standing'
    BY <1>1, <1>2, <1>4, AdvanceStands
       DEF Kernel!AcceptAdmission, Kernel!WorkerAdvanceCard, Kernel!Visible, Kernel!Status, Kernel!PreReview
  <2> QED BY <2>1, <2>2
<1>5. CASE Kernel!RequestRedaction(j.card, j.version, j.version)
  <2>1. Kernel!Next
    BY <1>1, <1>5 DEF Kernel!Next
  <2>2. Standing'
    BY <1>1, <1>2, <1>5, AdvanceStands
       DEF Kernel!RequestRedaction, Kernel!WorkerAdvanceCard, Kernel!Visible, Kernel!Status, Kernel!PreReview
  <2> QED BY <2>1, <2>2
<1>6. CASE /\ cards[j.card].current = j.version
           /\ Kernel!CompleteRedaction(j.card, versions[j.version].payload, j.version, j.version)
  <2>1. versions[j.version].payload \in Payload
    BY <1>1, <1>6 DEF Standing, Kernel!CompleteRedaction, Kernel!Visible
  <2>2. Kernel!Next
    BY <1>1, <1>6, <2>1 DEF Kernel!Next
  <2>3. Standing'
    BY <1>1, <1>2, <1>6, AdvanceStands
       DEF Kernel!CompleteRedaction, Kernel!Visible, Kernel!Status, Kernel!PreReview
  <2> QED BY <2>2, <2>3
<1>7. ASSUME NEW h \in Challenge, Kernel!RequestPrivateApproval(j.card, h, j.version)
      PROVE  Kernel!Next /\ Standing'
  <2>1. Kernel!Next
    BY <1>1, <1>7 DEF Kernel!Next
  <2>2. Standing'
    BY <1>1, <1>2, <1>7, AdvanceStands
       DEF Kernel!RequestPrivateApproval, Kernel!Visible, Kernel!Status, Kernel!PreReview
  <2> QED BY <2>1, <2>2
<1> QED BY <1>3, <1>4, <1>5, <1>6, <1>7 DEF Dispatch

\* The owner's calls are steps of the kernel.
LEMMA OwnerSteps ==
  ASSUME Standing, NEW c \in Card, NEW key \in OwnerKey, OwnerStep(c, key)
  PROVE  Kernel!Next /\ Standing'
<1>1. None \notin Kernel!Status
  BY KernelAssumption
<1>2. ASSUME NEW v \in Version, NEW p \in Payload, NEW u \in User,
             Kernel!SubmitCandidate(c, v, p, u, key)
      PROVE  Kernel!Next /\ Standing'
  BY <1>2, SubmitStands DEF Kernel!Next
<1>3. ASSUME NEW expected \in Version, NEW type, NEW to \in Kernel!Status,
             Kernel!AppendCardEvent(c, type, to, expected, key)
      PROVE  Standing'
  BY <1>1, <1>3, AdvanceStands DEF Kernel!AppendCardEvent, Kernel!Visible
<1>4. ASSUME NEW expected \in Version,
             \/ Kernel!DiscardRequested(c, expected, key)
             \/ Kernel!DiscardRestored(c, expected, key)
             \/ Kernel!ApprovalDigestInvalidated(c, expected, key)
      PROVE  Kernel!Next /\ Standing'
  <2>1. Kernel!Next
    BY <1>4 DEF Kernel!Next
  <2>2. Standing'
    BY <1>3, <1>4 DEF Kernel!DiscardRequested, Kernel!DiscardRestored,
         Kernel!ApprovalDigestInvalidated, Kernel!Status, Kernel!PreReview
  <2> QED BY <2>1, <2>2
<1>5. ASSUME NEW h \in Challenge, NEW u \in User,
             Kernel!ApprovePrivateRetention(c, h, u, key)
      PROVE  Kernel!Next /\ Standing'
  <2>1. Kernel!Next
    BY <1>5 DEF Kernel!Next
  <2>2. Standing'
    BY <1>1, <1>5, AdvanceStands
       DEF Kernel!ApprovePrivateRetention, Kernel!MayApprove, Kernel!Visible, Kernel!Status
  <2> QED BY <2>1, <2>2
<1>6. ASSUME Kernel!RevokeSubject("card", c, key) PROVE Kernel!Next /\ Standing'
  <2>1. Kernel!Next
    BY <1>6 DEF Kernel!Next
  <2>2. Standing'
    BY <1>1, <1>6, AdvanceStands
       DEF Kernel!RevokeSubject, Kernel!Revoke, Kernel!Visible, Kernel!Status
  <2> QED BY <2>1, <2>2
<1> QED BY <1>2, <1>4, <1>5, <1>6 DEF OwnerStep

\* Steps of the writer that are neither a dispatch nor the owner's leave the
\* kernel alone.
LEMMA StepOfKernel ==
  ASSUME IInv, Standing, [AllNext]_allVars
  PROVE  [Kernel!Next]_kernelVars /\ Standing'
<1>1. UNCHANGED kernelVars => Standing'
  BY DEF kernelVars, Standing, Kernel!Exists
<1>2. ASSUME NEW r \in Runner, WriterStep(r) \/ QueueOnly(Crash(r))
      PROVE  [Kernel!Next]_kernelVars /\ Standing'
  <2>1. CASE Work(r)
    BY <2>1, DispatchSteps DEF Work, IInv, TypeOK
  <2>2. CASE ~ Work(r)
    BY <1>1, <1>2, <2>2 DEF WriterStep, WorkRaises, QueueOnly
  <2> QED BY <2>1, <2>2
<1>3. ASSUME NEW p \in Planner, EnqueuePlan(p) \/ \E k \in Job : PlanCard(p, k)
      PROVE  UNCHANGED kernelVars
  BY <1>3 DEF EnqueuePlan, PlanCard
<1> QED BY <1>1, <1>2, <1>3, OwnerSteps DEF AllNext, QueueOnly, allVars

\* Nothing planned, no card and an empty queue satisfy the invariant.
LEMMA InitWriterInv == AllInit => WriterInv
<1> SUFFICES ASSUME AllInit PROVE WriterInv
  OBVIOUS
<1>1. IInv
  BY InitIInv DEF AllInit
<1>2. Planned
  BY DEF AllInit, Planned
<1>3. Standing
  BY DEF AllInit, Kernel!Init, Standing, Kernel!Exists, Kernel!CardRow, Kernel!VersionRow
<1>4. JobEffect
  BY DEF AllInit, Init, Kernel!Init, JobEffect
<1> QED BY <1>1, <1>2, <1>3, <1>4 DEF WriterInv

\* The writer's invariant is inductive.
LEMMA NextWriterInv == WriterInv /\ [AllNext]_allVars => WriterInv'
<1> SUFFICES ASSUME WriterInv, [AllNext]_allVars PROVE WriterInv'
  OBVIOUS
<1>1. [Next]_vars /\ Planned'
  BY StepOfQueue DEF WriterInv
<1>2. IInv'
  BY <1>1, NextKeeps DEF WriterInv, Kept
<1> QED BY <1>1, <1>2, StepOfKernel, EffectKept DEF WriterInv

\* In every reachable state of the writer the invariant holds.
LEMMA WriterInvariance == AllSpec => []WriterInv
BY InitWriterInv, NextWriterInv, PTL DEF AllSpec

\* Planners, runners and owners use the queue as it is: what is proved of
\* JobQueue holds of the writer's.
THEOREM IntoTheQueue == AllSpec => Spec
<1>1. AllInit => Init
  BY DEF AllInit
<1>2. WriterInv /\ [AllNext]_allVars => [Next]_vars
  BY StepOfQueue DEF WriterInv
<1> QED BY <1>1, <1>2, WriterInvariance, PTL DEF AllSpec, Spec

\* Nor do they do anything to the cards but what the kernel's functions do:
\* what is proved of CardLog holds of the writer's cards.
THEOREM IntoTheKernel == AllSpec => Kernel!Spec
<1>1. AllInit => Kernel!Init
  BY DEF AllInit
<1>2. WriterInv /\ [AllNext]_allVars => [Kernel!Next]_Kernel!vars
  BY StepOfKernel DEF WriterInv, Kernel!vars, kernelVars
<1> QED BY <1>1, <1>2, WriterInvariance, PTL DEF AllSpec, Kernel!Spec

\* A job has succeeded exactly when its card transition was made.
THEOREM EffectOfJobs == AllSpec => []JobEffect
<1>1. WriterInv => JobEffect
  BY DEF WriterInv
<1> QED BY <1>1, WriterInvariance, PTL

\* The kernel has nothing against the transition that job j stands for: the guards
\* of Dispatch, but for the new challenge that request_private_approval takes.
Accepts(j) ==
  LET status == cards[j.card].status
  IN /\ Kernel!Visible(j.card) /\ Kernel!Fresh(j.op, j.card, j.version)
     /\ cards[j.card].current = j.version
     /\ \/ /\ j.op = "accept_admission"
           /\ status \in {"candidate_created", "deferred"}
           /\ Kernel!Transition(status, "pending_admission", "admission_accepted",
                                "ingestion_worker")
        \/ /\ j.op = "request_redaction" /\ status = "pending_admission"
           /\ Kernel!Transition(status, "pending_redaction", "redaction_requested",
                                "ingestion_worker")
        \/ /\ j.op = "complete_redaction" /\ status = "pending_redaction"
           /\ Kernel!Transition(status, "pending_review", "redaction_completed",
                                "redaction_worker")
        \/ /\ j.op = "request_private_approval" /\ status = "pending_review"
           /\ Kernel!Transition(status, "awaiting_user_approval",
                                "user_approval_requested", "review_worker")

\* Whether its attempt is the first, a retry after a crash, or one that others have
\* overtaken: a runner whose complete_job would be accepted finds that the transition
\* was not made before, so that it makes it itself, and a card that stands where the
\* job was planned for is moved on, because nobody has spent the job's key.
THEOREM WorkIsAccepted ==
  AllSpec => [](\A r \in Runner : MayComplete(r) =>
    LET j == runner[r].job
    IN ~ Replayed(j) /\ (Kernel!Visible(j.card) /\ Suits(j) => Accepts(j)))
<1>1. ASSUME WriterInv, NEW r \in Runner, MayComplete(r), NEW j, j = runner[r].job
      PROVE  ~ Replayed(j) /\ (Kernel!Visible(j.card) /\ Suits(j) => Accepts(j))
  <2>1. j \in Job /\ jobs[j].status = "leased"
    BY <1>1 DEF MayComplete, WriterInv, IInv, TypeOK
  <2>2. j.op \in Operation
    BY <2>1, WriterAssumption DEF WriterJob
  <2>3. Kernel!Fresh(j.op, j.card, j.version)
    BY <1>1, <2>1 DEF WriterInv, JobEffect, Kernel!Fresh
  <2>4. ASSUME Kernel!Visible(j.card), Suits(j) PROVE Accepts(j)
    BY <2>2, <2>3, <2>4 DEF Suits, Source, Operation, Accepts, Kernel!Transition
  <2> QED BY <2>3, <2>4 DEF Replayed
<1>2. WriterInv => \A r \in Runner : MayComplete(r) =>
        LET j == runner[r].job
        IN ~ Replayed(j) /\ (Kernel!Visible(j.card) /\ Suits(j) => Accepts(j))
  BY <1>1
<1> QED BY <1>2, WriterInvariance, PTL
=============================================================================
