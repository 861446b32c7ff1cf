------------------------------- MODULE Writer -------------------------------
(***************************************************************************)
(* The writer of scripts/knudgctl.py: `writer enqueue-next` and `writer    *)
(* sweep` plan a job for the status a card is in, `writer run-next` claims *)
(* a job and, in one transaction, makes the card's worker transition and   *)
(* completes the job.  The card kernel (CardLog) and the queue (JobQueue)  *)
(* run side by side with the owner's own calls.                            *)
(*                                                                         *)
(* A job is known by its idempotency key writer:<operation>:<card>:<version>, *)
(* which is also the idempotency key of the transition it makes.           *)
(***************************************************************************)
EXTENDS JobQueue

CONSTANTS
  Card, Version, Payload, Challenge, User, None,
  OwnerKey,  \* idempotency keys of the owner's calls
  Planner    \* enqueue-next and sweep processes

VARIABLES
  cards, versions, log, challenges, consents, idem, tombs, epoch,
  plan  \* the job each planner has read a card for and not yet enqueued

Operation == {"accept_admission", "request_redaction", "complete_redaction",
              "request_private_approval"}
WriterJob == [op : Operation, card : Card, version : Version]

kernelVars == <<cards, versions, log, challenges, consents, idem, tombs, epoch>>
allVars == <<kernelVars, vars, plan>>

\* Within one operation and card the job's key is told apart by the version.
Kernel == INSTANCE CardLog WITH Key <- Version \cup OwnerKey, Expected <- Version

ASSUME WriterAssumption == Job = WriterJob /\ OwnerKey \cap Version = {}

\* What CardLog assumes of its constants.
ASSUME KernelAssumption ==
  None \notin Card \cup Version \cup Payload \cup User \cup OwnerKey \cup Kernel!Status

AllTypeOK == /\ Kernel!TypeOK /\ TypeOK
             /\ plan \in [Planner -> Job \cup {NoJob}]

AllInit == Kernel!Init /\ Init /\ plan = [p \in Planner |-> NoJob]

-----------------------------------------------------------------------------
(* Planning. *)

\* The statuses from which an operation moves a card.
Source(op) == CASE op = "accept_admission" -> {"candidate_created", "deferred"}
                [] op = "request_redaction" -> {"pending_admission"}
                [] op = "complete_redaction" -> {"pending_redaction"}
                [] op = "request_private_approval" -> {"pending_review"}

Suits(j) == cards[j.card].status \in Source(j.op) /\ cards[j.card].current = j.version

\* Gives a card one job for good.
FaultyPlanCard(p, j) ==
  /\ plan[p] = NoJob /\ Suits(j)
  /\ \A other \in Job : other.card = j.card => outbox[other] = "absent"
  /\ plan' = [plan EXCEPT ![p] = j]
  /\ UNCHANGED <<kernelVars, vars>>

\* Reads the card.  A job that has an outbox row already is skipped.
PlanCard(p, j) ==
  /\ plan[p] = NoJob /\ Suits(j) /\ outbox[j] = "absent"
  /\ plan' = [plan EXCEPT ![p] = j]
  /\ UNCHANGED <<kernelVars, vars>>

\* Inserts outbox row and job.  When another planner was first, the insert is
\* skipped or refused by the unique key and the transaction undone.
EnqueuePlan(p) ==
  /\ plan[p] # NoJob
  /\ plan' = [plan EXCEPT ![p] = NoJob]
  /\ IF outbox[plan[p]] = "absent" THEN Enqueue(plan[p]) ELSE UNCHANGED vars
  /\ UNCHANGED kernelVars

-----------------------------------------------------------------------------
(* Running. *)

\* A call under a job's key that was made before: the kernel returns the old
\* effect.  request_private_approval refuses it, as the runner sends it a new
\* challenge id each time.
Replayed(j) == /\ Kernel!Visible(j.card) /\ ~ Kernel!Fresh(j.op, j.card, j.version)
               /\ j.op # "request_private_approval"

\* The card transition that a job stands for, under the job's key.  The job
\* carries no redacted payload: the version stays the same.
Dispatch(j) ==
  \/ Replayed(j) /\ UNCHANGED kernelVars
  \/ /\ j.op = "accept_admission"
     /\ Kernel!AcceptAdmission(j.card, j.version, j.version)
  \/ /\ j.op = "request_redaction"
     /\ Kernel!RequestRedaction(j.card, j.version, j.version)
  \/ /\ j.op = "complete_redaction" /\ cards[j.card].current = j.version
     /\ Kernel!CompleteRedaction(j.card, versions[j.version].payload, j.version, j.version)
  \/ /\ j.op = "request_private_approval" /\ cards[j.card].current = j.version
     /\ \E h \in Challenge : Kernel!RequestPrivateApproval(j.card, h, j.version)

\* Swallows a refused transition and completes the job.
FaultyWorkSwallow(r) ==
  /\ runner[r].pc = "working"
  /\ Complete(r)
  /\ UNCHANGED <<kernelVars, plan>>

\* The transition and complete_job in one transaction.
Work(r) ==
  /\ runner[r].pc = "working"
  /\ Dispatch(runner[r].job)
  /\ Complete(r)
  /\ UNCHANGED plan

\* One of the two refuses, or the work fails of itself (which, like crashes,
\* it does in attempts below Patience only): both are undone.
WorkRaises(r) ==
  /\ runner[r].pc = "working"
  /\ \/ runner[r].attempt < Patience
     \/ LET j == runner[r].job
        IN /\ ~ Replayed(j)
           /\ ~ (/\ Kernel!Visible(j.card) /\ Suits(j)
                 /\ Kernel!Fresh(j.op, j.card, j.version))
     \/ ~ MayComplete(r)
  /\ Raise(r)
  /\ UNCHANGED <<kernelVars, plan>>

QueueOnly(step) == step /\ UNCHANGED <<kernelVars, plan>>

WriterStep(r) ==
  \/ \E j \in Job : QueueOnly(Claim(r, j))
  \/ QueueOnly(BeginWork(r))
  \/ Work(r)
  \/ WorkRaises(r)
  \/ QueueOnly(Fail(r))
  \/ QueueOnly(FailRefused(r))

-----------------------------------------------------------------------------
(* The owner. *)

OwnerStep(c, key) ==
  /\ \/ \E v \in Version, p \in Payload, u \in User : Kernel!SubmitCandidate(c, v, p, u, key)
     \/ \E expected \in Version :
          \/ Kernel!DiscardRequested(c, expected, key)
          \/ Kernel!DiscardRestored(c, expected, key)
          \/ Kernel!ApprovalDigestInvalidated(c, expected, key)
     \/ \E h \in Challenge, u \in User : Kernel!ApprovePrivateRetention(c, h, u, key)
     \/ Kernel!RevokeSubject("card", c, key)
  /\ UNCHANGED <<vars, plan>>

AllNext ==
  \/ \E p \in Planner : EnqueuePlan(p) \/ \E j \in Job : PlanCard(p, j)
  \/ \E r \in Runner : WriterStep(r) \/ QueueOnly(Crash(r))
  \/ \E s \in Sweeper : QueueOnly(Sweep(s))
  \/ \E j \in Job : QueueOnly(Clock(j))
  \/ \E c \in Card, key \in OwnerKey : OwnerStep(c, key)

AllSpec == AllInit /\ [][AllNext]_allVars

\* The commands are run over and over; the owner need never do anything.
AllFairness ==
  /\ \A p \in Planner : WF_allVars(EnqueuePlan(p) \/ \E j \in Job : PlanCard(p, j))
  /\ \A r \in Runner : WF_allVars(WriterStep(r))
  /\ \A s \in Sweeper : WF_allVars(QueueOnly(Sweep(s)))
  /\ \A j \in Job : WF_allVars(QueueOnly(Clock(j)))

AllFairSpec == AllSpec /\ AllFairness

-----------------------------------------------------------------------------

\* A job has succeeded exactly when its card transition is in the event log,
\* and then it is there once: with retries, late runners that complete a
\* lease that is not theirs, crashes between the two transactions and plans
\* made from a status the card has left.
JobEffect ==
  \A j \in Job :
    jobs[j].status = "succeeded" <=>
      \E e \in idem : e.op = j.op /\ e.subject = j.card /\ e.key = j.version

\* A card in a status that the writer has planned no job for yet is moved on.
FirstVisitMovesOn ==
  \A j \in Job :
    (Suits(j) /\ outbox[j] = "absent") ~> ~ Suits(j)
=============================================================================
