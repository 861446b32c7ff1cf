# Knudg in TLA+

A verification development for Knudg: the PostgreSQL kernel that holds experience
cards, the writer that moves them along, the final filter, the closed private
card service with the programs that publish to it, and the client side: the
configuration, the start-up hook and the migration runner. The modules are
written from the code (`src/…` paths below), `PROJECT.json` maps each definition
to the lines it stands for.

## The system

| Component | State | Operations | Who calls it |
|---|---|---|---|
| Card kernel, `migrations/0001` | `experience_cards`, `card_versions`, `card_events`, `approval_challenges`, `consent_records`, `idempotency_keys`, `revocation_tombstones`, `tenant_revocation_epochs` | submit, append event (discard, restore, invalidate), accept admission, request and complete redaction, request private approval, approve retention, revoke (owner, break glass), end a consent | the owner's client, writer runners, operators |
| Outbox and jobs, `migrations/0001` | `outbox_events`, `jobs`, `job_attempts` | enqueue, claim, complete, fail | writer runners |
| Writer, `scripts/knudgctl.py` | its processes; writes the two above | `enqueue-next`, `sweep`, `run-next` | an operator, again and again |
| Approval handoffs, redacted experience, `scripts/knudgctl.py`, `migrations/0012` | `approval_handoffs`, `redacted_private_experience_records` | create and show a handoff, complete a retention, store, revoke, purge a record | operators; owners through the closed API |
| Final filter, `scripts/knudg_closed_api.py`, `migrations/0014` | `final_filter_jobs`; threads and a semaphore per server | enqueue, claim, evaluate, complete, retry, hold; direct evaluation | HTTP requests and the scheduler thread |
| Closed private cards, `migrations/0002, 0005, 0015–0018` | cards and versions, bodies, search documents with embedding, edges | publish, merge update, revoke, purge, set embedding, text and vector search | `/v1/private/…` of the closed API |
| Publish flow, `knudg_closed_api.py`, `knudg_post_private_card.py`, `knudg_local_frontend.py`, `knudgctl.py local-private` | the same tables; one request per client | publish with digest approval and merge decision, retry; local capture, revoke, purge | users of the posting tool, of HTTP, of the browser front end and of the shell |
| Client configuration, `scripts/knudg_client_config.py`, `knudgctl.py` | one JSON file | `config set-server`, `use-profile`, `set exploration-depth`, `server capabilities --pin`, `live …` | the user, the start-up worker |
| Start-up gate and worker, `plugins/knudg/hooks` | one log file, processes | decide, look into the log, spawn the worker, record, print | the agent host, once per registration and prompt |
| Migration runner, `scripts/migrate.py` | `schema_migrations` and the schema | up, down | deployment |
| Start rate limiter, `knudg_closed_api.py` | a lock and a time in a process | wait | calls to the provider |

Most components meet in the database; the configuration and the start-up gate keep
files, the rate limiter the memory of a process. The writer makes kernel transitions and ends queue rows in one
transaction; the API calls SECURITY DEFINER functions, each of which is one
transaction; nothing calls back. Concurrency comes from processes (runners,
sweeps, API servers, clients, hooks), failures from processes and connections
that die, leases that lapse, and calls that are repeated after a lost answer.
What is hard, by component, and the properties that make it right:

* **Kernel**: operations in any order, replays, stale arguments, challenges that
  outlive an invalidation. Projections follow the log; a key has one effect;
  consent is for exactly what was shown; revoked is final.
* **Jobs and writer**: a runner that claims in one transaction, works in a second
  and reports failure in a third, a principal shared by all runners, a sweep that
  acts on what it read. The attempts are the history of the job; a job succeeds
  if and only if its transition was made, once; jobs settle; cards move on.
* **Handoffs**: a handoff is made from what an earlier statement read, and three
  pieces of code (the operator's status, the completion, the kernel) judge whether
  it can be completed. They agree; a handoff is no way around the kernel; a record
  is stored under a consent in force.
* **Final filter**: statements that name a job by its id alone, leases claimed
  over, answers that are cut, ambiguous or contradictory. One thread per request,
  bounded attempts, a verdict that stays, and pass only if the provider said so.
* **Private cards**: READ COMMITTED snapshots, row locks taken in opposite
  orders. Searches agree, an update is not lost, a card in force is found,
  purges are complete, no call waits for ever.
* **Publish flow**: the check for similar cards and the insert are two
  transactions without a key, and the search knows some terms of a text only; a text
  is normalized by client and server; API and local commands delete different sets
  of versions, and may overlap merges. No silent twin where the search is sure, what is
  stored was approved, all surfaces tell of the same cards, withdrawn is final.
* **Configuration**: whole-file read-modify-write around a network call, and a
  server that may become another one and redirect what it is sent. A command sends
  its token to a vetted URL only, pin and cache agree, settings are kept.
* **Start-up gate**: several registrations, two time limits inside a third, and a
  context that makes the agent start the hook again. No recursion, nothing is
  told that is not so, no prompt is told twice.
* **Migrations**: racing runners, failures and crashes inside a migration, edited
  files, down scripts that put earlier objects back. The ledger tells what the
  schema is.

## Modules

| Module | Models | Actions and code |
|---|---|---|
| `CardLog` | the kernel | one action per function of `0001`; `Advance` is the tail they share: transition lookup, event, card row, idempotency row |
| `CardLifecycle` | what the owner is promised, without versions, challenges, keys and workers | abstract; `CardLog!LifecycleSpec` is the refinement |
| `JobQueue` | outbox, jobs, runner, sweep; knows nothing of what a job is | `Claim`, `BeginWork`, `Complete`, `Raise`, `Fail`, `FailRefused`, `Crash`; `SweepRead` and `SweepRelease` are the two halves of `writer_stale_lease_findings` |
| `Writer` | extends `JobQueue`; planners, runners, sweep and owner over the queue and an instance of `CardLog`, `Kernel` | `PlanCard`/`EnqueuePlan`, `Dispatch` and `Work` (transition and `complete_job` together) |
| `Handoffs` | extends `CardLog`; handoffs and records, between whose steps every step of the kernel may come | `PickCandidate`/`InsertHandoff` are the two statements of `create`; `Blockers` and `HandoffState` are what `status` computes; `CompleteRetention` asks for `HandoffActive` and calls the kernel's `ApprovePrivateRetention`; `StoreRecord`, `RevokeRecord`, `PurgeRecord` |
| `FinalFilterVerdict` | how a verdict is read out of an answer | operators only: `Coerce` (JSON), `ParseWords` (text), `DirectVerdict` and `QueueVerdict` with the exceptions each of the two copies knows |
| `FinalFilterQueue` | `final_filter_jobs` and the threads of the servers; extends `FinalFilterVerdict` | one action per SQL statement or answer of the provider; `EvaluateDirectly` |
| `PrivateCards` | one card of the private service | one action per statement begun, row locked, and commit |
| `PublishFlow` | several cards, their clients and the local commands; a database function is one step, at which the rows it found may be those of before the last merges | `Look`/`LookFails` then `Insert`/`Update` are the two transactions of `do_POST`; `Resubmit`, `Retry`, `Lose`; `LocalCapture`, `LocalRevoke`, `LocalPurge`, `ApiRevoke`, `ApiPurge` |
| `ClientConfig` | the file, commands, servers | a command is load (`SetServer`, `UseProfile`, `SetDepth`, `PinLoad`, `LiveLoad`), then `PinProbe` or `LivePost`, then `Save`; `Effective` is `effective_profile` |
| `StartupGate` | hook processes, their workers, the log, a clock | `Check` (decision, look into the log, spawn), `Nudged`/`NudgeTimeout` (the worker's reply or none), `AppendDecision`, `Emit`; `Kill` is the host's time limit, `Delegate` the agent's subagent |
| `Migrations` | runners, ledger, schema, files | `LookUp`, `Insert`, `Script`, `RecordFailure` for up; `LookDown`, `Mark`, `Drop` for down; `Crash`, `EditFile` |
| `…Proofs` | theorems about the module of that name; `CardLogProofs` about `Handoffs` too, `JobQueueProofs` about `Writer` too, `FinalFilterProofs` about both filter modules | – |
| `MC…` | the instances for TLC | model values, symmetry, functions given to constants |

How state corresponds to code is in the comments on the VARIABLES of each module;
each variable is a table, a file, or a projection of one, unless its comment calls
it a history variable. Some choices:

* In `CardLog` one call is one action. Every function locks the card's row before
  it looks at anything else of it, and ends in one commit. A refused call and an
  idempotent replay change no table: they are stuttering steps.
* Authorisation is the environment: a call that is not authorised changes nothing,
  so every call is taken to be authorised. `namespace_id`, policy and origin
  strings are left out; digests are values that are equal or not.
* Time is abstract: a lease lapses, an expiry passes or a delay ends when the
  corresponding action happens. `now()` is fixed when a transaction begins, so
  `BeginWork` records whether the lease had lapsed by then. `StartupGate` alone has
  a clock: its time limits are compared with each other.
* In `PrivateCards` the variables hold what is committed. A call remembers the
  rows it found (`todo`) and the rows it has written (`wrote`); a row it locks is
  checked again, as PostgreSQL does under READ COMMITTED. The detector of
  deadlocks aborts one call of a cycle. `PublishFlow` takes each of these calls as
  one step, at its end, and asks what several requests and several cards make of
  each other. What a removal found by then is a choice (`Found`): its statement on the
  documents may have begun before the last merges, its statement on the bodies comes
  after the one it waited for. A merge that waits for a removal finds the card
  revoked and is refused.
* In `PublishFlow` a text is a value, `normal` is `_normalize_text`, and `Finds` says of
  which texts a search is sure: two of the first 32 terms of the one, in the order of
  the alphabet and ASCII alone, occur in the other (`local_search_terms`,
  `min_score`). A search that is sure of a card brings one up, maybe another, for it
  has a limit; one that is not sure may bring up any (`Candidates`). A text of too few
  such terms does not find itself. The instance has a text that does, one that
  does not, and one that takes two rounds of normalization to become stable, as a
  decomposed letter with a format character in its middle does.
* In `Migrations` an uncommitted row makes another writer of that row wait, and a
  migration is one transaction. Operators do not run up and down at the same time
  and change files only between runs; both are in the guards. `base` says whose
  objects the down script of a migration puts back (those of 0013 and 0016 have `create
  or replace`), and `restored` where that has happened and the objects still exist. Two
  things that down scripts leave on purpose are not counted: the vector extension
  (0017), and the form in which 0003 leaves a function of 0001 until 0001 goes.
* In `ClientConfig` the server that a live command posts to may redirect it, and
  who is redirected to again: `sent` holds pairs of the URL a command addressed and
  one that got the token by that.
* A tick of `StartupGate` is a second. `created_at` is cut to it and the time of a look is
  not, so a look compares the records with the second it is in or with the next.
* The host, the subagent, the model provider and the servers at configured URLs
  are external: they may do whatever the code's interfaces with them allow.
* Each module states its type invariant as `TypeOK` (or `AllTypeOK`). All are proved,
  `Writer`'s in its two halves. The runs
  spend their time on the properties below, which a wrong type would hardly leave
  standing.
* In a module that extends another, the whole is `AllInit`, `AllNext`, `AllSpec`, and
  `Init`, `Next`, `Spec` are the extended module's own. What one promises the
  other is then a formula, `AllSpec => Spec`, and a theorem (below).
* Operators named `Faulty…` are no part of any specification. Each is a plausible
  mistake in the operator after it; replacing that one by it makes the property
  that `PROJECT.json` names fail, in the same run.

## Runs

| Run (cfg) | Question and result |
|---|---|
| `card_log` (`MCCardLog`) | One card, two versions, payloads, challenges and keys, all operations. Projections follow the log, a replay has no second effect, consents are exact, a retained card has one, tombstones and status agree, the log is append-only, a revoked card never changes, and every step is one of `CardLifecycle`: all hold. |
| `job_queue` (`MCJobQueue`) | Two runners on one principal, one on its own, two sweeps. The attempts are a true history, the outbox row follows, ended means ended, and every job settles: holds. |
| `writer` (`MCWriter`) | Kernel, queue, two planners, two runners, a sweep and the owner. Success of a job and its transition are one thing: holds. |
| `writer_progress` (`MCWriterProgress`) | A card is moved out of each status that the writer handles the first time it is there with its version: holds, with fairness. |
| `handoffs` (`MCHandoffs`) | An operator, two challenges and the whole kernel. The status calls a handoff pending exactly when the owner can complete it; with handoffs the kernel is still `CardLog`; records are stored under a consent in force and purged for good: holds. |
| `final_filter` (`MCFinalFilterQueue`) | Three threads of two servers, a third server without a key, a blocked request and one that is not, answers of every kind. Pass is earned, one thread at a time and a final verdict as long as no lease is overrun, attempts bounded, and a verdict in the end in every case: holds. |
| `private_cards` (`MCPrivateCards`) | Publish, two merges, a revoke and a purge interleaved. Searches agree, no update is lost, a card in force is found, a purge after a removal completes it, every call ends: holds. |
| `publish_flow` (`MCPublishFlow`) | Two clients of any kind, two cards of three versions together, local commands. Two cards of which a search is sure and that nobody asked for exist only if their requests overlapped or a search failed; what is stored was approved; searches, view and local counts agree; a purge by the API leaves no text that was there when it began; what is withdrawn gets no version and no text: holds. |
| `client_config` (`MCClientConfig`) | Three commands, two URLs, servers that change what they are and redirect to each other or elsewhere. Commands send tokens to vetted URLs only, pin and cache agree in every interleaving, commands that do not overlap keep each other's settings: holds. |
| `startup_gate` (`MCStartupGate`) | Two prompts, up to two registrations, a clock. A delegated prompt starts nothing, what is told is on record and true, a second record within the window has an excuse: holds. |
| `migrations` (`MCMigrations`) | Three runners, three migrations of which the last puts objects of the first back, files of two contents. The schema is what the ledger says, but for what overlapping downs put back, and an up that succeeds has made the schema of its files and nothing else: holds. |
| `purge_race` (`MCPrivateCardsPurgeRace`) | Is a purge complete? **No**: it finds its documents in the snapshot of a statement and locks the card afterwards, so it misses the document of a merge update that commits meanwhile and reports success (`migrations/0016`, line 131; `tests/test_knudg_closed_api.py:1685` asserts that every row is purged and empty). The next purge completes it, which `private_cards` checks. |

### Where code and documents part

Read off the code while modelling, besides `purge_race`. The models follow the
code; no run is spent on these.

* A card discarded before its redaction and restored goes to `pending_review`
  (`migrations/0001`, line 4442), and from there to a retained card that was never
  redacted. `docs/product/strategy.md:356`: "redact before approval".
* The replay of `request_private_approval` joins a challenge on the card's current
  version (line 2674) and raises once redaction has made another version. RFC 0001,
  line 1245: "idempotent replay with the same digest returns the original effect".
* The key of a writer job does not tell two visits of a card to a status apart
  (`knudgctl.py:1525`): a card that comes back to `pending_redaction` with its
  version gets no job. `tests/test_m0_schema.py:2837` has the sweep enqueue a
  missing job. `FirstVisitMovesOn` is therefore about the first visit.
* A purge leaves the embedding of the text it empties (`migrations/0016`, line 131);
  `docs/architecture/security-privacy.md:382`: "can purge the object and all derived
  indexes". Neither search serves it: `SearchesAgree`.
* The runner of migrations that loses a race writes `failed` over the winner's
  `applied` (`migrate.py:89`), after which `up` refuses to run although the schema is
  complete. RFC 0001, line 1167: "The runner must record applied versions and
  checksums". `LedgerTellsSchema` is stated for rows that say applied and for rows
  that are not there.
* `local-private purge` of a card that a merge has updated purges its newest version
  and leaves the body of the older one (`knudgctl.py:1025`); `verify-fences` then
  still counts it, where `tests/test_m0_schema.py:3465` asserts
  `active_bodies == 0` after the purge of a card without merges. `ApiPurgeIsThorough`
  is about the API's purge, and about the versions there were when it began.
* The search for merge candidates knows a card by ASCII terms and asks for two of
  them (`knudgctl.py:568`, `knudg_closed_api.py:559`). A card in another script does
  not find itself: sent again after a lost answer it is stored a second time, and the
  answer does not say so. `NoSilentTwin` is about texts the search is sure of.
* Of two `down` runs that overlap, the later one finds rows gone and runs the scripts all
  the same: `0016.down.sql` then puts functions of 0006 back after `0006.down.sql` has
  dropped them, with no row in the ledger. `0003.down.sql` counts on the order: "The
  migration runner rolls all migrations down in reverse order". The next `up`
  replaces them (`SuccessMeansSchema`).
* The probes refuse a redirect, "redirects are not allowed" (`knudg_client_config.py:477`);
  `live_post_json` (`knudgctl.py:327`) follows one with the Authorization header. The pin
  therefore says whom a command trusts, not who may get the token: see
  `TokenGoesToVetted`.
* A worker that ends with code 2 and no output, as the interpreter does when it
  finds no script, is told of as one that "completed" with the status `None`
  (`knudg_startup_gate.py:325`).
* `approval-handoff status` computes a digest over `expires_at` as the database
  session prints it: in a session with another time zone than the one that created
  the handoff it is called blocked. `Zone` has one member in the instance.
* The posting tool sends the digest of a text normalized once; a text that takes two
  rounds is refused however often it is sent.
* A JSON answer of the provider with contradictory fields goes by the first of them.

### Bounds

The bounds are the sets in the cfg files, and the constants called bounds.

* Two keys let each operation of the kernel happen twice to a card, so a card is
  discarded, restored, invalidated and approved again, and revoked by one key and
  attacked with another; two versions suffice for a redaction that changes the
  payload, two challenges for one left over from before an invalidation. Cards
  share ids and epochs only; that this does no harm is proved: the theorems of
  `CardLogProofs` need none of these bounds.
* `MaxAttempts = 2` has a retry and a last attempt. `Patience` is the attempt from
  which on nothing crashes or stalls; it is 4 in `job_queue` and `final_filter`,
  two attempts beyond the limit, which the sweep and the lapsed leases make
  possible, and 2 in the runs of `Writer`, whose states include the kernel's.
  Without such a bound attempts would grow for ever and nothing would settle. For
  safety it is no restriction: the theorems hold for every `Patience` in Nat, as those
  of the start-up gate do for every `MaxTime`, and a step that broke an invariant
  would come after finitely many crashes, so under some bound.
  `Stalls` is FALSE in `writer_progress`: there no lease lapses under a live
  runner.
* The runs of `Writer` have one card and one version: its jobs carry no redacted
  payload, so the version does not change under them. The owner's keys stand for
  its calls.
* `handoffs` has the card's whole kernel with NULL as the expected version, which
  is never stale and so allows the most. One operator's command is in progress at
  a time; a second handoff of a challenge is refused by its key.
* Two merges, a revoke and a purge contain each pair of calls that can conflict,
  a deadlock, and a third call that comes after.
* `publish_flow`: two cards, since a twin needs no third; three versions
  in all, so that one card can have two that are superseded, and a purge miss one or
  two of them; four texts: a plain one that finds itself, and one that normalization
  changes twice, with the two it becomes, of which the first does not find itself and
  the second is rejected by the search.
* `client_config`: with three commands one can load, a second one overtake it and a
  third use the result. `migrations`: three runners, for one that waits behind a
  winner while another comes late; three migrations, for one before and one after, and
  for a down script whose base goes two steps later.
* `startup_gate`: a hook that may nudge has `HookTimeout = 2` and the same limit for
  its worker, so either may strike first; the environment that disables nudges has a
  limit of 1, which comes before the host's. `Window = 2` and `Lines = 2` are passed
  within `MaxTime = 4` and the four hooks of two turns. The two registrations are
  interchangeable there, since the plugin is enabled and either can be alone.
* Symmetry is used where only safety or refinement of interchangeable ids is
  checked, and never with liveness.

Deadlock is not checked: ids, keys, attempts, calls and time run out, so every
instance stops. That calls and jobs do not wait for each other is what
`EveryCallEnds`, `Settles` and `SettlesForGood` are for.

### Fairness

Weak fairness only, and never of a failure on its own.

* Runners, planners and sweeps: the commands are run again and again by an
  operator or a scheduler. Nothing in the repository does so; that is the
  assumption under which `Settles` and `FirstVisitMovesOn` are stated. A
  `RunnerStep` is one step of a process that has been started.
* Clock steps: leases lapse and delays end. For a queue with `Stalls`, or below
  `Patience`, this includes leases of live runners.
* Final filter: the scheduler thread loops for ever and the calls to the provider
  have a time limit, after which they fail; both are one `WorkerStep`.
* Private cards: the server goes on while any call can, the abort of a deadlock
  included. Each call makes finitely many steps, so no fairness per call is needed.

The owner, the users and the failures have no fairness: nothing depends on them.
`Handoffs`, `PublishFlow`, `ClientConfig`, `StartupGate` and `Migrations` are checked
for safety only: a request, a command, a hook or a runner that dies owes nothing,
and what must come of the others is up to people.

## Proofs

Every invariant and action property of the passing runs is proved by TLAPS for
every value of the constants, under the assumptions named in the modules, but for
`PendingCanComplete`, of which both halves are proved without its ENABLED. So is
that `CardLog` implements `CardLifecycle`, and that `Handoffs` and `Writer` implement
the modules they are made of. Of the liveness properties the parts that are safety
are proved: that there is a step to take as long as something is owed, and that
the steps lead somewhere. The list:

| Module | Theorem | Property |
|---|---|---|
| `CardLogProofs` | `TypeCorrect`, `AllTypeCorrect` | `TypeOK` of `CardLog`, `AllTypeOK` of `Handoffs` |
| | `StatusRebuildable` | `StatusFromLog` |
| | `CurrentNewest` | `CurrentIsNewest` |
| | `Idempotent` | `OneEffectPerKey` |
| | `ConsentIsExact` | `ConsentBinding` |
| | `NoRetentionWithoutConsent` | `RetainedWithConsent` |
| | `TombstonesAreRevocations` | `RevokedIffTombstone` |
| | `Finality`, `NothingRewritten` | `RevokedIsFinal`, `AppendOnly` (actions) |
| | `OneConsentPerCard` | `OneGrant`: a card has one consent record ever, for what it still is |
| | `KeepsThePromise` | `LifecycleSpec`: `CardLog` implements `CardLifecycle` |
| | `OwnerIsNotMisled` | `OwnerMayConclude`: what follows from `CardLifecycle` alone holds of the kernel |
| | `IntoTheKernel` | `KernelSpec`: `Handoffs` implements `CardLog` |
| | `UnderConsent` | `StoredUnderConsent` (action) |
| | `PendingOpens`, `CompletionWasPending` | `PendingIsOpen`, `OnlyPendingCompletes`: the halves of `PendingCanComplete` |
| `JobQueueProofs` | `TypeCorrect` | `TypeOK` |
| | `LedgerOfAttempts`, `OutboxTells` | `AttemptLedger`, `OutboxFollowsJob` |
| | `Finality` | `SettledIsFinal` (action) |
| | `IntoTheQueue`, `IntoTheKernel` | `AllSpec => Spec`, `AllSpec => Kernel!Spec`: `Writer` implements both its parts |
| | `EffectOfJobs` | `JobEffect` |
| | `WorkIsAccepted` | the safety core of `FirstVisitMovesOn` |
| | `AttemptsEnd`, `LastAttemptsAttended`, `CourseOfJobs`, `NoStandstill` | the safety core of `Settles` (invariants, and the action property `Course`) |
| `FinalFilterProofs` | `TypeCorrect`, `FailsClosed`, `OneWorker`, `Attempts` | `TypeOK`, `PassIsEarned`, `SoleWorker`, `AttemptsBounded` |
| | `Finality` | `VerdictIsFinal` (action) |
| | `AttemptsEnd`, `NoStandstill`, `SettledStays` | the safety core of `SettlesForGood` |
| `PrivateCardsProofs` | `TypeCorrect`, `Found`, `Searches`, `Merges`, `SecondPurge` | `TypeOK`, `AlwaysFound`, `SearchesAgree`, `NoLostUpdate`, `SecondPurgeCompletes` |
| | `PurgesWhatWasThere` | what a purge achieves although it may miss a merge (compare `purge_race`) |
| | `CallsAdvance`, `NoStandstill` | the safety core of `EveryCallEnds` |
| `PublishFlowProofs` | `TypeCorrect`, `AsApproved`, `OneView`, `PurgeIsThorough`, `NoTwin` | `TypeOK`, `StoredAsApproved`, `SurfacesAgree`, `ApiPurgeIsThorough`, `NoSilentTwin` |
| | `Finality` | `WithdrawnIsFinal` (action) |
| `ClientConfigProofs` | `TypeCorrect`, `TokenSafety`, `PinCache`, `Keeps` | `TypeOK`, `TokenGoesToVetted`, `PinAndCacheAgree`, `SettingsKept` |
| `MigrationsProofs` | `TypeCorrect`, `LedgerIsTrue`, `UpMeansSchema` | `TypeOK`, `LedgerTellsSchema`, `SuccessMeansSchema` |
| `StartupGateProofs` | `TypeCorrect`, `DelegationEnds`, `ToldTheTruth`, `NoRepeats` | `TypeOK`, `NoRecursion`, `ContextIsTrue`, `RepeatIsSilent` |

### The kernel

Most actions end in `Advance`. The lemmas first reduce `Next` to eight kinds of
step (`StepCases`) and then to three (`StepKinds`: a submission, a step of one card
that exists, a step that leaves the log alone), say once what `Advance` does
(`AdvanceTypes`, `CardStepEffect`), and go through the kinds. The inductive
invariant `IInv` is the conjunction of the invariants below:

1. `TypeInv`, that is `TypeOK` and `CurrentIsNewest` together. Types alone are not
   inductive: `complete_redaction` numbers a version one above the largest number
   of the card, and `CHOOSE` has a value only because the current version has that
   number (`MaxNumberOfCurrent`). `CurrentIsNewest` in turn needs types, and that
   every version row belongs to a card that exists and has a payload.
2. `StatusFromLog` and `OneEffectPerKey`, each relative to `TypeInv`. An
   idempotency row names a position within its card's log, so the row of the next
   position cannot clash with one that is there.
3. `ConsentBinding` needs that version rows and the creators of cards are never
   rewritten (`VersionsKept`, `CreatorKept`), so that what a challenge asked about
   stays what it was.
4. `RetainedWithConsent` needs `ConsentBinding`: when a consent ends, its record is
   replaced by one that differs in the terminating key alone.
5. `RevokedIffTombstone` needs `TypeInv` (a version belongs to one card, so the
   tombstone of a version hides one card) and `StatusFromLog` (a card with a
   tombstone has a log, so it exists: `TombHides`).

`RevokedIsFinal` follows from `IInv`: a step changes a card only if the card is
visible, which for a revoked card `RevokedIffTombstone` excludes, or absent.
`AppendOnly` follows from it too, one lemma for each kind of row (`LogKept`,
`VersionsKept`, `RowsKept`, `SpentKept`, `ConsentsKept`). That a spent challenge
stays spent needs `ConsentBinding`: a challenge with a consent has a version, so
no later request for approval can take its id and reset it.

`OneGrant` is inductive relative to `IInv`: a card that has a consent record is
approved_private or revoked, no transition leads from either back to
awaiting_user_approval, and so the approval that would make a second record finds
none. A user who ends a consent ends it for that card: the card cannot be approved
again, with another challenge or another version.

**Refinement** (`KeepsThePromise`). The mapping reads a card's stage off its log, the
cards held under consent off the consents, and the order of revocations off the
epochs of the tombstones. `StageRead` turns the log into the status
(`StatusFromLog`), so a step moves the stage of at most one card
(`CardStepMoves`, `OtherStages`). The steps the owner sees are approval, which takes a
consent and is the only way to "retained" (`ApproveMoves`; before it
`NothingHeld`, for a card that is asked has no consent in force), revocation, whose
tombstone has the next epoch (`RevokeMoves`), and the end of a consent
(`EndsConsent`); the others change stages or are stutters (`LifecycleSteps`).

`PromiseConcludes` is about `CardLifecycle` alone, read in the mapped variables: that
a consent is in force only on a card that is, or was until its revocation, retained,
and that the sequence of revocations has no repeats and names exactly the revoked
cards. `OwnerIsNotMisled` is then one line, and by `IntoTheKernel` it holds of the
handoffs and the writer as well.

**Handoffs.** `AllIInv` is `IInv` with `Carried`: what a command has picked and what
was handed off names a version of a card and stands under its own digest. With it
every step of `Handoffs` is a step of the kernel or leaves its tables alone
(`StepOfKernel`), so all of the above holds of the whole. `UnderConsent` needs
`ConsentBinding` besides, for the subject. For `PendingOpens` each check of the completion and
of the kernel is found among the status's twelve; for `CompletionWasPending` each of
the twelve is found in theirs or in the invariant: `TombHides` says that the
version's and the card's tombstones are the same thing, `ConsentBinding` that a
challenge that is not spent has no consent.

### The queue and the writer

A runner claims, works and reports in three transactions, and what it reports is
about the attempt it remembers. `AttemptLedger` says what the attempts are; it is
inductive together with `OutboxFollowsJob`, types, that only a ready job is put off,
and `SweepsKnow`: a row that a sweep read earlier names an attempt that was made,
and when it is still the lease in force that lease has lapsed. Without the second half a
sweep could release the lease of a live runner. `Kept` collects what is shown of
each step, settled rows and ended attempts included, so that `SettledIsFinal` comes
out of the same lemmas.

`Writer` does to the queue what the queue does alone (`StepOfQueue`), so
`IntoTheQueue` carries its theorems over. To the kernel it does what `CardLog` allows
when the arguments of its calls are in the kernel's sets: a job's card and version
are, by `WriterAssumption`; that the digest handed to `complete_redaction` is one
needs `Standing` (rows are rows, a card that exists stands at a version, and that has
a digest). So the theorems of `CardLogProofs` hold of `Kernel`, with versions and
owner's keys for its keys; that last substitution is the reader's, for the prover
cannot cite a theorem through INSTANCE. `KernelAssumption` is what `CardLog` assumes,
under it.

`EffectOfJobs`: a job succeeds only in the step that makes its
transition (`NoSuccess`, `DispatchMakes`); nobody else can make it, because no
owner's call has a writer's operation and key (`OwnerMakesNone`, where `OwnerKey` and
`Version` are disjoint), and its idempotency row stays. It has a consequence the code
does not count on: the kernel's replay, there for a runner that comes twice, is
never met by one that can complete its job (`WorkIsAccepted`).

What `Settles` rests on: `Course` says what a step may make of a job (`JobCourse`), and
`InHand` that a job which waits has attempts left, and that a lease which can lapse no
more is attended by the very runner that claimed it. The second is the hard part: a
second runner of the same principal, late with an older attempt, may complete or fail
the job, but cannot leave it leased; and the one that attends it cannot end without
changing the job (`AttendsStays`), as its lease has not lapsed and so `fail_job` is not
refused. `AttemptsEnd` bounds the attempts by the larger of `MaxAttempts` and
`Patience`, and `NoStandstill` finds a runner, a sweep or the clock that can act.

### The final filter

`PassIsSaid` and `PassIsHeard` are about operators: of all values `Coerce` and
`ParseWords` can be given, they make pass only of an answer that says so. `Earned` then follows a pass
from the answer to the thread, the row and the caller. `Sole`: until a lease of a
request is overrun, the threads that have the request are one at most, and that
one's attempt is the row's. `AttemptsBounded` is a count: `Ahead` is the number of
claims still to come without a further lapse, which is the number of threads that
may put the request back plus one if it can be claimed now; a claim consumes one,
a lapse adds one, nothing else adds any.

What `SettlesForGood` rests on: each attempt has one lease and each lease lapses once
(`InHand`), and from attempt `Patience` on a lease has the thread that claimed it, so
lapses, and with `AttemptsBounded` claims, come to an end. A late thread may write
over a verdict and even queue the request again; but a verdict with no thread left at
work on the request is there to stay (`SettledStays`), and until then
`NoStandstill` has a step.

### Private cards

The invariant says where each kind of call can be (`Place`), what it remembers
(`Memory`), what it holds (`Hold`) and what it leaves to be done (`Leave`). `Hold` is
what row locks give: what a removal has written and not committed nobody has
changed. `Leave` is why a second purge is complete: a document that is not gone is
among the rows found or written, or will be found by the next statement, because
after the card is revoked no merge commits. That the versions are enough is a
count (`Past`): each version after the first took a merger of its own. `Kinds` gets
from the cardinalities of `CallAssumption` that no call is of two kinds.

`PurgesWhatWasThere` is the other side of `purge_race`. What a purge is bound to clear
(`Clearing`) are the versions up to the one that was current when it began: each is
gone, or the purge has written it, or has it on its list, or will find it in its
next statement. What is gone stays gone (`GoneStays`), as a merge writes a new version
only.

For `EveryCallEnds`, `Advances` measures a call by its stage and the rows left to it:
each step brings one call forward and no other back (`CallsAdvance`). `NoStandstill` is
an argument about cycles. `Locks` says which rows a call holds and waits for. A call that
cannot proceed waits for a lock that another call holds (`StuckWaits`), and that call
cannot proceed either; among the sets of waiting calls that are closed under this
there is a minimal one (`Cycle`, by the well-founded order of finite sets), and in
it the deadlock detector finds its victim.

### Publish flow

Each step that changes a card is one of three: it files a new card, merges a
version into one, or withdraws versions of one (`Files`, `Merges`, `Withdraws`;
`StepCards`). What the three do is said once (`FilesEffect` …), and each property is
taken through the three. What a request carries from its search to its insert is
in `Sane`: that its user approved the text it will store, and, if nobody was asked, that no
card it saw is a rival; a card that was not a rival then does not become one, since
a card that is withdrawn stays so and a merge is always of a decided request. A card
it did not see overlapped with it, which is what `NoSilentTwin` allows, and a text the
search is not sure of is none of its business. `ApiPurgeIsThorough` holds for any
outcome of `Found`: what a purge had to find it has emptied, what it missed is not
counted, and since the card is revoked no merge adds to it (`Standing`).

### Configuration, migrations, start-up gate

* A command holds a configuration that it may yet write and a URL that it may yet
  send the token to, so `Vetting` is about these as about the file. `Keeping`: as
  long as no two commands overlapped, the one under way is about to write what the
  others wanted, but for its own part. Both need `Aimed`: a command that talks to a
  server has its URL.
* A token's way begins at the URL of a command (`sent`), whatever redirects follow,
  and that is what `Vetting` carries.
* `LedgerTellsSchema` is inductive with the types and places of the runners; each
  migration is one transaction. For what downs put back it needs that a lone down
  goes backwards (`Alone`): what a script puts back belongs to an earlier migration,
  whose row is still there (`Prefix`), and goes when that one's script runs.
  `SuccessMeansSchema` needs `Passed`: a runner of `up`
  stands behind nothing that is not applied from the files as they are. That nobody
  takes it away again is `OneCommand`, and that is the operators' guard.
* `ContextIsTrue` follows a verdict from the worker to the line in the log to the
  context (`Truthful`). `RepeatIsSilent` needs `Looked`: a hook that is past its look
  saw no recent record of its prompt, and in an `Ordered` log what was not recent
  does not become so. `NoRecursion` needs `Turns`: a subagent's prompt is delegated.

### Assumptions

All are about constants, and named in the modules. Bounds are numbers
(`BoundAssumption`, `LastAssumption`, `TimeAssumption`), sets of inputs are within their
types (`ExpectedAssumption`, `BlockedAssumption`, `AnswerAssumption`, `InstallsAssumption`,
`CapabilitiesAssumption`, `TextAssumption`), functions are total (`PrincipalAssumption`,
`ServerAssumption`), and null values are not values (`NoneAssumption`, `NullAssumption`,
`NoJobAssumption`, `NoRowAssumption`, `PinAssumption`, `NullRowAssumption`,
`KernelAssumption`): SQL, JSON and Python tell NULL, `null` and `None` from any id or
row. The others say something of the code:

* `WriterAssumption`: jobs are operation, card and version, as their idempotency key
  `writer:<operation>:<card>:<version>` is built (`knudgctl.py:1525`), and no owner's key
  is one of these.
* `WorkerAssumption`, `CallAssumption`: threads and calls are finitely many; the calls
  are of one kind each, and one of them publishes the card.
* `DelegatedAssumption`: a delegated prompt bears the marker that the hook looks for, as
  the context tells the agent to write it. `VerdictsAssumption`: the worker's verdicts
  are none of the words the hook uses for itself.
* `DefaultAssumption`: the defaults of the configuration are among its values.
  `TargetAssumption`: a server may redirect to any URL that a command can use.
* `BaseAssumption`: a down script puts back objects of an earlier migration only, of one.

TLC evaluates all of them on the instances of the runs.

### Only model-checked

* Liveness under fairness is beyond the prover: `Settles`, `FirstVisitMovesOn`,
  `SettlesForGood`, `EveryCallEnds`. The core of each is proved: no standstill, and
  steps that advance or are bounded in number. `RunnerCan`, `SweepCan`, `ClockCan`,
  `WorkerCan` and `CanProceed` are the guards of the actions, that is their conjuncts
  without primes; that an action with a true guard is enabled, as each sets every
  variable outright, and the step from there to "eventually" are left to TLC. Of
  `FirstVisitMovesOn` the queue's half is covered by `IntoTheQueue` and the kernel's by
  `WorkIsAccepted`, but for a challenge id that is still free.
* `PendingCanComplete` uses ENABLED, which the prover cannot expand. `PendingIsOpen` says
  the same in guards: of the status's verdict that nothing refuses the call. What
  is left to TLC is that a conjunction of assignments to different variables is
  possible.
* That `purge_race` is a violation: a trace of TLC's.

No module has a RECURSIVE operator; nothing is claimed of recursively defined data
but what the library's theorems on sequences and finite sets say.

## What is not modelled

Publication: `knudg_withdraw_publication_approval`, and the reviewer and index
rows of the transition table, to which no function of the repository leads.
Revocation of tenants and namespaces. Claims, row level security and bound
wrappers, which decide whether a call happens and keep no state the others
change. Validation of payloads other than the normalization of text, canonical
digests, the domain policy registry, task profiles: pure functions. Rendering of
pages. The order of what the searches find, which decides only what the limit cuts off
(`Candidates` leaves that open), value events, audit events. The start rate limiter
only delays; its effect across processes needs a clock. The final filter's statistics, and its fallback to a direct evaluation when
the table is missing, which the evaluation itself covers. `doctor`, `status`,
`reconcile` and dry runs change nothing. Release tooling, site and schemas.

The kernel as one action per call leaves out what PostgreSQL does inside one: the
snapshots of its statements, the wait for the card's lock, and that
`event_stream_position` is drawn before the commit. The
completion of a handoff is one action too, so the order in which it takes its locks
and that of `approve_private_retention` are not compared.

## Plan

To prove, should the prover learn about ENABLED: `PendingCanComplete` from its halves,
and the liveness properties from their cores.

To model, if the project grows: `CardTx`, the kernel's calls with their snapshot,
lock wait and commit, shown to implement `CardLog`; the rate limiter with a clock; the
planner's window over many cards.
