---------------------------- MODULE StartupGate ----------------------------
(* The UserPromptSubmit hook of the Codex plugin (knudg_startup_gate.py), the *)
(* worker it spawns (knudg_startup_worker.py) and the `knudgctl live nudge'   *)
(* that the worker runs.  A prompt starts one hook process for every          *)
(* registration the host has loaded; hooks of all sessions share one log.     *)
(* A turn that is told to use Knudg delegates to a subagent, whose prompt is  *)
(* a turn of its own and starts the hooks again.                              *)
(*                                                                            *)
(* Time is a counter: a wait that has a limit does not outlast it.  Patterns  *)
(* over the prompt's text are a set of the kinds that match; the host, the    *)
(* subagent and the backend are external.                                     *)
EXTENDS Naturals, Sequences, FiniteSets, SequencesExt

CONSTANTS
  Turn,           \* submissions of a prompt
  Prompt,         \* prompts, with their working directory
  Matches,        \* [Prompt -> SUBSET Pattern]
  InKnudg,        \* [Prompt -> BOOLEAN], the directory is in the workspace
  Delegated,      \* the prompts that subagents are given
  Global, Plugin, \* the registrations: the older global hook, the plugin's own
  Installs,       \* what the host's files register, and if the plugin is enabled
  Verdicts,       \* statuses of a verdict that the backend's answer can give
  Environments,   \* KNUDG_STARTUP_GATE_DISABLE_NUDGE and _NUDGE_TIMEOUT_SECONDS
  HookTimeout,    \* "timeout" of hooks.json
  Window,         \* DEDUP_WINDOW
  Lines,          \* lines of the log that recently_logged looks at
  MaxTime,        \* bound on the clock
  Null

Registration == {Global, Plugin}
Hook == Turn \X Registration
Pattern == {"empty", "opt_out", "marker", "trivial", "ask", "small_edit",
            "high_value", "technical", "mention"}

ASSUME InstallsAssumption == Installs \subseteq [hooks : SUBSET Registration, enabled : BOOLEAN]
ASSUME DelegatedAssumption ==
  Delegated \subseteq Prompt /\ \A p \in Delegated : "marker" \in Matches[p]
\* No verdict has the status of a run that got none.
ASSUME VerdictsAssumption == Verdicts \cap {"none", "disabled", "unavailable"} = {}
ASSUME TimeAssumption ==
  /\ HookTimeout \in Nat /\ Environments \subseteq [disabled : BOOLEAN, timeout : Nat]
  /\ Window \in Nat /\ Lines \in Nat /\ MaxTime \in Nat

VARIABLES
  install,   \* which hooks the host's files register
  env,       \* the environment of the hooks
  clock,
  turn,      \* [Turn -> the prompt and the depth of delegation, or Null]
  hook,      \* [Hook -> the process]
  worker,    \* [Hook -> the worker it spawned, and its knudgctl]
  log        \* startup-gate-events.jsonl

vars == <<install, env, clock, turn, hook, worker, log>>

Decision == {"skip", "ask", "run"}
Result == {"none", "disabled", "unavailable"} \cup Verdicts
\* `looked' is a history: the length of the log when the record's hook read it.
Record == [at : 0 .. MaxTime, prompt : Prompt, decision : Decision,
           result : Result, looked : Nat]

ASSUME NullAssumption == Null \notin [prompt : Prompt, depth : Nat]

TypeOK ==
  /\ install \in Installs
  /\ env \in Environments
  /\ clock \in 0 .. MaxTime
  /\ turn \in [Turn -> [prompt : Prompt, depth : Nat] \cup {Null}]
  /\ hook \in [Hook -> [step : {"none", "check", "wait", "append", "emit", "ended"},
                        since : 0 .. MaxTime, looked : Nat, result : Result,
                        context : Decision \cup {"none"}]]
  /\ worker \in [Hook -> {"none", "calling", "answered", "failed"}]
  /\ log \in Seq(Record)

Init ==
  /\ install \in Installs
  /\ env \in Environments
  /\ clock = 0
  /\ turn = [t \in Turn |-> Null]
  /\ hook = [h \in Hook |-> [step |-> "none", since |-> 0, looked |-> 0,
                             result |-> "none", context |-> "none"]]
  /\ worker = [h \in Hook |-> "none"]
  /\ log = << >>

------------------------------------------------------------------------------
(* The decision. *)

FaultyDecide(p) ==
  LET m == Matches[p] IN
  IF m \cap {"empty", "opt_out", "trivial"} # {} THEN "skip"
  ELSE IF "ask" \in m THEN "ask"
  ELSE IF InKnudg[p] /\ "small_edit" \in m /\ "high_value" \notin m THEN "skip"
  ELSE IF InKnudg[p] /\ "technical" \in m THEN "run"
  ELSE IF "marker" \in m THEN "skip"
  ELSE IF InKnudg[p] \/ "mention" \in m THEN "run" ELSE "skip"

\* The first rule that applies, as a function of what the prompt matches.
Decide(p) ==
  LET m == Matches[p] IN
  IF m \cap {"empty", "opt_out", "marker", "trivial"} # {} THEN "skip"
  ELSE IF "ask" \in m THEN "ask"
  ELSE IF InKnudg[p] /\ "small_edit" \in m /\ "high_value" \notin m THEN "skip"
  ELSE IF InKnudg[p] \/ "mention" \in m THEN "run" ELSE "skip"

FaultyRecentlyLogged(p, now) ==
  log # << >> /\ LET l == Last(log) IN l.prompt = p /\ now - l.at <= Window

\* The newest records are looked at first, until one is too old.  A tick of the
\* clock is a second: created_at is cut to it, now is not, so that now is the
\* clock or (nearly) a second more.
RecentlyLogged(p, now) ==
  LET first == IF Len(log) > Lines THEN Len(log) - Lines + 1 ELSE 1 IN
  \E i \in first .. Len(log) :
    /\ log[i].prompt = p
    /\ \A j \in i .. Len(log) : now - log[j].at <= Window

------------------------------------------------------------------------------
(* The host. *)

\* The registrations that run (read from its files, as --diagnose-install does).
Registered == {r \in install.hooks : r = Plugin => install.enabled}

Begin(t, p, depth) ==
  /\ turn[t] = Null
  /\ clock + HookTimeout <= MaxTime
  /\ turn' = [turn EXCEPT ![t] = [prompt |-> p, depth |-> depth]]
  /\ hook' = [h \in Hook |-> IF h[1] = t /\ h[2] \in Registered
                             THEN [hook[h] EXCEPT !.step = "check", !.since = clock]
                             ELSE hook[h]]
  /\ UNCHANGED <<install, env, clock, worker, log>>

Submit(t, p) == Begin(t, p, 0)

\* The agent does what the context asks for: it starts a subagent.
Delegate(h, t, p) == hook[h].context = "run" /\ Begin(t, p, turn[h[1]].depth + 1)

\* The process ends, or is ended, with what it has printed.
End(h, result, context) ==
  hook' = [hook EXCEPT ![h] = [step |-> "ended", since |-> 0, looked |-> 0,
                               result |-> result, context |-> context]]

\* The host gives up on a hook: its process is killed, its worker is not.
Kill(h) ==
  /\ hook[h].step \notin {"none", "ended"}
  /\ clock >= hook[h].since + HookTimeout
  /\ End(h, "none", "none")
  /\ UNCHANGED <<install, env, clock, turn, worker, log>>

------------------------------------------------------------------------------
(* output_for. *)

PromptOf(h) == turn[h[1]].prompt
ToAppend(h, looked, result) ==
  hook' = [hook EXCEPT ![h].step = "append", ![h].looked = looked, ![h].result = result]

Proceed(h, looked) ==
  IF Decide(PromptOf(h)) = "run"
  THEN \/ /\ hook' = [hook EXCEPT ![h].step = "wait", ![h].looked = looked]
          /\ worker' = [worker EXCEPT ![h] = "calling"]
       \/ ToAppend(h, looked, "unavailable") /\ UNCHANGED worker
  ELSE ToAppend(h, looked, "none") /\ UNCHANGED worker

\* decide, then recently_logged, before anything is started; a log that cannot
\* be read suppresses nothing (looked |-> 0).
Check(h) ==
  /\ hook[h].step = "check"
  /\ \/ \E now \in {clock, clock + 1} :
          \/ RecentlyLogged(PromptOf(h), now) /\ End(h, "none", "none") /\ UNCHANGED worker
          \/ ~ RecentlyLogged(PromptOf(h), now) /\ Proceed(h, Len(log))
     \/ Proceed(h, 0)
  /\ UNCHANGED <<install, env, clock, turn, log>>

\* append_decision: a record that cannot be written ends the hook without a
\* context.
AppendDecision(h) ==
  LET p == PromptOf(h) IN
  /\ hook[h].step = "append"
  /\ \/ /\ log' = Append(log, [at |-> clock, prompt |-> p, decision |-> Decide(p),
                               result |-> hook[h].result, looked |-> hook[h].looked])
        /\ hook' = [hook EXCEPT ![h].step = "emit"]
     \/ End(h, "none", "none") /\ UNCHANGED log
  /\ UNCHANGED <<install, env, clock, turn, worker>>

\* additional_context, printed.
Emit(h) ==
  /\ hook[h].step = "emit"
  /\ End(h, hook[h].result, IF Decide(PromptOf(h)) = "skip" THEN "none" ELSE Decide(PromptOf(h)))
  /\ UNCHANGED <<install, env, clock, turn, worker, log>>

------------------------------------------------------------------------------
(* run_startup_worker, the worker and its knudgctl. *)

\* What live_nudge of knudgctl can end with: it never reached the server, which
\* is an error, or the server answered; a refusal is a degraded verdict.
Nudge == [ok : {FALSE}, verdict : {"none"}] \cup [ok : {TRUE}, verdict : Verdicts]

\* An error without a verdict is taken for an empty search.
FaultySummary(n) == IF n.ok THEN n.verdict ELSE "no_actionable_signal"

Summary(n) == IF n.ok THEN n.verdict ELSE "unavailable"

\* The worker exits and the gate reads its reply.
Reply(h, state, result) ==
  /\ hook[h].step = "wait" /\ worker[h] = "calling"
  /\ worker' = [worker EXCEPT ![h] = state]
  /\ ToAppend(h, hook[h].looked, result)
  /\ UNCHANGED <<install, env, clock, turn, log>>

\* An exit with code 2 and no output (the interpreter found no script to run) is
\* taken for a run that completed, without a status.
Nudged(h) ==
  \/ Reply(h, "failed", "none")
  \/ env.disabled /\ Reply(h, "failed", "disabled")
  \/ /\ ~ env.disabled
     /\ \E n \in Nudge : Reply(h, IF n.ok THEN "answered" ELSE "failed", Summary(n))

\* Both waits have the same limit: the gate kills its worker (whose knudgctl
\* runs on), or the worker gives up on knudgctl and says so just in time.
NudgeTimeout(h) ==
  clock >= hook[h].since + env.timeout /\ Reply(h, "failed", "unavailable")

------------------------------------------------------------------------------
\* Only the wait for a worker takes time, and no wait outlasts its limit.
Tick ==
  /\ clock < MaxTime
  /\ \A h \in Hook :
       \/ hook[h].step \in {"none", "ended"}
       \/ /\ hook[h].step = "wait"
          /\ clock < hook[h].since + HookTimeout
          /\ clock < hook[h].since + env.timeout
  /\ clock' = clock + 1
  /\ UNCHANGED <<install, env, turn, hook, worker, log>>

HookStep(h) == Check(h) \/ Nudged(h) \/ NudgeTimeout(h) \/ AppendDecision(h) \/ Emit(h)

Next ==
  \/ \E t \in Turn, p \in Prompt \ Delegated : Submit(t, p)
  \/ \E h \in Hook, t \in Turn, p \in Delegated : Delegate(h, t, p)
  \/ \E h \in Hook : HookStep(h) \/ Kill(h)
  \/ Tick

Spec == Init /\ [][Next]_vars

------------------------------------------------------------------------------
\* Delegation does not feed itself: whatever a delegated prompt says besides its
\* marker, its hooks start no worker and tell the subagent nothing, so no turn is
\* deeper than one (decide and its order of rules, knudg_startup_gate.py).
NoRecursion ==
  /\ \A t \in Turn : turn[t] # Null => turn[t].depth <= 1
  /\ \A h \in Hook :
       (turn[h[1]] # Null /\ turn[h[1]].depth > 0) =>
         worker[h] = "none" /\ hook[h].context = "none"

\* What a turn is told is true and on record: a context has its line in the log,
\* with the same decision and result, and a verdict in it is one the backend gave
\* to this hook's own worker before either of their time limits cut the wait
\* (output_for, run_startup_worker, run_live_nudge).  A worker that ends with code 2
\* and no output is told of as one that completed, but with no verdict.
ContextIsTrue ==
  \A h \in Hook : hook[h].context # "none" =>
    /\ \E i \in 1 .. Len(log) :
         /\ log[i].prompt = PromptOf(h)
         /\ log[i].decision = hook[h].context /\ log[i].result = hook[h].result
    /\ hook[h].result \in Verdicts => worker[h] = "answered"

\* A prompt is not told twice: two records of a prompt within the window are those
\* of hooks that ran side by side, the later one had looked before the earlier
\* was written (or could not look), or the log had moved on by more lines than a
\* hook reads (recently_logged, output_for).
RepeatIsSilent ==
  \A i, j \in 1 .. Len(log) :
    (i < j /\ log[i].prompt = log[j].prompt /\ log[j].at - log[i].at < Window) =>
      log[j].looked < i \/ log[j].looked - i >= Lines
=============================================================================
