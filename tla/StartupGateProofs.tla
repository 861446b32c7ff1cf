-------------------------- MODULE StartupGateProofs --------------------------
(* StartupGate, proved for any number of turns, registrations and prompts:   *)
(* delegation does not feed itself, what a turn is told is true and on       *)
(* record, and a prompt is not told twice.                                   *)
EXTENDS StartupGate, TLAPS

\* A line of the log that says what hook h has to say.
Recorded(h, decision) ==
  \E i \in 1 .. Len(log) :
    /\ log[i].prompt = PromptOf(h)
    /\ log[i].decision = decision /\ log[i].result = hook[h].result

\* Subagents are given delegated prompts, and start none themselves.
Turns ==
  \A t \in Turn : turn[t] # Null /\ turn[t].depth > 0 =>
    turn[t].prompt \in Delegated /\ turn[t].depth = 1

\* A hook belongs to a turn; only one whose prompt is to run starts a worker,
\* and only one that has ended has told the turn something.
Belongs(h) ==
  /\ hook[h].step # "none" => turn[h[1]] # Null
  /\ worker[h] # "none" => hook[h].step # "none" /\ Decide(PromptOf(h)) = "run"
  /\ hook[h].context # "none" =>
       /\ hook[h].step = "ended" /\ hook[h].context # "skip"
       /\ hook[h].context = Decide(PromptOf(h))

\* A verdict a hook holds is its worker's, and what it is about to print or has
\* printed is in the log.
Truthful(h) ==
  /\ hook[h].step \in {"append", "emit"} \/ hook[h].context # "none" =>
       (hook[h].result \in Verdicts => worker[h] = "answered")
  /\ hook[h].step = "emit" => Recorded(h, Decide(PromptOf(h)))
  /\ hook[h].context # "none" => Recorded(h, hook[h].context)

\* What a hook that is past its look at the log has seen: no recent record of
\* its prompt among the lines it looked at.
Looked(h) ==
  hook[h].step \in {"wait", "append"} =>
    /\ hook[h].looked <= Len(log)
    /\ \A i \in 1 .. hook[h].looked :
         (log[i].prompt = PromptOf(h) /\ hook[h].looked - i < Lines) =>
           clock - log[i].at >= Window

Sane(h) == Belongs(h) /\ Truthful(h) /\ Looked(h)

\* The log is in the order of time.
Ordered ==
  /\ \A i \in 1 .. Len(log) : log[i].at <= clock
  /\ \A i, j \in 1 .. Len(log) : i <= j => log[i].at <= log[j].at

IInv ==
  /\ TypeOK
  /\ Turns
  /\ \A h \in Hook : Sane(h)
  /\ Ordered
  /\ RepeatIsSilent

-----------------------------------------------------------------------------
(* The decision, and what a step leaves alone. *)

HookState == [step : {"none", "check", "wait", "append", "emit", "ended"},
              since : 0 .. MaxTime, looked : Nat, result : Result,
              context : Decision \cup {"none"}]
WorkerState == {"none", "calling", "answered", "failed"}

\* Every prompt is decided, a delegated one always the same way.
LEMMA Decided ==
  /\ \A p : Decide(p) \in Decision
  /\ \A p \in Delegated : Decide(p) = "skip"
BY DelegatedAssumption DEF Decide, Decision

\* The types of what belongs to one hook.
LEMMA HookTypes ==
  ASSUME TypeOK, NEW h \in Hook
  PROVE  /\ hook \in [Hook -> HookState] /\ worker \in [Hook -> WorkerState]
         /\ hook[h] \in HookState /\ worker[h] \in WorkerState
         /\ h[1] \in Turn /\ h[2] \in Registration
         /\ turn[h[1]] # Null => turn[h[1]] \in [prompt : Prompt, depth : Nat]
BY DEF TypeOK, HookState, WorkerState, Hook

\* Each line of the log is a record.
LEMMA LogTypes ==
  ASSUME TypeOK
  PROVE  /\ Len(log) \in Nat
         /\ \A i \in 1 .. Len(log) : log[i] \in Record /\ log[i].at \in Nat
<1>1. log \in Seq(Record)
  BY DEF TypeOK
<1>2. \A i \in 1 .. Len(log) : log[i] \in Record
  BY <1>1
<1>3. \A r \in Record : r.at \in Nat
  BY TimeAssumption DEF Record
<1> QED BY <1>1, <1>2, <1>3

\* A hook that does not step stays sane while time passes and the log grows.
LEMMA OthersKeep ==
  ASSUME TypeOK, NEW g \in Hook, Sane(g), turn'[g[1]] = turn[g[1]],
         hook'[g] = hook[g], worker'[g] = worker[g],
         clock' \in Nat, clock' >= clock, Len(log') \in Nat, Len(log') >= Len(log),
         \A i \in 1 .. Len(log) : log'[i] = log[i]
  PROVE  Sane(g)'
<1>1. Len(log) \in Nat /\ clock \in Nat /\ hook[g].looked \in Nat
  BY LogTypes, HookTypes, TimeAssumption DEF TypeOK, HookState
<1>2. Belongs(g)'
  BY DEF Sane, Belongs, PromptOf
<1>3. \A d : Recorded(g, d) => Recorded(g, d)'
  <2>1. ASSUME NEW d, NEW i \in 1 .. Len(log), log[i].prompt = PromptOf(g),
               log[i].decision = d, log[i].result = hook[g].result
        PROVE  Recorded(g, d)'
    <3>1. i \in 1 .. Len(log') /\ log'[i] = log[i]
      BY <1>1
    <3> QED BY <2>1, <3>1 DEF Recorded, PromptOf
  <2> QED BY <2>1 DEF Recorded
<1>4. Truthful(g)'
  <2>1. PromptOf(g)' = PromptOf(g)
    BY DEF PromptOf
  <2>2. Decide(PromptOf(g))' = Decide(PromptOf(g))
    BY <2>1 DEF Decide
  <2> QED BY <1>3, <2>2 DEF Sane, Truthful
<1>5. Looked(g)'
  <2> SUFFICES ASSUME hook[g].step \in {"wait", "append"}
               PROVE  /\ hook[g].looked <= Len(log')
                      /\ \A i \in 1 .. hook[g].looked :
                           (log'[i].prompt = PromptOf(g) /\ hook[g].looked - i < Lines) =>
                              clock' - log'[i].at >= Window
    BY DEF Looked, PromptOf
  <2>1. hook[g].looked <= Len(log)
    BY DEF Sane, Looked
  <2>2. ASSUME NEW i \in 1 .. hook[g].looked, log'[i].prompt = PromptOf(g),
               hook[g].looked - i < Lines
        PROVE  clock' - log'[i].at >= Window
    <3>1. i \in 1 .. Len(log) /\ log'[i] = log[i]
      BY <1>1, <2>1
    <3>2. clock - log[i].at >= Window
      BY <2>2, <3>1 DEF Sane, Looked
    <3>3. log[i].at \in Nat
      BY <3>1, LogTypes
    <3> QED BY <1>1, <3>1, <3>2, <3>3, TimeAssumption
  <2> QED BY <1>1, <2>1, <2>2
<1> QED BY <1>2, <1>4, <1>5 DEF Sane

\* A step of one hook that adds nothing to the log.
LEMMA HookKeeps ==
  ASSUME IInv, NEW h \in Hook, UNCHANGED <<install, env, clock, turn, log>>,
         NEW x \in HookState, hook' = [hook EXCEPT ![h] = x],
         NEW w \in WorkerState, worker' = [worker EXCEPT ![h] = w], Sane(h)'
  PROVE  IInv'
<1>1. hook \in [Hook -> HookState] /\ worker \in [Hook -> WorkerState]
  BY HookTypes DEF IInv
<1>2. TypeOK'
  BY <1>1 DEF IInv, TypeOK, HookState, WorkerState
<1>3. ASSUME NEW g \in Hook PROVE Sane(g)'
  <2>1. CASE g = h
    BY <2>1
  <2>2. CASE g # h
    <3>1. hook'[g] = hook[g] /\ worker'[g] = worker[g]
      BY <1>1, <2>2
    <3>2. clock \in Nat /\ Len(log) \in Nat
      BY LogTypes, TimeAssumption DEF IInv, TypeOK
    <3> QED BY <3>1, <3>2, OthersKeep DEF IInv
  <2> QED BY <2>1, <2>2
<1>4. Turns' /\ Ordered' /\ RepeatIsSilent'
  BY DEF IInv, Turns, Ordered, RepeatIsSilent
<1> QED BY <1>2, <1>3, <1>4 DEF IInv

\* A hook that ends without a word is sane.
LEMMA SilentEnd ==
  ASSUME IInv, NEW h \in Hook, UNCHANGED <<install, env, clock, turn, worker, log>>,
         hook[h].step # "none", End(h, "none", "none")
  PROVE  IInv'
<1> DEFINE x == [step |-> "ended", since |-> 0, looked |-> 0,
                 result |-> "none", context |-> "none"]
<1>1. x \in HookState /\ hook' = [hook EXCEPT ![h] = x]
  BY TimeAssumption DEF HookState, Result, End
<1>2. /\ hook \in [Hook -> HookState] /\ worker \in [Hook -> WorkerState]
      /\ worker[h] \in WorkerState
  BY HookTypes DEF IInv
<1>3. hook'[h] = x /\ worker' = [worker EXCEPT ![h] = worker[h]]
  BY <1>1, <1>2
<1>4. Sane(h)'
  <2>1. Belongs(h)'
    BY <1>3 DEF IInv, Sane, Belongs, PromptOf
  <2>2. Truthful(h)' /\ Looked(h)'
    BY <1>3 DEF Truthful, Looked
  <2> QED BY <2>1, <2>2 DEF Sane
<1> HIDE DEF x
<1> QED BY <1>1, <1>2, <1>3, <1>4, HookKeeps

-----------------------------------------------------------------------------
(* The steps. *)

\* A turn begins: its hooks had not run, and what it was given is delegated if
\* it is not the user's.
LEMMA BeginKeeps ==
  ASSUME IInv, NEW t \in Turn, NEW p \in Prompt, NEW depth \in Nat,
         depth = 0 \/ (depth = 1 /\ p \in Delegated), Begin(t, p, depth)
  PROVE  IInv'
<1> DEFINE new == [prompt |-> p, depth |-> depth]
<1>1. /\ turn[t] = Null /\ turn' = [turn EXCEPT ![t] = new]
      /\ UNCHANGED <<install, env, clock, worker, log>>
  BY DEF Begin
<1>2. \A h \in Hook :
        hook'[h] = IF h[1] = t /\ h[2] \in Registered
                   THEN [hook[h] EXCEPT !.step = "check", !.since = clock] ELSE hook[h]
  BY DEF Begin
<1>3. /\ turn'[t] = new /\ new # Null /\ new.prompt = p /\ new.depth = depth
      /\ \A u \in Turn \ {t} : turn'[u] = turn[u]
  BY <1>1, NullAssumption DEF IInv, TypeOK
<1>4. ASSUME NEW h \in Hook, h[1] = t
      PROVE  /\ hook[h].step = "none" /\ worker[h] = "none" /\ hook[h].context = "none"
             /\ hook'[h] \in HookState
             /\ hook'[h].step \in {"none", "check"} /\ hook'[h].context = "none"
  <2>1. hook[h].step = "none" /\ worker[h] = "none" /\ hook[h].context = "none"
    BY <1>1, <1>4 DEF IInv, Sane, Belongs
  <2>2. hook[h] \in HookState /\ clock \in 0 .. MaxTime
    BY HookTypes DEF IInv, TypeOK
  <2> QED BY <1>2, <2>1, <2>2 DEF HookState
<1>5. TypeOK'
  <2>1. \A h \in Hook : hook'[h] \in HookState
    BY <1>2, <1>4, HookTypes DEF IInv
  <2>2. hook' \in [Hook -> HookState]
    BY <2>1 DEF Begin
  <2>3. turn' \in [Turn -> [prompt : Prompt, depth : Nat] \cup {Null}]
    BY <1>1 DEF IInv, TypeOK
  <2> QED BY <1>1, <2>2, <2>3 DEF IInv, TypeOK, HookState
<1> HIDE DEF new
<1>6. ASSUME NEW h \in Hook PROVE Sane(h)'
  <2>1. CASE h[1] = t
    <3>1. Belongs(h)'
      BY <1>1, <1>3, <1>4, <2>1 DEF Belongs
    <3>2. Truthful(h)' /\ Looked(h)'
      BY <1>4, <2>1 DEF Truthful, Looked
    <3> QED BY <3>1, <3>2 DEF Sane
  <2>2. CASE h[1] # t
    <3>1. hook'[h] = hook[h] /\ worker'[h] = worker[h] /\ turn'[h[1]] = turn[h[1]]
      BY <1>1, <1>2, <1>3, <2>2, HookTypes DEF IInv
    <3>2. clock \in Nat /\ Len(log) \in Nat
      BY LogTypes, TimeAssumption DEF IInv, TypeOK
    <3> QED BY <1>1, <3>1, <3>2, OthersKeep DEF IInv
  <2> QED BY <2>1, <2>2
<1>7. Turns'
  BY <1>3 DEF IInv, Turns
<1>8. Ordered' /\ RepeatIsSilent'
  BY <1>1 DEF IInv, Ordered, RepeatIsSilent
<1> QED BY <1>5, <1>6, <1>7, <1>8 DEF IInv

\* Only a hook of a turn that is no subagent's tells it to start one.
LEMMA DelegateKeeps ==
  ASSUME IInv, NEW h \in Hook, NEW t \in Turn, NEW p \in Delegated, Delegate(h, t, p)
  PROVE  IInv'
<1>1. hook[h].context = "run" /\ Begin(t, p, turn[h[1]].depth + 1)
  BY DEF Delegate
<1>2. turn[h[1]] # Null /\ Decide(PromptOf(h)) = "run"
  BY <1>1 DEF IInv, Sane, Belongs
<1>3. turn[h[1]] \in [prompt : Prompt, depth : Nat] /\ h[1] \in Turn
  BY <1>2, HookTypes DEF IInv
<1>4. turn[h[1]].depth = 0
  BY <1>2, <1>3, Decided DEF IInv, Turns, PromptOf
<1>5. p \in Prompt
  BY DelegatedAssumption
<1> QED BY <1>1, <1>4, <1>5, BeginKeeps

\* The hook has nothing to say about lines it must not see again.
LEMMA NotLogged ==
  ASSUME IInv, NEW p, NEW now \in {clock, clock + 1}, ~ RecentlyLogged(p, now), NEW i \in 1 .. Len(log),
         log[i].prompt = p, Len(log) - i < Lines
  PROVE  clock - log[i].at >= Window
<1> DEFINE first == IF Len(log) > Lines THEN Len(log) - Lines + 1 ELSE 1
<1>1. Len(log) \in Nat /\ Lines \in Nat /\ Window \in Nat /\ clock \in Nat
  BY LogTypes, TimeAssumption DEF IInv, TypeOK
<1>2. i \in first .. Len(log)
  BY <1>1
<1>3. PICK j \in i .. Len(log) : ~ (now - log[j].at <= Window)
  BY <1>2 DEF RecentlyLogged
<1>4. j \in 1 .. Len(log) /\ i <= j
  BY <1>1
<1>5. log[i].at <= log[j].at /\ log[i].at \in Nat /\ log[j].at \in Nat
  BY <1>4, LogTypes DEF IInv, Ordered
<1> QED BY <1>1, <1>3, <1>5

\* Past its look at the log the hook waits for its worker, or has nothing to ask.
LEMMA ProceedKeeps ==
  ASSUME IInv, NEW h \in Hook, hook[h].step = "check",
         UNCHANGED <<install, env, clock, turn, log>>,
         NEW looked \in Nat, looked <= Len(log),
         \A i \in 1 .. looked :
           (log[i].prompt = PromptOf(h) /\ looked - i < Lines) => clock - log[i].at >= Window,
         Proceed(h, looked)
  PROVE  IInv'
<1>1. /\ hook \in [Hook -> HookState] /\ worker \in [Hook -> WorkerState]
      /\ hook[h] \in HookState /\ worker[h] \in WorkerState
  BY HookTypes DEF IInv
<1>2. /\ Belongs(h) /\ turn[h[1]] # Null /\ hook[h].context = "none"
  BY DEF IInv, Sane, Belongs
<1>3. PICK x \in HookState, w \in WorkerState :
        /\ hook' = [hook EXCEPT ![h] = x] /\ worker' = [worker EXCEPT ![h] = w]
        /\ x.step \in {"wait", "append"} /\ x.looked = looked /\ x.context = "none"
        /\ x.step = "append" => x.result \notin Verdicts
        /\ w = worker[h] \/ Decide(PromptOf(h)) = "run"
  <2>1. CASE /\ hook' = [hook EXCEPT ![h].step = "wait", ![h].looked = looked]
             /\ worker' = [worker EXCEPT ![h] = "calling"]
             /\ Decide(PromptOf(h)) = "run"
    <3> DEFINE x == [hook[h] EXCEPT !.step = "wait", !.looked = looked]
    <3>1. x \in HookState /\ x.step = "wait" /\ x.looked = looked /\ x.context = "none"
      BY <1>1, <1>2 DEF HookState
    <3>2. hook' = [hook EXCEPT ![h] = x]
      BY <1>1, <2>1 DEF HookState
    <3> HIDE DEF x
    <3> QED BY <2>1, <3>1, <3>2 DEF WorkerState
  <2>2. ASSUME NEW result \in {"none", "unavailable"}, ToAppend(h, looked, result),
               UNCHANGED worker
        PROVE  \E x \in HookState :
                 /\ hook' = [hook EXCEPT ![h] = x]
                 /\ x.step = "append" /\ x.looked = looked /\ x.context = "none"
                 /\ x.result \notin Verdicts
    <3> DEFINE x == [hook[h] EXCEPT !.step = "append", !.looked = looked, !.result = result]
    <3>1. /\ x \in HookState /\ x.step = "append" /\ x.looked = looked
          /\ x.context = "none" /\ x.result \notin Verdicts
      BY <1>1, <1>2, VerdictsAssumption DEF HookState, Result
    <3>2. hook' = [hook EXCEPT ![h] = x]
      BY <1>1, <2>2 DEF HookState, ToAppend
    <3> HIDE DEF x
    <3> QED BY <3>1, <3>2
  <2>3. worker = [worker EXCEPT ![h] = worker[h]]
    BY <1>1
  <2> QED BY <1>1, <2>1, <2>2, <2>3 DEF Proceed
<1>4. hook'[h] = x /\ worker'[h] = w
  BY <1>1, <1>3
<1>5. Sane(h)'
  <2>1. PromptOf(h)' = PromptOf(h) /\ Decide(PromptOf(h))' = Decide(PromptOf(h))
    BY DEF PromptOf, Decide
  <2>2. Belongs(h)'
    BY <1>2, <1>3, <1>4, <2>1 DEF Belongs
  <2>3. Truthful(h)'
    BY <1>3, <1>4 DEF Truthful
  <2>4. Looked(h)'
    BY <1>3, <1>4, <2>1 DEF Looked
  <2> QED BY <2>2, <2>3, <2>4 DEF Sane
<1> QED BY <1>3, <1>5, HookKeeps

\* A hook's first look at prompt, mark and log ends it or fixes what it has seen.
LEMMA CheckKeeps ==
  ASSUME IInv, NEW h \in Hook, Check(h)
  PROVE  IInv'
<1>1. hook[h].step = "check" /\ UNCHANGED <<install, env, clock, turn, log>>
  BY DEF Check
<1>2. CASE End(h, "none", "none") /\ UNCHANGED worker
  BY <1>1, <1>2, SilentEnd
<1>3. ASSUME NEW now \in {clock, clock + 1}, ~ RecentlyLogged(PromptOf(h), now),
             Proceed(h, Len(log))
      PROVE  IInv'
  <2>1. Len(log) \in Nat
    BY LogTypes DEF IInv
  <2> QED BY <1>1, <1>3, <2>1, NotLogged, ProceedKeeps
<1>4. CASE Proceed(h, 0)
  <2>1. 0 <= Len(log) /\ \A i \in 1 .. 0 : FALSE
    BY LogTypes DEF IInv
  <2> QED BY <1>1, <1>4, <2>1, ProceedKeeps
<1> QED BY <1>2, <1>3, <1>4 DEF Check

\* What a reply says of the backend, the worker was answered.
LEMMA ReplyKeeps ==
  ASSUME IInv, NEW h \in Hook, NEW state \in {"answered", "failed"},
         NEW result \in Result, result \in Verdicts => state = "answered",
         Reply(h, state, result)
  PROVE  IInv'
<1> DEFINE x == [hook[h] EXCEPT !.step = "append", !.looked = hook[h].looked,
                                !.result = result]
<1>1. /\ hook \in [Hook -> HookState] /\ hook[h] \in HookState
      /\ worker \in [Hook -> WorkerState]
  BY HookTypes DEF IInv
<1>2. /\ hook[h].step = "wait" /\ worker[h] = "calling"
      /\ worker' = [worker EXCEPT ![h] = state]
      /\ UNCHANGED <<install, env, clock, turn, log>>
  BY DEF Reply
<1>3. /\ turn[h[1]] # Null /\ hook[h].context = "none"
      /\ Decide(PromptOf(h)) = "run" /\ Looked(h)
  BY <1>2 DEF IInv, Sane, Belongs
<1>4. /\ x \in HookState /\ x.step = "append" /\ x.looked = hook[h].looked
      /\ x.context = "none" /\ x.result = result
  BY <1>1, <1>3 DEF HookState
<1>5. hook' = [hook EXCEPT ![h] = x]
  BY <1>1 DEF HookState, Reply, ToAppend
<1> HIDE DEF x
<1>6. hook'[h] = x /\ worker'[h] = state
  BY <1>1, <1>2, <1>5
<1>7. Sane(h)'
  <2>1. PromptOf(h)' = PromptOf(h) /\ Decide(PromptOf(h))' = Decide(PromptOf(h))
    BY <1>2 DEF PromptOf, Decide
  <2>2. Belongs(h)'
    BY <1>2, <1>3, <1>4, <1>6, <2>1 DEF Belongs
  <2>3. Truthful(h)'
    BY <1>4, <1>6 DEF Truthful
  <2>4. Looked(h)'
    BY <1>2, <1>3, <1>4, <1>6, <2>1 DEF Looked
  <2> QED BY <2>2, <2>3, <2>4 DEF Sane
<1> QED BY <1>2, <1>4, <1>5, <1>7, HookKeeps DEF WorkerState

\* The worker is asked, answers, fails or is killed; the hook holds its answer or
\* what stands for none.
LEMMA NudgeKeeps ==
  ASSUME IInv, NEW h \in Hook, Nudged(h) \/ NudgeTimeout(h)
  PROVE  IInv'
<1>1. {"none", "disabled", "unavailable"} \cap Verdicts = {} /\ Verdicts \subseteq Result
      /\ {"none", "disabled", "unavailable"} \subseteq Result
  BY VerdictsAssumption DEF Result
<1>2. CASE Nudged(h)
  <2>1. CASE Reply(h, "failed", "disabled") \/ Reply(h, "failed", "none")
    BY <1>1, <2>1, ReplyKeeps
  <2>2. ASSUME NEW n \in Nudge, Reply(h, IF n.ok THEN "answered" ELSE "failed", Summary(n))
        PROVE  IInv'
    <3>1. n.ok \in BOOLEAN /\ (n.ok => n.verdict \in Verdicts)
      BY DEF Nudge
    <3>2. CASE n.ok
      BY <1>1, <2>2, <3>1, <3>2, ReplyKeeps DEF Summary
    <3>3. CASE ~ n.ok
      BY <1>1, <2>2, <3>3, ReplyKeeps DEF Summary
    <3> QED BY <3>2, <3>3
  <2> QED BY <1>2, <2>1, <2>2 DEF Nudged
<1>3. CASE NudgeTimeout(h)
  BY <1>1, <1>3, ReplyKeeps DEF NudgeTimeout
<1> QED BY <1>2, <1>3

\* The record a hook appends is the newest, and repeats none that it could see.
LEMMA AppendKeeps ==
  ASSUME IInv, NEW h \in Hook, AppendDecision(h)
  PROVE  IInv'
<1> DEFINE p == PromptOf(h)
           line == [at |-> clock, prompt |-> p, decision |-> Decide(p),
                    result |-> hook[h].result, looked |-> hook[h].looked]
           n == Len(log)
<1>1. /\ hook[h].step = "append" /\ UNCHANGED <<install, env, clock, turn, worker>>
      /\ hook \in [Hook -> HookState] /\ hook[h] \in HookState
  BY HookTypes DEF IInv, AppendDecision
<1>2. CASE End(h, "none", "none") /\ UNCHANGED log
  BY <1>1, <1>2, SilentEnd
<1>3. CASE log' = Append(log, line) /\ hook' = [hook EXCEPT ![h].step = "emit"]
  <2>1. /\ turn[h[1]] # Null /\ Looked(h) /\ hook[h].context = "none"
        /\ hook[h].result \in Verdicts => worker[h] = "answered"
    BY <1>1 DEF IInv, Sane, Belongs, Truthful
  <2>2. p \in Prompt
    BY <2>1, HookTypes DEF IInv, PromptOf
  <2>3. /\ line \in Record /\ line.at = clock /\ line.prompt = p
        /\ line.decision = Decide(p) /\ line.result = hook[h].result
        /\ line.looked = hook[h].looked
    BY <1>1, <2>2, Decided DEF HookState, Record, IInv, TypeOK
  <2>4. /\ clock \in Nat /\ clock \in 0 .. MaxTime /\ n \in Nat /\ log \in Seq(Record)
    BY LogTypes, TimeAssumption DEF IInv, TypeOK
  <2> HIDE DEF line, p
  <2>5. /\ log' \in Seq(Record) /\ Len(log') = n + 1 /\ log'[n + 1] = line
        /\ \A i \in 1 .. n : log'[i] = log[i]
    BY <1>3, <2>3, <2>4
  <2>6. /\ hook' \in [Hook -> HookState] /\ \A g \in Hook \ {h} : hook'[g] = hook[g]
        /\ hook'[h].step = "emit" /\ hook'[h].result = hook[h].result
        /\ hook'[h].context = "none"
    BY <1>1, <1>3, <2>1 DEF HookState
  <2>7. TypeOK'
    BY <1>1, <2>5, <2>6 DEF IInv, TypeOK, HookState
  <2>8. ASSUME NEW g \in Hook PROVE Sane(g)'
    <3>1. CASE g = h
      <4>1. PromptOf(h)' = p /\ Decide(PromptOf(h))' = Decide(p)
        BY <1>1 DEF PromptOf, Decide, p
      <4>2. Belongs(h)'
        BY <1>1, <2>1, <2>6, <4>1 DEF IInv, Sane, Belongs, p
      <4>3. Recorded(h, Decide(PromptOf(h)))'
        <5>1. n + 1 \in 1 .. Len(log')
          BY <2>4, <2>5
        <5> QED BY <2>3, <2>5, <2>6, <4>1, <5>1 DEF Recorded
      <4>4. Truthful(h)'
        BY <1>1, <2>1, <2>6, <4>3 DEF Truthful
      <4>5. Looked(h)'
        BY <2>6 DEF Looked
      <4> QED BY <3>1, <4>2, <4>4, <4>5 DEF Sane
    <3>2. CASE g # h
      BY <1>1, <2>4, <2>5, <2>6, <3>2, OthersKeep DEF IInv
    <3> QED BY <3>1, <3>2
  <2>9. Turns'
    BY <1>1 DEF IInv, Turns
  <2>10. Ordered'
    <3>1. \A i \in 1 .. n : log[i].at <= clock /\ log[i].at \in Nat
      BY LogTypes DEF IInv, Ordered
    <3>2. ASSUME NEW i \in 1 .. Len(log') PROVE log'[i].at <= clock
      BY <2>3, <2>4, <2>5, <3>1
    <3>3. ASSUME NEW i \in 1 .. Len(log'), NEW j \in 1 .. Len(log'), i <= j
          PROVE  log'[i].at <= log'[j].at
      <4>1. CASE j = n + 1
        BY <2>3, <2>5, <3>2, <4>1
      <4>2. CASE j # n + 1
        <5>1. i \in 1 .. n /\ j \in 1 .. n
          BY <2>4, <2>5, <3>3, <4>2
        <5> QED BY <2>5, <3>3, <5>1 DEF IInv, Ordered
      <4> QED BY <4>1, <4>2
    <3> QED BY <1>1, <3>2, <3>3 DEF Ordered
  <2>11. RepeatIsSilent'
    <3> SUFFICES ASSUME NEW i \in 1 .. Len(log'), NEW j \in 1 .. Len(log'), i < j,
                        log'[i].prompt = log'[j].prompt,
                        log'[j].at - log'[i].at < Window
                 PROVE  log'[j].looked < i \/ log'[j].looked - i >= Lines
      BY DEF RepeatIsSilent
    <3>1. i \in 1 .. n /\ log'[i] = log[i]
      BY <2>4, <2>5
    <3>2. CASE j # n + 1
      <4>1. j \in 1 .. n /\ log'[j] = log[j]
        BY <2>4, <2>5, <3>2
      <4> QED BY <3>1, <4>1 DEF IInv, RepeatIsSilent
    <3>3. CASE j = n + 1
      <4>1. /\ log'[j].looked = hook[h].looked /\ log[i].prompt = p
            /\ clock - log[i].at < Window /\ hook[h].looked \in Nat
        BY <1>1, <2>3, <2>5, <3>1, <3>3 DEF HookState
      <4>2. log[i].at \in Nat /\ i \in Nat
        BY <3>1, LogTypes DEF IInv
      <4>3. ~ (i <= hook[h].looked /\ hook[h].looked - i < Lines)
        BY <1>1, <2>1, <2>4, <3>1, <4>1, <4>2, TimeAssumption DEF Looked, p
      <4> QED BY <4>1, <4>2, <4>3, TimeAssumption
    <3> QED BY <3>2, <3>3
  <2> QED BY <2>7, <2>8, <2>9, <2>10, <2>11 DEF IInv
<1> QED BY <1>2, <1>3 DEF AppendDecision

\* What is printed is what was recorded.
LEMMA EmitKeeps ==
  ASSUME IInv, NEW h \in Hook, Emit(h)
  PROVE  IInv'
<1> DEFINE told == IF Decide(PromptOf(h)) = "skip" THEN "none" ELSE Decide(PromptOf(h))
           x == [step |-> "ended", since |-> 0, looked |-> 0,
                 result |-> hook[h].result, context |-> told]
<1>1. /\ hook[h].step = "emit" /\ hook' = [hook EXCEPT ![h] = x]
      /\ UNCHANGED <<install, env, clock, turn, worker, log>>
  BY DEF Emit, End
<1>2. /\ hook \in [Hook -> HookState] /\ hook[h] \in HookState
      /\ worker \in [Hook -> WorkerState] /\ worker[h] \in WorkerState
  BY HookTypes DEF IInv
<1>3. told \in Decision \cup {"none"} /\ told # "skip"
      /\ (told # "none" => told = Decide(PromptOf(h)))
  BY Decided DEF Decision
<1>4. x \in HookState /\ x.step = "ended" /\ x.context = told
                      /\ x.result = hook[h].result
  BY <1>2, <1>3, TimeAssumption DEF HookState
<1> HIDE DEF x, told
<1>5. hook'[h] = x /\ worker' = [worker EXCEPT ![h] = worker[h]]
  BY <1>1, <1>2
<1>6. Sane(h)'
  <2>1. PromptOf(h)' = PromptOf(h) /\ Decide(PromptOf(h))' = Decide(PromptOf(h))
    BY <1>1 DEF PromptOf, Decide
  <2>2. Belongs(h) /\ Truthful(h)
    BY DEF IInv, Sane
  <2>3. Belongs(h)'
    BY <1>1, <1>3, <1>4, <1>5, <2>1, <2>2 DEF Belongs
  <2>4. Recorded(h, Decide(PromptOf(h)))
    BY <1>1, <2>2 DEF Truthful
  <2>5. \A d : Recorded(h, d) => Recorded(h, d)'
    BY <1>1, <1>4, <1>5, <2>1 DEF Recorded
  <2>6. Truthful(h)'
    BY <1>1, <1>3, <1>4, <1>5, <2>2, <2>4, <2>5 DEF Truthful
  <2>7. Looked(h)'
    BY <1>4, <1>5 DEF Looked
  <2> QED BY <2>3, <2>6, <2>7 DEF Sane
<1> QED BY <1>1, <1>2, <1>4, <1>5, <1>6, HookKeeps

\* Time passes: records grow older.
LEMMA TickKeeps ==
  ASSUME IInv, Tick
  PROVE  IInv'
<1>1. /\ clock' = clock + 1 /\ clock < MaxTime
      /\ UNCHANGED <<install, env, turn, hook, worker, log>>
  BY DEF Tick
<1>2. clock \in Nat /\ clock' \in 0 .. MaxTime /\ clock' \in Nat /\ clock' >= clock
  BY <1>1, TimeAssumption DEF IInv, TypeOK
<1>3. TypeOK'
  BY <1>1, <1>2 DEF IInv, TypeOK
<1>4. \A h \in Hook : Sane(h)'
  BY <1>1, <1>2, OthersKeep, LogTypes DEF IInv
<1>5. Turns' /\ RepeatIsSilent'
  BY <1>1 DEF IInv, Turns, RepeatIsSilent
<1>6. Ordered'
  BY <1>1, <1>2, LogTypes DEF IInv, Ordered
<1> QED BY <1>3, <1>4, <1>5, <1>6 DEF IInv

-----------------------------------------------------------------------------
(* The inductive invariant, and the theorems. *)

\* No turns and an empty log satisfy the invariant.
LEMMA InitIInv == Init => IInv
<1> SUFFICES ASSUME Init PROVE IInv
  OBVIOUS
<1>1. TypeOK
  BY TimeAssumption DEF Init, TypeOK, Result
<1>2. Turns /\ \A h \in Hook : Sane(h)
  BY DEF Init, Turns, Sane, Belongs, Truthful, Looked, Hook
<1>3. Len(log) = 0
  BY DEF Init
<1>4. Ordered /\ RepeatIsSilent
  BY <1>3 DEF Ordered, RepeatIsSilent
<1> QED BY <1>1, <1>2, <1>4 DEF IInv

\* The invariant is inductive.
LEMMA NextIInv == IInv /\ [Next]_vars => IInv'
<1> SUFFICES ASSUME IInv, [Next]_vars PROVE IInv'
  OBVIOUS
<1>1. CASE UNCHANGED vars
  <2> USE <1>1 DEF vars
  <2>1. TypeOK' /\ Turns' /\ Ordered' /\ RepeatIsSilent'
    BY DEF IInv, TypeOK, Turns, Ordered, RepeatIsSilent
  <2>2. \A h \in Hook : Sane(h)'
    BY TimeAssumption, OthersKeep, LogTypes DEF IInv, TypeOK
  <2> QED BY <2>1, <2>2 DEF IInv
<1>2. ASSUME NEW t \in Turn, NEW p \in Prompt, Submit(t, p) PROVE IInv'
  BY <1>2, BeginKeeps DEF Submit
<1>3. ASSUME NEW h \in Hook, HookStep(h) PROVE IInv'
  BY <1>3, CheckKeeps, NudgeKeeps, AppendKeeps, EmitKeeps DEF HookStep
<1>4. ASSUME NEW h \in Hook, Kill(h) PROVE IInv'
  BY <1>4, SilentEnd DEF Kill
<1> QED BY <1>1, <1>2, <1>3, <1>4, DelegateKeeps, TickKeeps DEF Next

\* In every reachable state the invariant holds.
LEMMA Invariance == Spec => []IInv
BY InitIInv, NextIInv, PTL DEF Spec

\* Every process, turn and record has its type.
THEOREM TypeCorrect == Spec => []TypeOK
<1>1. IInv => TypeOK
  BY DEF IInv
<1> QED BY <1>1, Invariance, PTL

\* Whatever prompts, marks and registrations there are, a subagent's turn starts
\* no worker and no further subagent.
THEOREM DelegationEnds == Spec => []NoRecursion
<1>1. IInv => NoRecursion
  <2> SUFFICES ASSUME IInv PROVE NoRecursion
    OBVIOUS
  <2>1. ASSUME NEW t \in Turn, turn[t] # Null
        PROVE  turn[t].depth <= 1
    <3>1. turn[t].depth \in Nat
      BY <2>1 DEF IInv, TypeOK
    <3> QED BY <2>1, <3>1 DEF IInv, Turns
  <2>2. ASSUME NEW h \in Hook, turn[h[1]] # Null, turn[h[1]].depth > 0
        PROVE  worker[h] = "none" /\ hook[h].context = "none"
    <3>1. Decide(PromptOf(h)) = "skip"
      BY <2>2, HookTypes, Decided DEF IInv, Turns, PromptOf
    <3> QED BY <3>1 DEF IInv, Sane, Belongs
  <2> QED BY <2>1, <2>2 DEF NoRecursion
<1> QED BY <1>1, Invariance, PTL

\* Kills, timeouts and failed workers included, a context has its line in the
\* log and a verdict in it came from the backend.
THEOREM ToldTheTruth == Spec => []ContextIsTrue
<1>1. IInv => ContextIsTrue
  BY DEF IInv, Sane, Truthful, Recorded, ContextIsTrue
<1> QED BY <1>1, Invariance, PTL

\* However hooks of all turns interleave, a record within the window of another
\* of the same prompt is by a hook that could not have seen that one.
THEOREM NoRepeats == Spec => []RepeatIsSilent
<1>1. IInv => RepeatIsSilent
  BY DEF IInv
<1> QED BY <1>1, Invariance, PTL
=============================================================================
