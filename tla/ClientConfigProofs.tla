-------------------------- MODULE ClientConfigProofs --------------------------
(* Theorems about ClientConfig, for every set of commands, URLs and servers. *)
EXTENDS ClientConfig, TLAPS

-----------------------------------------------------------------------------
(* The inductive invariant. *)

\* The pin of a configuration and its cache are of the same capabilities, those
\* were accepted, and a pin of a closed launch is of one of the urls.
Sound(config, urls) ==
  /\ config.cache = (IF config.pin = Null THEN Null ELSE config.pin.capabilities)
  /\ config.pin # Null =>
       /\ Valid(config.pin.capabilities)
       /\ config.pin.capabilities.type = ClosedLaunch => config.pin.url \in urls

\* A command that talks to a server knows which one.
Aimed == \A c \in Command :
  command[c].op = "pin" \/ command[c].pc = "posting" => command[c].url \in Url

Typed == TypeOK /\ Aimed

\* The file is not all: a command holds a configuration that it may yet write,
\* and a URL that it may yet send the token to.
Vetting ==
  /\ Sound(file, vetted)
  /\ \A c \in Command : Sound(command[c].config, vetted)
  /\ \A c \in Command : command[c].pc = "posting" => command[c].url \in vetted
  /\ \A way \in sent : way[1] \in vetted

Busy(c) == command[c].pc \notin {"idle", "done"}

Part(config) == [url |-> config.url, depth |-> config.depth, pin |-> config.pin]

\* What a command is about to write is what the others asked for, but for what it
\* was asked to change itself.
Meant(op, config) ==
  /\ op = "set_server" => config.pin = Null /\ config.depth = wanted.depth
  /\ op = "set_depth" => config.url = wanted.url /\ config.pin = wanted.pin
  /\ op = "pin" => config.url = wanted.url /\ config.depth = wanted.depth
  /\ op \notin {"set_server", "set_depth", "pin"} => Part(config) = wanted

\* Without overlap one command at most is under way, and it knows the file as it is.
Keeping ==
  ~ raced =>
    /\ Part(file) = wanted
    /\ \A c, d \in Command : Busy(c) /\ Busy(d) => c = d
    /\ \A c \in Command : Busy(c) => Meant(command[c].op, command[c].config)

IInv == Typed /\ Vetting /\ Keeping

-----------------------------------------------------------------------------
(* What the actions write. *)

\* A command that starts is typed, when what it starts with is.
LEMMA StartTypes ==
  ASSUME Typed, NEW c \in Command,
         NEW op \in {"set_server", "use_profile", "set_depth", "pin", "live"},
         NEW pc \in {"probing", "saving", "posting"}, NEW config \in Config,
         NEW url \in Url \cup {Null}, NEW auth \in Auth, op = "pin" \/ pc = "posting" => url \in Url,
         Start(c, op, pc, config, url, auth)
  PROVE  Typed'
<1>1. command' \in [Command -> CommandState]
  BY DEF Start, Typed, TypeOK, CommandState
<1> QED BY <1>1 DEF Start, Typed, TypeOK, Aimed

\* The profile that is used names a server, or none, and an auth profile.
LEMMA EffectiveTypes ==
  ASSUME NEW config \in Config, NEW env \in Environment, NEW override \in Url \cup {Null}
  PROVE  /\ Effective(config, env, override).url \in Url \cup {Null}
         /\ Effective(config, env, override).auth \in Auth
BY DefaultAssumption DEF Effective, Config, Environment

\* The token goes where the pin in the file says, and that is a closed launch.
LEMMA EffectivePin ==
  ASSUME NEW config \in Config, NEW env \in Environment, LiveAccepts(config, env)
  PROVE  /\ config.pin # Null
         /\ Effective(config, env, Null).url = config.pin.url
         /\ Effective(config, env, Null).url \in Url
         /\ config.pin.capabilities.type = ClosedLaunch
BY NullAssumption DEF LiveAccepts, Effective, Config, Environment, Pin

\* The initial states are typed.
LEMMA InitTyped == Init => Typed
<1>1. Default \in Config
  BY DefaultAssumption DEF Default, Config
<1>2. [op |-> "none", pc |-> "idle", config |-> Default, url |-> Null, auth |-> "local"]
        \in CommandState
  BY <1>1, DefaultAssumption DEF CommandState
<1>3. Unset \in [url : Url \cup {Null}, depth : Depth, pin : Pin \cup {Null}]
  BY DefaultAssumption DEF Unset
<1>4. Init => command \in [Command -> CommandState] /\ Aimed
  BY <1>2 DEF Init, Aimed
<1> QED
  BY <1>1, <1>3, <1>4 DEF Init, Typed, TypeOK

\* Every step keeps the types.
LEMMA NextTyped == Typed /\ [Next]_vars => Typed'
<1> SUFFICES ASSUME Typed, [Next]_vars PROVE Typed'
  OBVIOUS
<1> USE DefaultAssumption
<1>1. file \in Config
  BY DEF Typed, TypeOK
<1>2. ASSUME NEW c \in Command, NEW url \in Url, SetServer(c, url) PROVE Typed'
  <2>1. [file EXCEPT !.active = "local", !.url = url, !.pin = Null, !.cache = Null] \in Config
    BY <1>1 DEF Config
  <2> QED BY <1>2, <2>1, StartTypes DEF SetServer
<1>3. ASSUME NEW c \in Command, UseProfile(c) PROVE Typed'
  <2>1. [file EXCEPT !.active = "local"] \in Config
    BY <1>1 DEF Config
  <2> QED BY <1>3, <2>1, StartTypes DEF UseProfile
<1>4. ASSUME NEW c \in Command, NEW depth \in Depth, SetDepth(c, depth) PROVE Typed'
  <2>1. [file EXCEPT !.depth = depth] \in Config
    BY <1>1 DEF Config
  <2> QED BY <1>4, <2>1, StartTypes DEF SetDepth
<1>5. ASSUME NEW c \in Command, NEW env \in Environment, NEW override \in Url \cup {Null},
             NEW profile, PinLoad(c, env, profile, override)
      PROVE  Typed'
  <2> DEFINE effective == Effective(file, env, override)
  <2>1. effective.url \in Url \cup {Null} /\ effective.auth \in Auth
    BY <1>1, EffectiveTypes
  <2>2. effective.url # Null /\ Start(c, "pin", "probing", file, effective.url, effective.auth)
    BY <1>5 DEF PinLoad
  <2> HIDE DEF effective
  <2> QED BY <1>1, <2>1, <2>2, StartTypes
<1>6. ASSUME NEW c \in Command, PinProbe(c) PROVE Typed'
  <2> DEFINE url == command[c].url
             pin == [url |-> url, capabilities |-> server[url], auth |-> command[c].auth]
             config == [command[c].config EXCEPT !.pin = pin, !.cache = server[url]]
  <2>1. command[c] \in CommandState /\ url \in Url
    BY <1>6 DEF PinProbe, Typed, TypeOK, Aimed
  <2>2. pin \in Pin
    BY <2>1 DEF Pin, Typed, TypeOK, CommandState
  <2>3. config \in Config
    BY <2>1, <2>2 DEF Config, CommandState, Typed, TypeOK
  <2>4. [command[c] EXCEPT !.pc = "saving", !.config = config] \in CommandState
    BY <2>1, <2>3 DEF CommandState
  <2>5. command' = [command EXCEPT ![c] = [command[c] EXCEPT !.pc = "saving", !.config = config]]
    BY <1>6 DEF PinProbe, Typed, TypeOK
  <2>6. command' \in [Command -> CommandState]
    BY <2>4, <2>5 DEF Typed, TypeOK
  <2>7. Aimed'
    BY <2>1, <2>5 DEF Typed, TypeOK, Aimed, CommandState
  <2> QED BY <1>6, <2>1, <2>6, <2>7 DEF PinProbe, Typed, TypeOK
<1>7. ASSUME NEW c \in Command, Save(c) PROVE Typed'
  <2>1. command[c].config \in Config
    BY DEF Typed, TypeOK, CommandState
  <2>2. command' \in [Command -> CommandState] /\ Aimed'
    BY <1>7 DEF Save, Typed, TypeOK, CommandState, Aimed
  <2>3. wanted' \in [url : Url \cup {Null}, depth : Depth, pin : Pin \cup {Null}]
    BY <1>7, <2>1 DEF Save, Typed, TypeOK, Config
  <2> QED BY <1>7, <2>1, <2>2, <2>3 DEF Save, Typed, TypeOK
<1>8. ASSUME NEW c \in Command, NEW env \in Environment, LiveLoad(c, env) PROVE Typed'
  <2>1. Effective(file, env, Null).url \in Url
    BY <1>1, <1>8, EffectivePin DEF LiveLoad
  <2> QED BY <1>1, <1>8, <2>1, StartTypes DEF LiveLoad
<1>9. ASSUME NEW c \in Command, LivePost(c) PROVE Typed'
  <2>1. command' \in [Command -> CommandState] /\ Aimed'
    BY <1>9 DEF LivePost, Typed, TypeOK, CommandState, Aimed
  <2>2. command[c].url \in Url /\ command[c].url \in Target
    BY <1>9, TargetAssumption DEF LivePost, Typed, Aimed
  <2>3. PICK redirects \in SUBSET Target :
          sent' = sent \cup ({command[c].url} \X ({command[c].url} \cup redirects))
    BY <1>9 DEF LivePost
  <2>4. sent' \in SUBSET (Url \X Target)
    BY <2>2, <2>3 DEF Typed, TypeOK
  <2> QED BY <1>9, <2>1, <2>4 DEF LivePost, Typed, TypeOK
<1>10. ASSUME NEW c \in Command, GiveUp(c) PROVE Typed'
  BY <1>10 DEF GiveUp, Typed, TypeOK, CommandState, Aimed
<1>11. ASSUME NEW url \in Url, NEW capabilities \in Capabilities, Redeploy(url, capabilities)
       PROVE  Typed'
  BY <1>11 DEF Redeploy, Typed, TypeOK, Aimed
<1>12. CASE UNCHANGED vars
  BY <1>12 DEF vars, Typed, TypeOK, Aimed
<1> QED
  BY <1>2, <1>3, <1>4, <1>5, <1>6, <1>7, <1>8, <1>9, <1>10, <1>11, <1>12 DEF Next
-----------------------------------------------------------------------------
(* Pins and tokens. *)

\* A command that starts with a sound configuration, and posts to a URL that was
\* vetted, disturbs nothing.
LEMMA StartVetting ==
  ASSUME Typed, Vetting, NEW c \in Command, NEW op, NEW pc, NEW config, NEW url, NEW auth,
         Sound(config, vetted), pc = "posting" => url \in vetted, Start(c, op, pc, config, url, auth)
  PROVE  Vetting'
<1>1. command' = [command EXCEPT ![c] = [op |-> op, pc |-> pc, config |-> config,
                                         url |-> url, auth |-> auth]]
  BY DEF Start
<1>2. file' = file /\ vetted' = vetted /\ sent' = sent
  BY DEF Start
<1>3. \A d \in Command : Sound(command'[d].config, vetted)
  BY <1>1 DEF Typed, TypeOK, Vetting
<1>4. \A d \in Command : command'[d].pc = "posting" => command'[d].url \in vetted
  BY <1>1 DEF Typed, TypeOK, Vetting
<1> QED BY <1>2, <1>3, <1>4 DEF Vetting, Sound

\* No step sends a token to a URL that was not vetted, or parts a pin from its cache.
LEMMA NextVetting == Typed /\ Vetting /\ [Next]_vars => Vetting'
<1> SUFFICES ASSUME Typed, Vetting, [Next]_vars PROVE Vetting'
  OBVIOUS
<1>1. file \in Config /\ Sound(file, vetted)
  BY DEF Typed, TypeOK, Vetting
<1>2. ASSUME NEW c \in Command, NEW url \in Url, SetServer(c, url) PROVE Vetting'
  <2>1. Sound([file EXCEPT !.active = "local", !.url = url, !.pin = Null, !.cache = Null], vetted)
    BY <1>1 DEF Sound, Config
  <2> QED BY <1>2, <2>1, StartVetting DEF SetServer
<1>3. ASSUME NEW c \in Command, UseProfile(c) PROVE Vetting'
  <2>1. Sound([file EXCEPT !.active = "local"], vetted)
    BY <1>1 DEF Sound, Config
  <2> QED BY <1>3, <2>1, StartVetting DEF UseProfile
<1>4. ASSUME NEW c \in Command, NEW depth \in Depth, SetDepth(c, depth) PROVE Vetting'
  <2>1. Sound([file EXCEPT !.depth = depth], vetted)
    BY <1>1 DEF Sound, Config
  <2> QED BY <1>4, <2>1, StartVetting DEF SetDepth
<1>5. ASSUME NEW c \in Command, NEW env \in Environment, NEW override \in Url \cup {Null},
             NEW profile, PinLoad(c, env, profile, override)
      PROVE  Vetting'
  <2> DEFINE effective == Effective(file, env, override)
  <2>1. Start(c, "pin", "probing", file, effective.url, effective.auth)
    BY <1>5 DEF PinLoad
  <2> HIDE DEF effective
  <2> QED BY <1>1, <2>1, StartVetting
<1>6. ASSUME NEW c \in Command, PinProbe(c) PROVE Vetting'
  <2> DEFINE url == command[c].url
             answer == server[url]
             pin == [url |-> url, capabilities |-> answer, auth |-> command[c].auth]
             config == [command[c].config EXCEPT !.pin = pin, !.cache = answer]
  <2>1. command' = [command EXCEPT ![c] = [command[c] EXCEPT !.pc = "saving", !.config = config]]
    BY <1>6 DEF PinProbe, Typed, TypeOK
  <2>2. /\ command[c] \in CommandState /\ url \in Url
        /\ answer \in Capabilities
    BY <1>6 DEF PinProbe, Typed, TypeOK, CommandState, Aimed
  <2>3. Valid(answer) /\ (answer.type = ClosedLaunch => url \in vetted')
    BY <1>6 DEF PinProbe, Valid, ClosedLaunch
  <2>4. vetted \subseteq vetted' /\ file' = file /\ sent' = sent
    BY <1>6 DEF PinProbe
  <2>5. config.pin = pin /\ config.cache = answer
    BY <2>2 DEF CommandState, Config
  <2>6. Sound(config, vetted')
    <3>1. pin \in Pin
      BY <2>2 DEF Pin, CommandState
    <3>2. pin # Null
      BY <3>1, PinAssumption
    <3> QED BY <2>3, <2>5, <3>2 DEF Sound
  <2>7. \A d \in Command \ {c} : command'[d] = command[d]
    BY <2>1 DEF Typed, TypeOK
  <2>8. command'[c].config = config /\ command'[c].pc = "saving"
    BY <2>1, <2>2 DEF Typed, TypeOK, CommandState
  <2> HIDE DEF config
  <2>9. \A d \in Command : Sound(command'[d].config, vetted')
    BY <2>6, <2>7, <2>8, <2>4 DEF Vetting, Sound
  <2> QED BY <2>4, <2>7, <2>8, <2>9 DEF Vetting, Sound
<1>7. ASSUME NEW c \in Command, Save(c) PROVE Vetting'
  <2>1. file' = command[c].config /\ vetted' = vetted /\ sent' = sent
    BY <1>7 DEF Save
  <2>2. \A d \in Command : /\ command'[d].config = command[d].config
                           /\ command'[d].url = command[d].url
                           /\ command'[d].pc \in {command[d].pc, "done"}
    BY <1>7 DEF Save, Typed, TypeOK, CommandState
  <2> QED BY <2>1, <2>2 DEF Vetting, Sound
<1>8. ASSUME NEW c \in Command, NEW env \in Environment, LiveLoad(c, env) PROVE Vetting'
  <2>1. Effective(file, env, Null).url \in vetted
    BY <1>1, <1>8, EffectivePin DEF LiveLoad, Sound
  <2> QED BY <1>1, <1>8, <2>1, StartVetting DEF LiveLoad
<1>9. ASSUME NEW c \in Command, LivePost(c) \/ GiveUp(c) PROVE Vetting'
  <2>1. file' = file /\ vetted' = vetted /\ \A way \in sent' : way[1] \in vetted
    BY <1>9 DEF LivePost, GiveUp, Vetting
  <2>2. \A d \in Command : /\ command'[d].config = command[d].config
                           /\ command'[d].url = command[d].url
                           /\ command'[d].pc \in {command[d].pc, "done"}
    BY <1>9 DEF LivePost, GiveUp, Typed, TypeOK, CommandState
  <2> QED BY <2>1, <2>2 DEF Vetting, Sound
<1>10. ASSUME UNCHANGED <<file, command, vetted, sent>> PROVE Vetting'
  BY <1>10 DEF Vetting, Sound
<1> QED
  BY <1>2, <1>3, <1>4, <1>5, <1>6, <1>7, <1>8, <1>9, <1>10 DEF Next, Redeploy, vars

-----------------------------------------------------------------------------
(* Settings. *)

\* A command that starts while no other is under way knows what is wanted.
LEMMA StartKeeping ==
  ASSUME Typed, Keeping, NEW c \in Command, NEW op, NEW pc, NEW config, NEW url, NEW auth,
         Part(file) = wanted => Meant(op, config), Start(c, op, pc, config, url, auth)
  PROVE  Keeping'
<1>1. SUFFICES ASSUME ~ raced' PROVE Keeping'
  BY DEF Keeping
<1>2. ~ raced /\ Part(file) = wanted /\ \A d \in Command : ~ Busy(d)
  BY <1>1 DEF Start, Keeping, Busy
<1>3. /\ file' = file /\ wanted' = wanted
      /\ command' = [command EXCEPT ![c] = [op |-> op, pc |-> pc, config |-> config,
                                            url |-> url, auth |-> auth]]
  BY DEF Start
<1>4. \A d \in Command \ {c} : ~ Busy(d)'
  BY <1>2, <1>3 DEF Busy, Typed, TypeOK
<1>5. command'[c].op = op /\ command'[c].config = config
  BY <1>3 DEF Typed, TypeOK
<1>6. Meant(command[c].op, command[c].config)'
  BY <1>2, <1>3, <1>5 DEF Meant, Part
<1> QED BY <1>2, <1>3, <1>4, <1>6 DEF Keeping, Part

\* A command that ends without writing leaves the others and the file as they are.
LEMMA EndKeeping ==
  ASSUME Typed, Keeping, NEW c \in Command,
         command' = [command EXCEPT ![c].pc = "done"], UNCHANGED <<file, raced, wanted>>
  PROVE  Keeping'
<1>1. \A d \in Command : /\ command'[d].op = command[d].op
                         /\ command'[d].config = command[d].config
                         /\ command'[d].pc \in {command[d].pc, "done"}
  BY DEF Typed, TypeOK, CommandState
<1> QED BY <1>1 DEF Keeping, Busy, Meant, Part

\* Every step keeps the settings, unless commands overlap.
LEMMA NextKeeping == Typed /\ Keeping /\ [Next]_vars => Keeping'
<1> SUFFICES ASSUME Typed, Keeping, [Next]_vars PROVE Keeping'
  OBVIOUS
<1>1. file \in Config
  BY DEF Typed, TypeOK
<1>2. ASSUME NEW c \in Command, NEW url \in Url, SetServer(c, url) PROVE Keeping'
  <2> DEFINE config == [file EXCEPT !.active = "local", !.url = url, !.pin = Null, !.cache = Null]
  <2>1. Part(file) = wanted => Meant("set_server", config)
    BY <1>1 DEF Meant, Part, Config
  <2> QED BY <1>2, <2>1, StartKeeping DEF SetServer
<1>3. ASSUME NEW c \in Command, UseProfile(c) PROVE Keeping'
  <2> DEFINE config == [file EXCEPT !.active = "local"]
  <2>1. Part(file) = wanted => Meant("use_profile", config)
    BY <1>1 DEF Meant, Part, Config
  <2> QED BY <1>3, <2>1, StartKeeping DEF UseProfile
<1>4. ASSUME NEW c \in Command, NEW depth \in Depth, SetDepth(c, depth) PROVE Keeping'
  <2> DEFINE config == [file EXCEPT !.depth = depth]
  <2>1. Part(file) = wanted => Meant("set_depth", config)
    BY <1>1 DEF Meant, Part, Config
  <2> QED BY <1>4, <2>1, StartKeeping DEF SetDepth
<1>5. ASSUME NEW c \in Command, NEW env \in Environment, NEW override \in Url \cup {Null},
             NEW profile, PinLoad(c, env, profile, override)
      PROVE  Keeping'
  <2> DEFINE effective == Effective(file, env, override)
  <2>1. Start(c, "pin", "probing", file, effective.url, effective.auth)
    BY <1>5 DEF PinLoad
  <2>2. Part(file) = wanted => Meant("pin", file)
    BY DEF Meant, Part
  <2> HIDE DEF effective
  <2> QED BY <2>1, <2>2, StartKeeping
<1>6. ASSUME NEW c \in Command, PinProbe(c) PROVE Keeping'
  <2> DEFINE url == command[c].url
             pin == [url |-> url, capabilities |-> server[url], auth |-> command[c].auth]
             config == [command[c].config EXCEPT !.pin = pin, !.cache = server[url]]
  <2>1. command' = [command EXCEPT ![c] = [command[c] EXCEPT !.pc = "saving", !.config = config]]
    BY <1>6 DEF PinProbe, Typed, TypeOK
  <2>2. /\ command[c].op = "pin" /\ Busy(c)
        /\ file' = file /\ raced' = raced /\ wanted' = wanted
    BY <1>6 DEF PinProbe, Busy
  <2>3. /\ config.url = command[c].config.url
        /\ config.depth = command[c].config.depth
    BY DEF Typed, TypeOK, CommandState, Config
  <2> HIDE DEF config
  <2>4. command'[c].op = "pin" /\ command'[c].config = config
    BY <2>1, <2>2 DEF Typed, TypeOK, CommandState
  <2>5. \A d \in Command \ {c} : command'[d] = command[d]
    BY <2>1 DEF Typed, TypeOK
  <2> QED BY <2>2, <2>3, <2>4, <2>5 DEF Keeping, Busy, Meant, Part
<1>7. ASSUME NEW c \in Command, Save(c) PROVE Keeping'
  <2> DEFINE config == command[c].config
             op == command[c].op
  <2>1. SUFFICES ASSUME ~ raced' PROVE Keeping'
    BY DEF Keeping
  <2>2. ~ raced /\ Busy(c) /\ file' = config
    BY <1>7, <2>1 DEF Save, Busy
  <2>3. Meant(op, config) /\ \A d \in Command : Busy(d) => d = c
    BY <2>2 DEF Keeping
  <2>4. config \in Config /\ op \in {"none", "set_server", "use_profile", "set_depth", "pin", "live"}
    BY DEF Typed, TypeOK, CommandState
  <2>5. wanted \in [url : Url \cup {Null}, depth : Depth, pin : Pin \cup {Null}]
    BY DEF Typed, TypeOK
  <2>6. /\ op = "set_server" => wanted' = [wanted EXCEPT !.url = config.url, !.pin = Null]
        /\ op = "set_depth" => wanted' = [wanted EXCEPT !.depth = config.depth]
        /\ op = "pin" => wanted' = [wanted EXCEPT !.pin = config.pin]
        /\ op \notin {"set_server", "set_depth", "pin"} => wanted' = wanted
    BY <1>7 DEF Save
  <2> HIDE DEF config, op
  <2>7. Part(config) = wanted'
    BY <2>3, <2>4, <2>5, <2>6 DEF Meant, Part
  <2>8. \A d \in Command : ~ Busy(d)'
    BY <1>7, <2>3 DEF Save, Busy, Typed, TypeOK, CommandState
  <2> QED BY <2>2, <2>7, <2>8 DEF Keeping, Part
<1>8. ASSUME NEW c \in Command, NEW env \in Environment, LiveLoad(c, env) PROVE Keeping'
  <2>1. Part(file) = wanted => Meant("live", file)
    BY DEF Meant, Part
  <2> QED BY <1>8, <2>1, StartKeeping DEF LiveLoad
<1>9. ASSUME NEW c \in Command, LivePost(c) \/ GiveUp(c) PROVE Keeping'
  BY <1>9, EndKeeping DEF LivePost, GiveUp
<1>10. ASSUME UNCHANGED <<file, command, raced, wanted>> PROVE Keeping'
  BY <1>10 DEF Keeping, Busy, Meant, Part
<1> QED
  BY <1>2, <1>3, <1>4, <1>5, <1>6, <1>7, <1>8, <1>9, <1>10 DEF Next, Redeploy, vars

-----------------------------------------------------------------------------
(* The theorems. *)

\* The initial states satisfy the invariant.
LEMMA InitIInv == Init => IInv
<1> SUFFICES ASSUME Init PROVE IInv
  OBVIOUS
<1>1. Typed
  BY InitTyped
<1>2. Vetting
  BY DEF Init, Vetting, Sound, Default
<1>3. Keeping
  BY DEF Init, Keeping, Busy, Part, Default, Unset
<1> QED BY <1>1, <1>2, <1>3 DEF IInv

\* In every reachable state the invariant holds.
LEMMA Invariance == Spec => []IInv
<1>1. IInv /\ [Next]_vars => IInv'
  BY NextTyped, NextVetting, NextKeeping DEF IInv
<1> QED BY InitIInv, <1>1, PTL DEF Spec

\* The configuration file, the commands and the servers are what they are declared as.
THEOREM TypeCorrect == Spec => []TypeOK
<1>1. IInv => TypeOK
  BY DEF IInv, Typed
<1> QED BY Invariance, <1>1, PTL

\* Whatever commands overlap, fail or override each other and whatever the servers
\* turn into, a command sends its token only to a URL at which a --pin found a closed
\* launch, and others get it only from a redirect of the server there.
THEOREM TokenSafety == Spec => []TokenGoesToVetted
<1>1. IInv => TokenGoesToVetted
  BY DEF IInv, Vetting, TokenGoesToVetted
<1> QED BY Invariance, <1>1, PTL

\* In every order of loads and saves the pin and the cached capabilities agree.
THEOREM PinCache == Spec => []PinAndCacheAgree
<1>1. IInv => PinAndCacheAgree
  BY DEF IInv, Vetting, Sound, PinAndCacheAgree
<1> QED BY Invariance, <1>1, PTL

\* Commands that do not overlap keep what the others have set.
THEOREM Keeps == Spec => []SettingsKept
<1>1. IInv => SettingsKept
  BY DEF IInv, Keeping, Part, SettingsKept
<1> QED BY Invariance, <1>1, PTL
=============================================================================
