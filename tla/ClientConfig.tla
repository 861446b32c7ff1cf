---------------------------- MODULE ClientConfig ----------------------------
(***************************************************************************)
(* The client's configuration file (scripts/knudg_client_config.py) and    *)
(* the knudgctl commands that change it or rely on it: config set-server,  *)
(* use-profile and set exploration-depth, server capabilities --pin, and   *)
(* the live commands, which send the operator's token.                     *)
(*                                                                         *)
(* A command loads the whole file, may talk to a server, and replaces the  *)
(* whole file; nothing locks it in between.  What a server says of itself  *)
(* may change at any time.  Of the profiles only "local" can be changed,   *)
(* so its entry, its pin and its cached capabilities are the file's state. *)
(***************************************************************************)
EXTENDS FiniteSets

CONSTANTS
  Command,   \* the runs of knudgctl
  Url,       \* the server URLs that normalize_server_url accepts
  Target,    \* the URLs that a server may name in a redirect
  Depth,     \* exploration depths
  Auth,      \* the auth profiles that the environment may name, and "local"
  Type,      \* deployment types that servers may claim
  Capabilities, \* what servers may answer
  Null       \* no URL, no pin, no cached capabilities, no variable in the environment

ASSUME NullAssumption == Null \notin Url /\ Null \notin Auth
ASSUME TargetAssumption == Url \subseteq Target
ASSUME DefaultAssumption == "off" \in Depth /\ "local" \in Auth
ASSUME CapabilitiesAssumption ==
  /\ Capabilities \subseteq [type : Type, publication : BOOLEAN]
  /\ Null \notin Capabilities

VARIABLES
  file,      \* the configuration file
  server,    \* what /capabilities answers at each URL
  command,   \* the commands
  vetted,    \* the URLs at which a --pin found an acceptable closed launch
  sent,      \* the token's ways: the URL a command sent it to, and one that got it
  raced,     \* a command started while another one was under way
  wanted     \* what the commands that succeeded asked for

vars == <<file, server, command, vetted, sent, raced, wanted>>

-----------------------------------------------------------------------------

ClosedLaunch == "greencloud_closed_launch"

\* server_id, deployment_type, api_version, capabilities_digest and pin_class
\* are functions of the capabilities.
Pin == [url : Url, capabilities : Capabilities, auth : Auth]

ASSUME PinAssumption == Null \notin Pin

Config == [active : {"cloud", "local"}, url : Url \cup {Null},
           pin : Pin \cup {Null}, cache : Capabilities \cup {Null}, depth : Depth]

Environment == [url : Url \cup {Null}, auth : Auth \cup {Null}]

\* config: what it loaded, or what it is about to write.
CommandState == [op : {"none", "set_server", "use_profile", "set_depth", "pin", "live"},
                 pc : {"idle", "probing", "saving", "posting", "done"},
                 config : Config, url : Url \cup {Null}, auth : Auth]

\* default_config
Default == [active |-> "cloud", url |-> Null, pin |-> Null, cache |-> Null,
            depth |-> "off"]

Unset == [url |-> Null, depth |-> "off", pin |-> Null]

TypeOK ==
  /\ file \in Config
  /\ server \in [Url -> Capabilities]
  /\ command \in [Command -> CommandState]
  /\ vetted \in SUBSET Url /\ sent \in SUBSET (Url \X Target)
  /\ raced \in BOOLEAN
  /\ wanted \in [url : Url \cup {Null}, depth : Depth, pin : Pin \cup {Null}]

Init ==
  /\ file = Default
  /\ server \in [Url -> Capabilities]
  /\ command = [c \in Command |-> [op |-> "none", pc |-> "idle", config |-> Default,
                                   url |-> Null, auth |-> "local"]]
  /\ vetted = {} /\ sent = {}
  /\ raced = FALSE
  /\ wanted = Unset

\* Trusts a pin for whatever server the profile names.
FaultyEffective(config, env, override) ==
  LET url  == IF env.url # Null THEN env.url
              ELSE IF override # Null THEN override ELSE config.url
      auth == IF env.auth # Null THEN env.auth ELSE "local"
  IN [url |-> url, auth |-> auth,
      state |-> IF config.pin = Null THEN "unpinned" ELSE "pinned"]

\* effective_profile of the local profile: the environment goes before the
\* --server-url of the command, and that before the file.
Effective(config, env, override) ==
  LET url  == IF env.url # Null THEN env.url
              ELSE IF override # Null THEN override ELSE config.url
      auth == IF env.auth # Null THEN env.auth ELSE "local"
      overridden == env.url # Null \/ override # Null
      pin  == config.pin
      fits == pin.url = url /\ pin.auth = auth
  IN [url |-> url, auth |-> auth,
      state |-> CASE ~ overridden /\ pin = Null -> "unpinned"
                  [] ~ overridden /\ pin # Null /\ fits -> "pinned"
                  [] OTHER -> "override_unpinned"]

\* validate_capabilities
Valid(capabilities) ==
  /\ capabilities.type \in {"local", ClosedLaunch}
  /\ capabilities.type # "local" => ~ capabilities.publication

\* _live_effective
LiveAccepts(config, env) ==
  LET effective == Effective(config, env, Null)
  IN /\ effective.url # Null
     /\ effective.state = "pinned"
     /\ config.pin.capabilities.type = ClosedLaunch

-----------------------------------------------------------------------------
(* The commands. *)

\* Command c loads the file and goes on to pc.
Start(c, op, pc, config, url, auth) ==
  /\ command[c].pc = "idle"
  /\ command' = [command EXCEPT ![c] = [op |-> op, pc |-> pc, config |-> config,
                                        url |-> url, auth |-> auth]]
  /\ raced' = (raced \/ \E d \in Command : command[d].pc \notin {"idle", "done"})
  /\ UNCHANGED <<file, server, vetted, sent, wanted>>

\* Keeps the capabilities of the server that was configured before.
FaultySetServer(c, url) ==
  Start(c, "set_server", "saving",
        [file EXCEPT !.active = "local", !.url = url, !.pin = Null],
        url, "local")

SetServer(c, url) ==
  Start(c, "set_server", "saving",
        [file EXCEPT !.active = "local", !.url = url, !.pin = Null, !.cache = Null],
        url, "local")

UseProfile(c) ==
  /\ file.url # Null
  /\ Start(c, "use_profile", "saving", [file EXCEPT !.active = "local"], Null, "local")

\* Starts from the default, as config_set_server does.
FaultySetDepth(c, depth) ==
  Start(c, "set_depth", "saving", [Default EXCEPT !.depth = depth], Null, "local")

SetDepth(c, depth) ==
  Start(c, "set_depth", "saving", [file EXCEPT !.depth = depth], Null, "local")

\* server capabilities --pin --allow-insecure-loopback, maybe with --profile and
\* --server-url, of which either makes the local profile the one that is meant.
PinLoad(c, env, profile, override) ==
  LET effective == Effective(file, env, override)
      named == IF profile # Null THEN profile
               ELSE IF override # Null THEN "local" ELSE file.active
  IN /\ named = "local"
     /\ effective.url # Null
     /\ Start(c, "pin", "probing", file, effective.url, effective.auth)

PinProbe(c) ==
  LET url == command[c].url
      answer == server[url]
      pin == [url |-> url, capabilities |-> answer, auth |-> command[c].auth]
  IN /\ command[c].op = "pin" /\ command[c].pc = "probing"
     /\ Valid(answer)
     /\ command' = [command EXCEPT ![c].pc = "saving",
          ![c].config = [@ EXCEPT !.pin = pin, !.cache = answer]]
     /\ vetted' = IF answer.type = ClosedLaunch /\ ~ answer.publication
                  THEN vetted \cup {url} ELSE vetted
     /\ UNCHANGED <<file, server, sent, raced, wanted>>

\* save_config: a temporary file takes the place of the configuration.
Save(c) ==
  LET written == command[c].config
  IN /\ command[c].pc = "saving"
     /\ file' = written
     /\ command' = [command EXCEPT ![c].pc = "done"]
     /\ wanted' = CASE command[c].op = "set_server" ->
                         [wanted EXCEPT !.url = written.url, !.pin = Null]
                    [] command[c].op = "set_depth" -> [wanted EXCEPT !.depth = written.depth]
                    [] command[c].op = "pin" -> [wanted EXCEPT !.pin = written.pin]
                    [] OTHER -> wanted
     /\ UNCHANGED <<server, vetted, sent, raced>>

LiveLoad(c, env) ==
  /\ LiveAccepts(file, env)
  /\ Start(c, "live", "posting", file, Effective(file, env, Null).url, "local")

\* live_post_json: the server is up, and is sent the token; its capabilities are
\* not asked for again.  The probes refuse a redirect, urlopen follows it, and the
\* next one, with the header that holds the token.
LivePost(c) ==
  /\ command[c].pc = "posting"
  /\ \E redirects \in SUBSET Target :
       sent' = sent \cup ({command[c].url} \X ({command[c].url} \cup redirects))
  /\ command' = [command EXCEPT ![c].pc = "done"]
  /\ UNCHANGED <<file, server, vetted, raced, wanted>>

\* A server is down or its answer is refused, saving fails, or the process
\* dies: the file is as it was.
GiveUp(c) ==
  /\ command[c].pc \in {"probing", "saving", "posting"}
  /\ command' = [command EXCEPT ![c].pc = "done"]
  /\ UNCHANGED <<file, server, vetted, sent, raced, wanted>>

\* Another release, or another server, answers at url.
Redeploy(url, capabilities) ==
  /\ server' = [server EXCEPT ![url] = capabilities]
  /\ UNCHANGED <<file, command, vetted, sent, raced, wanted>>

Next ==
  \/ \E c \in Command :
       \/ \E url \in Url : SetServer(c, url)
       \/ UseProfile(c)
       \/ \E depth \in Depth : SetDepth(c, depth)
       \/ \E env \in Environment, profile \in {"cloud", "local", Null}, override \in Url \cup {Null} :
            PinLoad(c, env, profile, override)
       \/ PinProbe(c)
       \/ Save(c)
       \/ \E env \in Environment : LiveLoad(c, env)
       \/ LivePost(c)
       \/ GiveUp(c)
  \/ \E url \in Url, capabilities \in Capabilities : Redeploy(url, capabilities)

Spec == Init /\ [][Next]_vars

-----------------------------------------------------------------------------

\* Whatever commands overlap, override each other or fail, and whatever the
\* servers turn into, a command sends its token only to a URL at which a --pin
\* command once found a closed launch that does not publish: who else gets it was
\* named by the server at such a URL, in a redirect.
TokenGoesToVetted == \A way \in sent : way[1] \in vetted

\* The pin and the cached capabilities are set and cleared together, by every
\* command and every order of loads and saves.
PinAndCacheAgree ==
  file.cache = (IF file.pin = Null THEN Null ELSE file.pin.capabilities)

\* Commands that do not overlap keep what the others have set.
SettingsKept ==
  ~ raced => [url |-> file.url, depth |-> file.depth, pin |-> file.pin] = wanted
=============================================================================
