--------------------------- MODULE BrokerTransport ----------------------------
(***************************************************************************)
(* How a broker and its clients come to use the same socket: the start-up  *)
(* configuration of promptlockd, the choice of transport in the command    *)
(* line and in the MCP adapter, and the environment watch gives the daemon *)
(* it starts.                                                              *)
(*                                                                         *)
(* A path is a model value or string, "" one that is not set.  A transport *)
(* is a Unix socket or a TCP address.  Of an environment only the          *)
(* variables below are kept.                                               *)
(***************************************************************************)
EXTENDS Naturals, FiniteSets, Sequences

CONSTANTS DefaultAgent, DefaultOperator,  \* the default socket paths
          DefaultURL                      \* 127.0.0.1:8765

EnvVars == {"CONFIG", "BROKER_SOCK", "BROKER_URL", "AGENT_SOCK", "OPERATOR_SOCK",
            "LEGACY_SOCK", "BRIDGE", "TOKEN", "KEY", "DEV"}
Unix(path) == [kind |-> "unix", at |-> path]
Tcp(url) == [kind |-> "tcp", at |-> url]
Fails == [kind |-> "error", at |-> ""]

\* What a path holds is one of "socket", "file", "absent", "unreadable".
Or(a, b) == IF a # "" THEN a ELSE b

-----------------------------------------------------------------------------
\* promptlockd: the configuration.  A file is a record of profile, local (is the
\* address one of this host), legacy, agent, operator, bridge (an address: "",
\* "loopback" or "remote"), bridgeKey and execPolicy (does it have the keys
\* agent_bridge_address and execution_policy), auth, token (the operator's),
\* durable (are all its stores files or services), and the two time limits.

Default == [profile |-> "dev", local |-> TRUE, legacy |-> "", agent |-> "", operator |-> "", bridge |-> "",
            bridgeKey |-> FALSE, execPolicy |-> FALSE, auth |-> FALSE, token |-> "", durable |-> FALSE,
            defaultTO |-> 120, maxTO |-> 600]
EtcConfig == "etc"

AnySocket(c) == {c.legacy, c.agent, c.operator} # {""}
UsesDualUnixSockets(c) == c.agent # "" \/ c.operator # ""
UsesLegacyUnixSocket(c) == c.legacy # "" /\ ~UsesDualUnixSockets(c)
DefaultBridge(goos) == IF goos = "linux" THEN "" ELSE "loopback"
AtMost(n, limit) == IF n > limit THEN limit ELSE n

\* A bridge address counts as chosen only in a file that has an execution policy.
bridgeConfigured(c) == c.execPolicy /\ c.bridgeKey

\* Only the profile spelled "hardened" is applied, whatever the checks of the
\* start make of other spellings.
applyProfile_Unlimited(c, goos) == c
applyProfile(c, goos) ==
  IF c.profile # "hardened" THEN c
  ELSE LET s == IF ~AnySocket(c) /\ c.local
                THEN [c EXCEPT !.agent = DefaultAgent, !.operator = DefaultOperator] ELSE c
       IN [s EXCEPT !.maxTO = AtMost(c.maxTO, 120), !.defaultTO = AtMost(c.defaultTO, 60),
                    !.bridge = IF ~bridgeConfigured(c) /\ UsesDualUnixSockets(s) THEN DefaultBridge(goos) ELSE c.bridge]

\* A file that is not there leaves the defaults, with no profile applied.
Load(files, path, goos) ==
  IF path \notin DOMAIN files THEN Default ELSE applyProfile(files[path], goos)

\* The environment overrides what the profile chose.
applyEnvOverrides(c, env) ==
  [c EXCEPT !.legacy = Or(env["LEGACY_SOCK"], c.legacy), !.agent = Or(env["AGENT_SOCK"], c.agent),
            !.operator = Or(env["OPERATOR_SOCK"], c.operator), !.bridge = Or(env["BRIDGE"], c.bridge),
            !.token = Or(env["TOKEN"], c.token)]

validateSocketConfig_SamePath(c) == ~(c.legacy # "" /\ UsesDualUnixSockets(c))
validateSocketConfig(c) ==
  /\ ~(c.legacy # "" /\ UsesDualUnixSockets(c))
  /\ ~(c.agent # "" /\ c.agent = c.operator)
  /\ c.bridge # "" => c.agent # "" /\ c.operator # "" /\ c.bridge = "loopback"

validateTransportSafety(c, allow) == AnySocket(c) \/ c.local \/ allow
Profile(c) == IF c.profile = "" THEN "dev" ELSE IF c.profile = "Hardened" THEN "hardened" ELSE c.profile
validateSecurityProfile(c, allowInsecure) ==
  \/ Profile(c) = "dev"
  \/ c.auth /\ (Profile(c) = "insecure" => allowInsecure)
validateDeploymentMode_KeyOptional(c, env) == IF Profile(c) = "dev" THEN env["DEV"] = "1" ELSE c.durable
validateDeploymentMode(c, env) ==
  IF Profile(c) = "dev" THEN env["DEV"] = "1" ELSE c.durable /\ (c.auth => env["KEY"] # "")

\* The endpoints and the role each is for.
serveConfiguredListeners(c) ==
  IF UsesLegacyUnixSocket(c) THEN {[role |-> "both", transport |-> Unix(c.legacy)]}
  ELSE IF ~UsesDualUnixSockets(c) THEN {[role |-> "both", transport |-> Tcp(DefaultURL)]}
  ELSE IF c.agent = "" \/ c.operator = "" THEN {}
  ELSE {[role |-> "agent", transport |-> Unix(c.agent)], [role |-> "operator", transport |-> Unix(c.operator)]}
         \cup (IF c.bridge = "" THEN {} ELSE {[role |-> "agent", transport |-> Tcp("bridge")]})

\* What a start makes of a configuration file and an environment: the set of
\* endpoints, empty when it is refused.  What its stores hold is left out.
Start(files, env, goos, allow) ==
  LET c == applyEnvOverrides(Load(files, Or(env["CONFIG"], EtcConfig), goos), env) IN
  IF /\ validateSocketConfig(c) /\ validateSecurityProfile(c, allow) /\ validateDeploymentMode(c, env)
     /\ c.auth => c.token # ""
     /\ validateTransportSafety(c, allow)
  THEN serveConfiguredListeners(c) ELSE {}

-----------------------------------------------------------------------------
\* The command line.

brokerSocketExists(stat, path) == IF path = "" THEN "absent" ELSE stat[path]

roleSpecificBrokerUnixSocket(role, env) ==
  IF role = "operator" THEN env["OPERATOR_SOCK"] ELSE env["AGENT_SOCK"]
defaultBrokerUnixSocket(role) == IF role = "operator" THEN DefaultOperator ELSE DefaultAgent

\* The configuration of PROMPTLOCK_CONFIG, or the one set up for the workspace.
resolvedWorkspaceSetupConfigPath(explicit, workspace) == Or(explicit, workspace)
workspaceSetupBrokerSocket(role, files, env, workspace, goos) ==
  LET path == resolvedWorkspaceSetupConfigPath(env["CONFIG"], workspace)
      c == Load(files, path, goos)
  IN IF path = "" THEN "" ELSE Or(IF role = "operator" THEN c.operator ELSE c.agent, c.legacy)

\* A socket asked for by name is used or is an error; one that is only expected
\* gives way to an explicit address when it is not there.
Named(stat, path) == IF brokerSocketExists(stat, path) = "socket" THEN Unix(path) ELSE Fails
Expected_Localhost(stat, path, url) ==
  IF brokerSocketExists(stat, path) = "socket" THEN Unix(path) ELSE Tcp(Or(url, DefaultURL))
Expected(stat, path, url) ==
  CASE brokerSocketExists(stat, path) = "socket" -> Unix(path)
    [] brokerSocketExists(stat, path) = "absent" /\ url # "" -> Tcp(url)
    [] OTHER -> Fails

resolveBrokerSelection(role, flags, setup, env, stat) ==
  IF flags.unix # "" THEN Named(stat, flags.unix)
  ELSE IF flags.url # "" THEN Tcp(flags.url)
  ELSE IF env["BROKER_SOCK"] # "" THEN Named(stat, env["BROKER_SOCK"])
  ELSE Expected(stat, Or(roleSpecificBrokerUnixSocket(role, env), Or(setup, defaultBrokerUnixSocket(role))),
                env["BROKER_URL"])

\* The adapter's own version of it, for the agent.
resolveBrokerTransport(env, stat) ==
  LET there(path) == stat[path] \in {"socket", "file"}
      agent == Or(env["AGENT_SOCK"], DefaultAgent)
  IN IF env["BROKER_SOCK"] # "" THEN (IF there(env["BROKER_SOCK"]) THEN Unix(env["BROKER_SOCK"]) ELSE Fails)
     ELSE IF there(agent) THEN Unix(agent)
     ELSE IF env["BROKER_URL"] # "" THEN Tcp(env["BROKER_URL"]) ELSE Fails

-----------------------------------------------------------------------------
\* The daemon that watch starts.

shouldWatchAutostartDaemon(flags, env) ==
  flags.unix = "" /\ flags.url = "" /\ env["BROKER_URL"] = "" /\ env["BROKER_SOCK"] = ""

mergeMissingEnv_Overwrite(env, exports) ==
  [v \in EnvVars |-> IF v \in DOMAIN exports THEN exports[v] ELSE env[v]]
mergeMissingEnv(env, exports) ==
  [v \in EnvVars |-> IF env[v] = "" /\ v \in DOMAIN exports THEN exports[v] ELSE env[v]]

\* flag is --config.  exports gives the instance.env beside a configuration.
daemonEnv(flag, env, workspace, exports) ==
  LET path == resolvedWorkspaceSetupConfigPath(Or(flag, env["CONFIG"]), workspace)
      named == [env EXCEPT !["CONFIG"] = path]
  IN IF path = "" THEN env
     ELSE IF path \in DOMAIN exports THEN mergeMissingEnv(named, exports[path]) ELSE named

\* The token a client of the operator sends.
defaultOperatorToken(files, env, workspace, goos) ==
  LET path == resolvedWorkspaceSetupConfigPath(env["CONFIG"], workspace)
  IN Or(env["TOKEN"], IF path = "" THEN "" ELSE Load(files, path, goos).token)

\* What the paths hold once only these endpoints are served.
StatOf(endpoints, paths) ==
  [p \in paths |-> IF [kind |-> "unix", at |-> p] \in {e.transport : e \in endpoints} THEN "socket" ELSE "absent"]

-----------------------------------------------------------------------------
\* Every client of a role that finds a broker uses the same transport, and TCP
\* only where an address was named (resolveBrokerSelection, the adapter's
\* resolveBrokerTransport, docs/operations/CONFIG.md:106).
NoSilentTcp(role, flags, setup, env, stat) ==
  LET cli == resolveBrokerSelection(role, flags, setup, env, stat)
      adapter == resolveBrokerTransport(env, stat)
  IN /\ cli.kind = "tcp" => cli.at \in {flags.url, env["BROKER_URL"]} \ {""}
     /\ adapter.kind = "tcp" => adapter.at = env["BROKER_URL"]
     /\ (role = "agent" /\ setup = "" /\ flags.unix = "" /\ flags.url = ""
          /\ Fails \notin {cli, adapter}) => cli = adapter

\* A broker that starts keeps the roles apart: no endpoint of a two-socket broker
\* serves both, the operator is never served over TCP beside the agent, and the
\* limits of a hardened configuration hold (Load, applyEnvOverrides,
\* validateSocketConfig, serveConfiguredListeners).
RolesApart(files, env, goos, allow) ==
  LET served == Start(files, env, goos, allow)
      c == applyEnvOverrides(Load(files, Or(env["CONFIG"], EtcConfig), goos), env)
  IN /\ Cardinality(served) > 1 =>
          /\ \A e, f \in served : e.transport = f.transport => e = f
          /\ \A e \in served : e.role = "agent" \/ e = [role |-> "operator", transport |-> Unix(c.operator)]
     /\ served # {} /\ c.profile = "hardened" => c.maxTO <= 120 /\ c.defaultTO <= 60 /\ c.auth

\* promptlock watch reaches the daemon it started: the socket it takes for the
\* operator's is the one the daemon serves the operator on (daemonEnv,
\* workspaceSetupBrokerSocket, CHANGELOG.md:64).
WatchReachesItsDaemon(flag, env, workspace, files, exports, goos, paths) ==
  LET noFlags == [unix |-> "", url |-> ""]
      served == Start(files, daemonEnv(flag, env, workspace, exports), goos, FALSE)
      found == resolveBrokerSelection("operator", noFlags,
                 workspaceSetupBrokerSocket("operator", files, env, workspace, goos), env, StatOf(served, paths))
  IN shouldWatchAutostartDaemon(noFlags, env) /\ Cardinality(served) > 1 =>
       [role |-> "operator", transport |-> found] \in served
==============================================================================
