---------------------------- MODULE Policy_proofs -----------------------------
(***************************************************************************)
(* Theorems about the decisions the broker and its clients take on one     *)
(* input: the start-up configuration and the choice of a transport, the    *)
(* environment and the docker arguments of an execution, the scan for      *)
(* network destinations, and the container a launch starts.  They hold for *)
(* every input, argument vectors of every length included.                 *)
(***************************************************************************)
EXTENDS BrokerTransport, CommandPolicy, EgressPolicy, ContainerLaunch, FiniteSetTheorems, WellFoundedInduction,
        TLAPS

------------------------------------------------------------------------------
(* Facts about numbers, sequences and sets *)

\* Induction up to a bound, over a set of numbers.
LEMMA CountUp ==
  ASSUME NEW n \in Nat, NEW T, 0 \in T, \A k \in 0..n : k < n /\ k \in T => k + 1 \in T
  PROVE  \A k \in 0..n : k \in T
<1> DEFINE Missing == {k \in 0..n : k \notin T}
<1> SUFFICES ASSUME Missing # {} PROVE FALSE
  OBVIOUS
<1>1. Missing \in SUBSET Nat
  OBVIOUS
<1>2. PICK k \in Missing : \A j \in Missing : ~ (<<j, k>> \in OpToRel(<, Nat))
  <2> HIDE DEF Missing
  <2> QED BY <1>1, NatLessThanWellFounded, WFMin
<1>3. \A j \in Missing : ~ (j < k)
  BY <1>1, <1>2 DEF OpToRel
<1>4. k # 0 /\ k - 1 \in 0..n /\ k - 1 < n /\ k - 1 + 1 = k /\ k - 1 < k
  OBVIOUS
<1> QED BY <1>2, <1>3, <1>4

\* What a sequence has in it.
LEMMA ElementOf ==
  ASSUME NEW S, NEW s \in Seq(S), NEW i \in 1..Len(s)
  PROVE  s[i] \in S
OBVIOUS

\* The positions of a sequence.
LEMMA SequenceDomain == ASSUME NEW S, NEW s \in Seq(S) PROVE DOMAIN s = 1..Len(s) /\ Len(s) \in Nat
OBVIOUS

\* Of a set with more than one element.
LEMMA TwoOrMore == ASSUME NEW S, Cardinality(S) > 1 PROVE S # {} /\ \A e : S # {e}
<1>1. Cardinality({}) = 0 /\ \A e : Cardinality({e}) = 1
  BY FS_EmptySet, FS_Singleton
<1>2. Cardinality(S) # 0 /\ Cardinality(S) # 1
  OBVIOUS
<1> QED BY <1>1, <1>2

------------------------------------------------------------------------------
(* BrokerTransport: the configuration and the choice of a transport *)

\* NoSilentTcp (resolveBrokerSelection, resolveBrokerTransport): a client that falls
\* back to TCP was given the address, and with no socket named the command line of
\* an agent and the MCP adapter choose alike, for any environment and any paths.
THEOREM ClientsAgree ==
  DefaultAgent # "" => \A role, flags, setup, env, stat : NoSilentTcp(role, flags, setup, env, stat)
<1> SUFFICES ASSUME DefaultAgent # "", NEW role, NEW flags, NEW setup, NEW env, NEW stat
             PROVE  NoSilentTcp(role, flags, setup, env, stat)
  OBVIOUS
<1> DEFINE cli == resolveBrokerSelection(role, flags, setup, env, stat)
           adapter == resolveBrokerTransport(env, stat)
           agent == Or(env["AGENT_SOCK"], DefaultAgent)
<1>0. /\ \A p, u : Unix(p) # Tcp(u) /\ Unix(p) # Fails /\ Tcp(u) # Fails
      /\ \A p : Unix(p).kind = "unix" /\ \A u : Tcp(u).kind = "tcp" /\ Tcp(u).at = u
      /\ Fails.kind = "error"
  <2>1. \A p : Unix(p).kind = "unix" /\ \A u : Tcp(u).kind = "tcp" /\ Tcp(u).at = u
    BY DEF Unix, Tcp
  <2>2. Fails.kind = "error"
    BY DEF Fails
  <2> QED BY <2>1, <2>2
<1>1. cli.kind = "tcp" => cli.at \in {flags.url, env["BROKER_URL"]} \ {""}
  BY <1>0 DEF resolveBrokerSelection, Named, Expected
<1>2. adapter.kind = "tcp" => adapter.at = env["BROKER_URL"]
  BY <1>0 DEF resolveBrokerTransport
<1>3. ASSUME role = "agent", setup = "", flags.unix = "", flags.url = "", Fails # cli, Fails # adapter
      PROVE  cli = adapter
  <2>1. CASE env["BROKER_SOCK"] # ""
    BY <1>3, <2>1 DEF resolveBrokerSelection, resolveBrokerTransport, Named
  <2>2. CASE env["BROKER_SOCK"] = ""
    <3>1. cli = Expected(stat, agent, env["BROKER_URL"])
      BY <1>3, <2>2 DEF resolveBrokerSelection, roleSpecificBrokerUnixSocket, defaultBrokerUnixSocket, Or
    <3>2. adapter = IF stat[agent] \in {"socket", "file"} THEN Unix(agent)
                    ELSE IF env["BROKER_URL"] # "" THEN Tcp(env["BROKER_URL"]) ELSE Fails
      BY <2>2 DEF resolveBrokerTransport
    <3>3. agent # ""
      BY DEF Or
    <3> HIDE DEF cli, adapter, agent
    <3> QED BY <1>3, <3>1, <3>2, <3>3 DEF Expected, brokerSocketExists
  <2> QED BY <2>1, <2>2
<1> QED BY <1>1, <1>2, <1>3 DEF NoSilentTcp

\* A configuration has the fields of the default one, and limits that are numbers.
IsConfig(c) ==
  /\ c = [f \in DOMAIN Default |-> c[f]]
  /\ c.defaultTO \in Int /\ c.maxTO \in Int

\* The default configuration is one.
LEMMA DefaultConfig == IsConfig(Default) /\ Default.profile = "dev"
<1>1. Default.profile = "dev" /\ Default.defaultTO = 120 /\ Default.maxTO = 600
  BY DEF Default
<1>2. \A d : d = [profile |-> d.profile, local |-> d.local, legacy |-> d.legacy, agent |-> d.agent,
                  operator |-> d.operator, bridge |-> d.bridge, bridgeKey |-> d.bridgeKey,
                  execPolicy |-> d.execPolicy, auth |-> d.auth, token |-> d.token, durable |-> d.durable,
                  defaultTO |-> d.defaultTO, maxTO |-> d.maxTO] => d = [f \in DOMAIN d |-> d[f]]
  OBVIOUS
<1>3. Default = [f \in DOMAIN Default |-> Default[f]]
  BY <1>2 DEF Default
<1> QED BY <1>1, <1>3 DEF IsConfig

\* What a profile and the environment leave alone, and what they change.
LEMMA ProfileApplied ==
  ASSUME NEW c, IsConfig(c), NEW goos
  PROVE  /\ IsConfig(applyProfile(c, goos))
         /\ applyProfile(c, goos).profile = c.profile
         /\ c.profile = "hardened" => /\ applyProfile(c, goos).maxTO <= 120
                                      /\ applyProfile(c, goos).defaultTO <= 60
<1> DEFINE s == IF ~AnySocket(c) /\ c.local
                THEN [c EXCEPT !.agent = DefaultAgent, !.operator = DefaultOperator] ELSE c
<1>1. IsConfig(s) /\ s.profile = c.profile
  BY DEF IsConfig, Default
<1>2. CASE c.profile # "hardened"
  BY <1>2 DEF applyProfile
<1>3. CASE c.profile = "hardened"
  <2>1. PICK b : applyProfile(c, goos) =
                   [s EXCEPT !.maxTO = AtMost(c.maxTO, 120), !.defaultTO = AtMost(c.defaultTO, 60), !.bridge = b]
    BY <1>3 DEF applyProfile
  <2> HIDE DEF s
  <2>2. /\ AtMost(c.maxTO, 120) \in Int /\ AtMost(c.maxTO, 120) <= 120
        /\ AtMost(c.defaultTO, 60) \in Int /\ AtMost(c.defaultTO, 60) <= 60
    BY DEF AtMost, IsConfig
  <2> DEFINE d == [s EXCEPT !.maxTO = AtMost(c.maxTO, 120), !.defaultTO = AtMost(c.defaultTO, 60), !.bridge = b]
  <2>3. /\ \A f \in DOMAIN Default : d[f] = CASE f = "maxTO" -> AtMost(c.maxTO, 120)
                                           [] f = "defaultTO" -> AtMost(c.defaultTO, 60)
                                           [] f = "bridge" -> b [] OTHER -> s[f]
        /\ d = [f \in DOMAIN Default |-> d[f]]
        /\ {"maxTO", "defaultTO", "bridge", "profile"} \subseteq DOMAIN Default
    <3>1. {"maxTO", "defaultTO", "bridge", "profile"} \subseteq DOMAIN Default
      BY DEF Default
    <3>2. DOMAIN s = DOMAIN Default
      BY <1>1 DEF IsConfig
    <3> QED BY <3>1, <3>2
  <2> HIDE DEF d
  <2>4. d.maxTO = AtMost(c.maxTO, 120) /\ d.defaultTO = AtMost(c.defaultTO, 60) /\ d.profile = s.profile
    BY <2>3
  <2>5. IsConfig(d)
    BY <2>2, <2>3, <2>4 DEF IsConfig
  <2> QED BY <1>1, <2>1, <2>2, <2>4, <2>5 DEF d
<1> QED BY <1>2, <1>3

\* The environment sets addresses, never the profile nor the time limits.
LEMMA EnvironmentApplied ==
  ASSUME NEW c, IsConfig(c), NEW env
  PROVE  /\ applyEnvOverrides(c, env).profile = c.profile
         /\ applyEnvOverrides(c, env).maxTO = c.maxTO
         /\ applyEnvOverrides(c, env).defaultTO = c.defaultTO
BY DEF applyEnvOverrides, IsConfig, Default

\* RolesApart (Load, applyEnvOverrides, serveConfiguredListeners): a hardened broker
\* that starts has its limits and asks for authentication, and listeners of different
\* roles never share a transport, for any files and any environment.
THEOREM RolesStayApart ==
  \A files, env, goos, allow :
    (\A p \in DOMAIN files : IsConfig(files[p])) => RolesApart(files, env, goos, allow)
<1> SUFFICES ASSUME NEW files, NEW env, NEW goos, NEW allow, \A p \in DOMAIN files : IsConfig(files[p])
             PROVE  RolesApart(files, env, goos, allow)
  OBVIOUS
<1> DEFINE loaded == Load(files, Or(env["CONFIG"], EtcConfig), goos)
           c == applyEnvOverrides(loaded, env)
           served == Start(files, env, goos, allow)
<1>1. IsConfig(loaded) /\ (loaded.profile = "hardened" => loaded.maxTO <= 120 /\ loaded.defaultTO <= 60)
  BY DefaultConfig, ProfileApplied DEF Load
<1>2. c.profile = "hardened" => c.maxTO <= 120 /\ c.defaultTO <= 60
  <2> HIDE DEF loaded
  <2> QED BY <1>1, EnvironmentApplied
<1>3. ASSUME served # {}
      PROVE  served = serveConfiguredListeners(c) /\ validateSocketConfig(c) /\ validateSecurityProfile(c, allow)
  BY <1>3 DEF Start
<1> HIDE DEF served, c
<1>4. ASSUME served # {}, c.profile = "hardened" PROVE c.auth
  BY <1>3, <1>4 DEF validateSecurityProfile, Profile
<1>5. ASSUME Cardinality(served) > 1
      PROVE  /\ \A e, f \in served : e.transport = f.transport => e = f
             /\ \A e \in served : e.role = "agent" \/ e = [role |-> "operator", transport |-> Unix(c.operator)]
  <2>1. served # {} /\ \A e : served # {e}
    BY <1>5, TwoOrMore
  <2> DEFINE agent == [role |-> "agent", transport |-> Unix(c.agent)]
             operator == [role |-> "operator", transport |-> Unix(c.operator)]
             bridge == [role |-> "agent", transport |-> Tcp("bridge")]
  <2>2. served \subseteq {agent, operator, bridge} /\ c.agent # "" /\ c.agent # c.operator
    BY <1>3, <2>1 DEF serveConfiguredListeners, validateSocketConfig
  <2>3. Unix(c.agent) # Unix(c.operator) /\ Unix(c.agent) # Tcp("bridge") /\ Unix(c.operator) # Tcp("bridge")
    BY <2>2 DEF Unix, Tcp
  <2>4. /\ agent.transport = Unix(c.agent) /\ agent.role = "agent"
        /\ operator.transport = Unix(c.operator)
        /\ bridge.transport = Tcp("bridge") /\ bridge.role = "agent"
    OBVIOUS
  <2> QED BY <2>2, <2>3, <2>4
<1> QED BY <1>2, <1>4, <1>5 DEF RolesApart, c, served

\* An environment gives every variable, and the exports beside a configuration name
\* no operator's socket but the one the configuration names.
IsEnvironment(env) == env = [v \in EnvVars |-> env[v]]
ExportsAgree(files, exports, goos) ==
  \A p \in DOMAIN exports : "OPERATOR_SOCK" \in DOMAIN exports[p] =>
    exports[p]["OPERATOR_SOCK"] \in {"", Load(files, p, goos).operator}

\* made names the configuration, and the operator's socket of env or of the exports.
DaemonNames(made, env, path, exports) ==
  /\ made["CONFIG"] = path
  /\ made["OPERATOR_SOCK"] =
       IF env["OPERATOR_SOCK"] = "" /\ path \in DOMAIN exports /\ "OPERATOR_SOCK" \in DOMAIN exports[path]
       THEN exports[path]["OPERATOR_SOCK"] ELSE env["OPERATOR_SOCK"]

\* What the daemon that watch starts takes for its configuration and for the
\* operator's socket (daemonEnv, mergeMissingEnv).
LEMMA DaemonsEnvironment ==
  ASSUME NEW env, IsEnvironment(env), NEW workspace, NEW exports, NEW path, path # "",
         path = resolvedWorkspaceSetupConfigPath(env["CONFIG"], workspace),
         NEW made, made = daemonEnv("", env, workspace, exports)
  PROVE  DaemonNames(made, env, path, exports)
<1> DEFINE named == [env EXCEPT !["CONFIG"] = path]
<1>1. made = IF path \in DOMAIN exports THEN mergeMissingEnv(named, exports[path]) ELSE named
  BY DEF daemonEnv, Or
<1>2. named["CONFIG"] = path /\ named["OPERATOR_SOCK"] = env["OPERATOR_SOCK"]
  BY DEF IsEnvironment, EnvVars
<1> HIDE DEF named
<1>3. \A x : /\ mergeMissingEnv(named, x)["CONFIG"] = path
             /\ mergeMissingEnv(named, x)["OPERATOR_SOCK"] =
                  IF env["OPERATOR_SOCK"] = "" /\ "OPERATOR_SOCK" \in DOMAIN x
                  THEN x["OPERATOR_SOCK"] ELSE env["OPERATOR_SOCK"]
  <2>1. "CONFIG" \in EnvVars /\ "OPERATOR_SOCK" \in EnvVars
    BY DEF EnvVars
  <2> QED BY <1>2, <2>1 DEF mergeMissingEnv
<1>4. CASE path \in DOMAIN exports
  <2>1. made = mergeMissingEnv(named, exports[path])
    BY <1>1, <1>4
  <2> QED BY <1>3, <1>4, <2>1 DEF DaemonNames
<1>5. CASE path \notin DOMAIN exports
  <2>1. made = named
    BY <1>1, <1>5
  <2> QED BY <1>2, <1>5, <2>1 DEF DaemonNames
<1> QED BY <1>4, <1>5

\* WatchReachesItsDaemon (daemonEnv, workspaceSetupBrokerSocket, resolveBrokerSelection):
\* for any environment, any workspace whose exports agree with its configuration, and
\* a configuration of the host that leaves the operator's socket where clients expect
\* it; the paths looked at are at least those the daemon serves.
THEOREM WatchFindsDaemon ==
  \A env, workspace, files, exports, goos, paths :
    /\ IsEnvironment(env) /\ \A p \in DOMAIN files : IsConfig(files[p])
    /\ ExportsAgree(files, exports, goos)
    /\ Load(files, EtcConfig, goos).operator \in {"", DefaultOperator}
    /\ \A e \in Start(files, daemonEnv("", env, workspace, exports), goos, FALSE) :
         e.transport.kind = "unix" => e.transport.at \in paths
    => WatchReachesItsDaemon("", env, workspace, files, exports, goos, paths)
<1> SUFFICES ASSUME NEW env, NEW workspace, NEW files, NEW exports, NEW goos, NEW paths,
                    IsEnvironment(env), \A p \in DOMAIN files : IsConfig(files[p]),
                    ExportsAgree(files, exports, goos),
                    Load(files, EtcConfig, goos).operator \in {"", DefaultOperator},
                    \A e \in Start(files, daemonEnv("", env, workspace, exports), goos, FALSE) :
                      e.transport.kind = "unix" => e.transport.at \in paths
             PROVE  WatchReachesItsDaemon("", env, workspace, files, exports, goos, paths)
  OBVIOUS
<1> DEFINE made == daemonEnv("", env, workspace, exports)
           loaded == Load(files, Or(made["CONFIG"], EtcConfig), goos)
           c == applyEnvOverrides(loaded, made)
           served == Start(files, made, goos, FALSE)
           noFlags == [unix |-> "", url |-> ""]
           setup == workspaceSetupBrokerSocket("operator", files, env, workspace, goos)
           wanted == Or(env["OPERATOR_SOCK"], Or(setup, DefaultOperator))
           stat == StatOf(served, paths)
           found == resolveBrokerSelection("operator", noFlags, setup, env, stat)
<1> SUFFICES ASSUME shouldWatchAutostartDaemon(noFlags, env), Cardinality(served) > 1
             PROVE  [role |-> "operator", transport |-> found] \in served
  BY DEF WatchReachesItsDaemon
<1>1. found = Expected(stat, wanted, "")
  <2>1. noFlags.unix = "" /\ noFlags.url = ""
    OBVIOUS
  <2>2. env["BROKER_SOCK"] = "" /\ env["BROKER_URL"] = ""
    BY DEF shouldWatchAutostartDaemon
  <2> HIDE DEF noFlags, stat, setup
  <2> QED BY <2>1, <2>2 DEF resolveBrokerSelection, roleSpecificBrokerUnixSocket, defaultBrokerUnixSocket
<1>2. c.operator # "" /\ [role |-> "operator", transport |-> Unix(c.operator)] \in served
  <2>1. served # {} /\ \A e : served # {e}
    BY TwoOrMore
  <2>2. served = {} \/ served = serveConfiguredListeners(c)
    BY DEF Start
  <2> HIDE DEF served, c
  <2> QED BY <2>1, <2>2 DEF serveConfiguredListeners
<1>3. c.operator = Or(made["OPERATOR_SOCK"], loaded.operator)
  <2>1. IsConfig(loaded)
    BY DefaultConfig, ProfileApplied DEF Load
  <2> HIDE DEF loaded, made
  <2> QED BY <2>1 DEF applyEnvOverrides, IsConfig, Default
<1>4. wanted = c.operator
  <2> DEFINE path == resolvedWorkspaceSetupConfigPath(env["CONFIG"], workspace)
  <2> HIDE DEF c
  <2>1. CASE path = ""
    <3>1. env["CONFIG"] = "" /\ made = env
      BY <2>1 DEF daemonEnv, resolvedWorkspaceSetupConfigPath, Or
    <3>2. loaded = Load(files, EtcConfig, goos)
      BY <3>1 DEF Or
    <3>3. setup = ""
      BY <2>1 DEF workspaceSetupBrokerSocket
    <3> HIDE DEF loaded, made, setup
    <3> QED BY <1>2, <1>3, <3>1, <3>2, <3>3 DEF Or
  <2>2. CASE path # ""
    <3> DEFINE exported == path \in DOMAIN exports /\ "OPERATOR_SOCK" \in DOMAIN exports[path]
    <3>0. path = resolvedWorkspaceSetupConfigPath(env["CONFIG"], workspace)
      OBVIOUS
    <3>m. made = daemonEnv("", env, workspace, exports)
      OBVIOUS
    <3> HIDE DEF made, path
    <3>n. DaemonNames(made, env, path, exports)
      BY <2>2, <3>0, <3>m, DaemonsEnvironment
    <3>1. /\ made["CONFIG"] = path
          /\ made["OPERATOR_SOCK"] = IF env["OPERATOR_SOCK"] = "" /\ exported
                                     THEN exports[path]["OPERATOR_SOCK"] ELSE env["OPERATOR_SOCK"]
      BY <3>n DEF DaemonNames
    <3>2. loaded = Load(files, path, goos)
      BY <2>2, <3>1 DEF Or
    <3> HIDE DEF loaded
    <3>3. setup = Or(loaded.operator, loaded.legacy)
      BY <2>2, <3>2 DEF workspaceSetupBrokerSocket, path
    <3>4. exported => exports[path]["OPERATOR_SOCK"] \in {"", loaded.operator}
      BY <3>2 DEF ExportsAgree
    <3> HIDE DEF setup
    <3> QED BY <1>2, <1>3, <3>1, <3>3, <3>4 DEF Or
  <2> QED BY <2>1, <2>2
<1>5. stat[c.operator] = "socket"
  <2> DEFINE op == [role |-> "operator", transport |-> Unix(c.operator)]
  <2>1. /\ op.transport = [kind |-> "unix", at |-> c.operator]
        /\ op.transport.kind = "unix" /\ op.transport.at = c.operator
    BY DEF Unix
  <2> HIDE DEF op, c, served
  <2>2. op \in served
    BY <1>2 DEF op
  <2>3. c.operator \in paths
    BY <2>1, <2>2 DEF served
  <2> QED BY <2>1, <2>2, <2>3 DEF StatOf
<1>6. found = Unix(c.operator)
  <2> HIDE DEF found, stat, wanted, c
  <2> QED BY <1>1, <1>2, <1>4, <1>5 DEF Expected, brokerSocketExists
<1> QED BY <1>2, <1>6

------------------------------------------------------------------------------
(* CommandPolicy: the environment of an execution *)

\* The values entries give a name.
ValuesOf(entries, n) == {e[2] : e \in {x \in entries : x[1] = n}}

\* The baseline entries of a name: the broker's search path, or the ambient value.
LEMMA BaselineOf ==
  ASSUME PathVar \in Baseline, NEW ambient, NEW path, NEW n
  PROVE  ValuesOf(BaselineEntries(ambient, path), n) =
           IF n \notin Baseline THEN {}
           ELSE IF n = PathVar /\ path # {} THEN path ELSE Ambient(ambient, n)
<1> DEFINE values == UNION {Ambient(ambient, m) \cup path : m \in Baseline}
           wanted == IF n = PathVar /\ path # {} THEN path ELSE Ambient(ambient, n)
           entries == BaselineEntries(ambient, path)
<1>1. \A x : x \in entries /\ x[1] = n <=> n \in Baseline /\ \E v \in values : x = <<n, v>> /\ v \in wanted
  BY DEF BaselineEntries
<1>2. n \in Baseline => wanted \subseteq values
  <2>1. \A m \in Baseline : Ambient(ambient, m) \subseteq values /\ path \subseteq values
    OBVIOUS
  <2> QED BY <2>1
<1> HIDE DEF wanted, values, entries
<1>3. \A v : v \in ValuesOf(entries, n) <=> n \in Baseline /\ v \in wanted
  <2>1. ASSUME NEW v, v \in ValuesOf(entries, n) PROVE n \in Baseline /\ v \in wanted
    BY <1>1, <2>1 DEF ValuesOf
  <2>2. ASSUME NEW v, n \in Baseline, v \in wanted PROVE v \in ValuesOf(entries, n)
    <3>1. <<n, v>> \in entries /\ <<n, v>>[1] = n /\ <<n, v>>[2] = v
      BY <1>1, <1>2, <2>2
    <3> QED BY <3>1 DEF ValuesOf
  <2> QED BY <2>1, <2>2
<1>4. CASE n \in Baseline
  <2>1. ValuesOf(entries, n) = wanted
    BY <1>3, <1>4
  <2> QED BY <1>4, <2>1 DEF wanted, entries
<1>5. CASE n \notin Baseline
  <2>1. ValuesOf(entries, n) = {}
    BY <1>3, <1>5
  <2> QED BY <1>5, <2>1 DEF entries
<1> QED BY <1>4, <1>5

\* Every name of a leased secret has one entry, of one of the values it was leased with.
LEMMA SecretOf ==
  ASSUME NEW leased, \A s \in leased : s.valid, NEW secrets \in SecretEntries(leased), NEW n
  PROVE  /\ (\A s \in leased : s.name # n) => ValuesOf(secrets, n) = {}
         /\ (\E s \in leased : s.name = n) => \E s \in leased : s.name = n /\ ValuesOf(secrets, n) = {s.value}
<1> DEFINE named == {s.name : s \in {l \in leased : l.valid}}
           wins == {w \in [named -> {s.value : s \in leased}] :
                      \A m \in named : \E s \in leased : s.valid /\ s.name = m /\ s.value = w[m]}
<1>1. SecretEntries(leased) = {{<<m, w[m]>> : m \in named} : w \in wins}
  BY DEF SecretEntries
<1>2. PICK w \in wins : secrets = {<<m, w[m]>> : m \in named}
  BY <1>1
<1>3. \A m \in named : \E s \in leased : s.name = m /\ s.value = w[m]
  OBVIOUS
<1>4. n \in named <=> \E s \in leased : s.name = n
  OBVIOUS
<1> HIDE DEF named, wins
<1>5. \A x : x \in secrets /\ x[1] = n <=> n \in named /\ x = <<n, w[n]>>
  BY <1>2
<1>6. \A v : v \in ValuesOf(secrets, n) <=> n \in named /\ v = w[n]
  <2>1. ASSUME NEW v, v \in ValuesOf(secrets, n) PROVE n \in named /\ v = w[n]
    BY <1>5, <2>1 DEF ValuesOf
  <2>2. ASSUME n \in named PROVE w[n] \in ValuesOf(secrets, n)
    <3>1. <<n, w[n]>> \in secrets /\ <<n, w[n]>>[1] = n /\ <<n, w[n]>>[2] = w[n]
      BY <1>5, <2>2
    <3> QED BY <3>1 DEF ValuesOf
  <2> QED BY <2>1, <2>2
<1>7. CASE n \in named
  <2>1. ValuesOf(secrets, n) = {w[n]}
    BY <1>6, <1>7
  <2> QED BY <1>3, <1>4, <1>7, <2>1
<1>8. CASE n \notin named
  <2>1. ValuesOf(secrets, n) = {}
    BY <1>6, <1>8
  <2> QED BY <1>4, <1>8, <2>1
<1> QED BY <1>7, <1>8

\* LeasedNeverShadows (BuildExecutionEnvironment, validateSecretName): no leased
\* secret shadows a baseline name, and each is seen with the value of its lease.
THEOREM SecretsNeverShadow ==
  PathVar \in Baseline =>
    \A ambient, leased, path, names : LeasedNeverShadows(ambient, leased, path, names)
<1> SUFFICES ASSUME PathVar \in Baseline, NEW ambient, NEW leased, NEW path, NEW names,
                    \A s \in leased : validateSecretName(s),
                    NEW env \in BuildExecutionEnvironment(ambient, leased, path), NEW n \in names
             PROVE  LET own == {s \in leased : s.name = n} IN
                    IF own # {} THEN n \notin Baseline /\ \E s \in own : Seen(env, n) = {s.value}
                    ELSE IF n = PathVar /\ path # {} THEN Seen(env, n) = path
                    ELSE IF n \in Baseline THEN Seen(env, n) = Ambient(ambient, n)
                    ELSE Seen(env, n) = {}
  BY DEF LeasedNeverShadows
<1>1. env.base = BaselineEntries(ambient, path) /\ env.secrets \in SecretEntries(leased)
  BY DEF BuildExecutionEnvironment
<1>2. \A s \in leased : s.valid /\ s.name \notin Baseline
  BY DEF validateSecretName, Reserved
<1>3. /\ (\A s \in leased : s.name # n) => ValuesOf(env.secrets, n) = {}
      /\ (\E s \in leased : s.name = n) => \E s \in leased : s.name = n /\ ValuesOf(env.secrets, n) = {s.value}
  <2>1. \A s \in leased : s.valid
    BY <1>2
  <2> QED BY <1>1, <2>1, SecretOf
<1>4. ValuesOf(env.base, n) =
        IF n \notin Baseline THEN {} ELSE IF n = PathVar /\ path # {} THEN path ELSE Ambient(ambient, n)
  BY <1>1, BaselineOf
<1>5. Seen(env, n) = IF ValuesOf(env.secrets, n) # {} THEN ValuesOf(env.secrets, n) ELSE ValuesOf(env.base, n)
  BY DEF Seen, ValuesOf
<1>6. CASE \E s \in leased : s.name = n
  <2>1. PICK s \in leased : s.name = n /\ ValuesOf(env.secrets, n) = {s.value}
    BY <1>3, <1>6
  <2>2. Seen(env, n) = {s.value}
    BY <1>5, <2>1
  <2> QED BY <1>2, <2>1, <2>2
<1>7. CASE \A s \in leased : s.name # n
  <2>1. Seen(env, n) = ValuesOf(env.base, n)
    BY <1>3, <1>5, <1>7
  <2> QED BY <1>4, <1>7, <2>1
<1> QED BY <1>6, <1>7

------------------------------------------------------------------------------
(* CommandPolicy: the search for the executable *)

\* The roots after one more directory, and what they are after i of them: each
\* directory so far is among them, and each root is that of a directory all of whose
\* predecessors are among the roots before it.
NextRoots(dirs, Real, i, s) == IF Real[dirs[i]] \in ToSet(s) THEN s ELSE Append(s, Real[dirs[i]])
RootsAfter(dirs, Real, i, s) ==
  /\ s \in Seq({Real[dirs[j]] : j \in 1..Len(dirs)})
  /\ \A j \in 1..i : \E k \in 1..Len(s) : s[k] = Real[dirs[j]]
  /\ \A k \in 1..Len(s) : \E m \in 1..i :
       s[k] = Real[dirs[m]] /\ \A j \in 1..(m - 1) : \E l \in 1..(k - 1) : s[l] = Real[dirs[j]]

\* One more directory.
LEMMA RootsStep ==
  ASSUME NEW dirs, Len(dirs) \in Nat, NEW Real, NEW i \in 0..Len(dirs), i < Len(dirs), NEW s,
         RootsAfter(dirs, Real, i, s)
  PROVE  RootsAfter(dirs, Real, i + 1, NextRoots(dirs, Real, i + 1, s))
<1> DEFINE T == {Real[dirs[j]] : j \in 1..Len(dirs)}
           d == Real[dirs[i + 1]]
<1>1. i \in Nat /\ i + 1 \in 1..Len(dirs) /\ \A j \in 1..(i + 1) : j \in 1..i \/ j = i + 1
  OBVIOUS
<1>2. s \in Seq(T) /\ d \in T /\ Len(s) \in Nat /\ ToSet(s) = {s[k] : k \in 1..Len(s)}
  <2>1. s \in Seq(T)
    BY DEF RootsAfter
  <2>2. d \in T
    BY <1>1
  <2> HIDE DEF T, d
  <2>3. Len(s) \in Nat /\ DOMAIN s = 1..Len(s)
    BY <2>1
  <2> QED BY <2>1, <2>2, <2>3 DEF ToSet
<1>3. /\ \A j \in 1..i : \E k \in 1..Len(s) : s[k] = Real[dirs[j]]
      /\ \A k \in 1..Len(s) : \E m \in 1..i :
           s[k] = Real[dirs[m]] /\ \A j \in 1..(m - 1) : \E l \in 1..(k - 1) : s[l] = Real[dirs[j]]
  BY DEF RootsAfter
<1>4. CASE d \in ToSet(s)
  <2>1. PICK k \in 1..Len(s) : s[k] = d
    BY <1>2, <1>4
  <2>2. \A j \in 1..(i + 1) : \E h \in 1..Len(s) : s[h] = Real[dirs[j]]
    BY <1>1, <1>3, <2>1
  <2>3. \A h \in 1..Len(s) : \E m \in 1..(i + 1) :
          s[h] = Real[dirs[m]] /\ \A j \in 1..(m - 1) : \E l \in 1..(h - 1) : s[l] = Real[dirs[j]]
    <3>1. \A m \in 1..i : m \in 1..(i + 1)
      BY <1>1
    <3> QED BY <1>3, <3>1
  <2>4. NextRoots(dirs, Real, i + 1, s) = s
    BY <1>4 DEF NextRoots
  <2>5. s \in Seq(T)
    BY <1>2
  <2>6. RootsAfter(dirs, Real, i + 1, s)
    BY <2>2, <2>3, <2>5, Zenon DEF RootsAfter
  <2> QED BY <2>4, <2>6
<1>5. CASE d \notin ToSet(s)
  <2> DEFINE r == Append(s, d)
  <2>1. NextRoots(dirs, Real, i + 1, s) = r
    BY <1>5 DEF NextRoots
  <2>2. r \in Seq(T) /\ Len(r) = Len(s) + 1 /\ r[Len(s) + 1] = d /\ \A k \in 1..Len(s) : r[k] = s[k]
    <3> HIDE DEF T, d
    <3> QED BY <1>2
  <2>3. \A k \in 1..Len(r) : k \in 1..Len(s) \/ k = Len(s) + 1
    BY <1>2, <2>2
  <2> HIDE DEF r, d
  <2>4. ASSUME NEW j \in 1..(i + 1) PROVE \E k \in 1..Len(r) : r[k] = Real[dirs[j]]
    <3>1. CASE j \in 1..i
      <4>1. PICK k \in 1..Len(s) : s[k] = Real[dirs[j]]
        BY <1>3, <3>1
      <4>2. k \in 1..Len(r) /\ r[k] = Real[dirs[j]]
        BY <1>2, <2>2, <4>1
      <4> QED BY <4>2
    <3>2. CASE j = i + 1
      <4>1. Len(r) \in 1..Len(r) /\ r[Len(r)] = Real[dirs[j]]
        BY <1>2, <2>2, <3>2 DEF d
      <4> QED BY <4>1
    <3> QED BY <1>1, <3>1, <3>2
  <2>5. ASSUME NEW k \in 1..Len(r)
        PROVE  \E m \in 1..(i + 1) :
                 r[k] = Real[dirs[m]] /\ \A j \in 1..(m - 1) : \E l \in 1..(k - 1) : r[l] = Real[dirs[j]]
    <3>1. CASE k \in 1..Len(s)
      <4>1. PICK m \in 1..i :
              s[k] = Real[dirs[m]] /\ \A j \in 1..(m - 1) : \E l \in 1..(k - 1) : s[l] = Real[dirs[j]]
        BY <1>3, <3>1
      <4>2. m \in 1..(i + 1) /\ \A l \in 1..(k - 1) : l \in 1..Len(s)
        BY <1>1, <1>2, <3>1
      <4>3. \A l \in 1..(k - 1) : r[l] = s[l]
        BY <2>2, <4>2
      <4>4. r[k] = s[k]
        BY <2>2, <3>1
      <4>5. \A j \in 1..(m - 1) : \E l \in 1..(k - 1) : r[l] = Real[dirs[j]]
        BY <4>1, <4>3
      <4>6. r[k] = Real[dirs[m]]
        BY <4>1, <4>4
      <4> QED BY <4>2, <4>5, <4>6, Zenon
    <3>2. CASE k = Len(s) + 1
      <4> DEFINE m == i + 1
      <4>1. m \in 1..(i + 1) /\ m - 1 = i /\ k - 1 = Len(s)
        BY <1>1, <1>2, <3>2
      <4>2. r[k] = Real[dirs[m]]
        BY <2>2, <3>2 DEF d
      <4>3. ASSUME NEW j \in 1..i PROVE \E l \in 1..Len(s) : r[l] = Real[dirs[j]]
        BY <1>3, <2>2, <4>3
      <4> HIDE DEF m
      <4>4. \A j \in 1..(m - 1) : \E l \in 1..(k - 1) : r[l] = Real[dirs[j]]
        BY <4>1, <4>3
      <4> QED BY <4>1, <4>2, <4>4, Zenon
    <3> QED BY <2>3, <3>1, <3>2
  <2>6. r \in Seq(T)
    BY <2>2
  <2>7. RootsAfter(dirs, Real, i + 1, r)
    BY <2>4, <2>5, <2>6, Zenon DEF RootsAfter
  <2> QED BY <2>1, <2>7
<1> QED BY <1>4, <1>5

\* The scan of the directories as a function of how many are done.
RootsScan(dirs, Real, n, f) ==
  f = [i \in 0..n |-> IF i = 0 THEN <<>> ELSE NextRoots(dirs, Real, i, f[i - 1])]

\* There is such a function: the first ones first.
LEMMA RootsScanExists ==
  ASSUME NEW dirs, NEW n \in Nat, NEW Real
  PROVE  \E f : RootsScan(dirs, Real, n, f)
<1> DEFINE Prefix(k) == \E f : RootsScan(dirs, Real, k, f)
           Done == {k \in 0..n : Prefix(k)}
<1>1. Prefix(0)
  <2> DEFINE e == [i \in 0..0 |-> <<>>]
  <2>1. RootsScan(dirs, Real, 0, e)
    BY DEF RootsScan
  <2> QED BY <2>1
<1>2. ASSUME NEW k \in 0..n, Prefix(k) PROVE Prefix(k + 1)
  <2>1. PICK g : RootsScan(dirs, Real, k, g)
    BY <1>2
  <2> DEFINE h == [i \in 0..(k + 1) |-> IF i = k + 1 THEN NextRoots(dirs, Real, i, g[k]) ELSE g[i]]
             Value(f, i) == IF i = 0 THEN <<>> ELSE NextRoots(dirs, Real, i, f[i - 1])
  <2>2. \A i \in 0..k : h[i] = g[i] /\ g[i] = Value(g, i)
    BY <2>1 DEF RootsScan
  <2>3. ASSUME NEW i \in 0..(k + 1) PROVE h[i] = Value(h, i)
    <3>1. CASE i = k + 1
      <4>1. i # 0 /\ i - 1 = k /\ k \in 0..k /\ h[i] = NextRoots(dirs, Real, i, g[k])
        BY <3>1
      <4> QED BY <2>2, <4>1
    <3>2. CASE i \in 0..k
      <4>1. i # 0 => i - 1 \in 0..k
        BY <3>2
      <4>2. Value(h, i) = Value(g, i)
        BY <2>2, <4>1
      <4> QED BY <2>2, <3>2, <4>2
    <3> QED BY <3>1, <3>2
  <2> HIDE DEF h
  <2>4. h = [i \in 0..(k + 1) |-> h[i]]
    BY DEF h
  <2>5. RootsScan(dirs, Real, k + 1, h)
    BY <2>3, <2>4 DEF RootsScan
  <2> QED BY <2>5
<1> HIDE DEF Prefix
<1>3. 0 \in Done /\ \A k \in 0..n : k < n /\ k \in Done => k + 1 \in Done
  BY <1>1, <1>2
<1> HIDE DEF Done
<1>4. n \in Done
  BY <1>3, CountUp
<1> QED BY <1>4 DEF Done, Prefix

\* The roots of a search path.
LEMMA SearchRoots ==
  ASSUME NEW dirs, Len(dirs) \in Nat, NEW Real
  PROVE  RootsAfter(dirs, Real, Len(dirs), normalizedSearchRoots(dirs, Real))
<1> DEFINE n == Len(dirs)
           out == CHOOSE f : RootsScan(dirs, Real, n, f)
           Done == {k \in 0..n : RootsAfter(dirs, Real, k, out[k])}
<1>1. normalizedSearchRoots(dirs, Real) = out[n]
  BY DEF normalizedSearchRoots, RootsScan, NextRoots
<1>2. RootsScan(dirs, Real, n, out)
  <2>1. \E f : RootsScan(dirs, Real, n, f)
    BY RootsScanExists
  <2> QED BY <2>1
<1>0. n \in Nat
  OBVIOUS
<1> HIDE DEF out
<1>3. out[0] = <<>> /\ \A i \in 1..n : out[i] = NextRoots(dirs, Real, i, out[i - 1])
  <2> HIDE DEF n
  <2>1. 0 \in 0..n /\ \A i \in 1..n : i \in 0..n /\ i # 0
    BY <1>0
  <2> QED BY <1>2, <2>1 DEF RootsScan
<1>4. 0 \in Done
  <2>1. RootsAfter(dirs, Real, 0, <<>>)
    BY DEF RootsAfter
  <2> QED BY <1>0, <1>3, <2>1
<1>5. ASSUME NEW k \in 0..n, k < n, k \in Done PROVE k + 1 \in Done
  <2>1. k + 1 \in 1..n /\ k + 1 - 1 = k /\ k + 1 \in 0..n
    BY <1>0, <1>5
  <2>2. RootsAfter(dirs, Real, k, out[k])
    BY <1>5
  <2>3. out[k + 1] = NextRoots(dirs, Real, k + 1, out[k])
    <3> HIDE DEF n, Done
    <3> QED BY <1>3, <2>1
  <2>4. RootsAfter(dirs, Real, k + 1, NextRoots(dirs, Real, k + 1, out[k]))
    <3> HIDE DEF Done
    <3> QED BY <1>0, <1>5, <2>2, RootsStep
  <2> QED BY <2>1, <2>3, <2>4
<1>6. n \in Done
  <2> HIDE DEF Done, n
  <2>1. \A k \in 0..n : k < n /\ k \in Done => k + 1 \in Done
    BY <1>5
  <2>2. n \in 0..n
    BY <1>0
  <2> QED BY <1>0, <1>4, <2>1, <2>2, CountUp
<1> QED BY <1>1, <1>6

\* FirstEntryDecides (normalizedSearchRoots, resolveExecutablePath): for a search path of
\* every length, whatever its links lead to and its directories hold.
THEOREM FirstEntryRuns ==
  \A dirs, Real, Entry : Len(dirs) \in Nat /\ DOMAIN dirs = 1..Len(dirs) => FirstEntryDecides(dirs, Real, Entry)
<1> SUFFICES ASSUME NEW dirs, NEW Real, NEW Entry, Len(dirs) \in Nat, DOMAIN dirs = 1..Len(dirs)
             PROVE  FirstEntryDecides(dirs, Real, Entry)
  OBVIOUS
<1> DEFINE found == ResolveExecutionCommand("", dirs, <<>>, Real, Entry)
           roots == normalizedSearchRoots(dirs, Real)
           has == {i \in DOMAIN roots : Entry[roots[i]] # "absent"}
           k == CHOOSE i \in has : \A j \in has : i <= j
<1> SUFFICES ASSUME found # NotResolved
             PROVE  \E i \in DOMAIN dirs :
                      /\ Real[dirs[i]] = found /\ Entry[found] = "executable"
                      /\ \A j \in 1..(i - 1) : Entry[Real[dirs[j]]] = "absent"
  BY DEF FirstEntryDecides
<1>1. RootsAfter(dirs, Real, Len(dirs), roots) /\ DOMAIN roots = 1..Len(roots) /\ Len(roots) \in Nat
  <2>1. RootsAfter(dirs, Real, Len(dirs), roots)
    BY SearchRoots
  <2> DEFINE T == {Real[dirs[j]] : j \in 1..Len(dirs)}
  <2>2. roots \in Seq(T)
    BY <2>1 DEF RootsAfter
  <2> HIDE DEF T, roots
  <2>3. DOMAIN roots = 1..Len(roots) /\ Len(roots) \in Nat
    BY <2>2, SequenceDomain
  <2> QED BY <2>1, <2>3
<1>2. Roots(dirs, <<>>, Real) = roots
  BY DEF Roots
<1> HIDE DEF roots
<1>3. found = resolveExecutablePath(roots, Entry)
  BY <1>2 DEF ResolveExecutionCommand
<1>4. has # {} /\ found = resolveTrustedExecutablePath(roots[k], roots, Entry)
  <2> HIDE DEF found
  <2> QED BY <1>3 DEF resolveExecutablePath
<1>5. k \in has /\ \A j \in has : k <= j
  <2>0. has \subseteq DOMAIN roots
    OBVIOUS
  <2> HIDE DEF has, found, k
  <2>1. has \subseteq Nat
    <3>1. has \subseteq 1..Len(roots)
      BY <1>1, <2>0
    <3>2. 1..Len(roots) \subseteq Nat
      OBVIOUS
    <3> QED BY <3>1, <3>2
  <2>2. \E i \in has : \A j \in has : i <= j
    <3>1. PICK i \in has : \A j \in has : ~ (<<j, i>> \in OpToRel(<, Nat))
      BY <1>4, <2>1, NatLessThanWellFounded, WFMin
    <3>2. \A j \in has : ~ (j < i)
      BY <2>1, <3>1 DEF OpToRel
    <3>3. \A j \in has : j \in Nat /\ i \in Nat
      BY <2>1
    <3>4. ASSUME NEW j \in has PROVE i <= j
      <4>1. i \in Nat /\ j \in Nat /\ ~ (j < i)
        BY <3>2, <3>3, Zenon
      <4> QED BY <4>1
    <3> QED BY <3>4
  <2> QED BY <2>2 DEF k
<1>6. found = roots[k] /\ Entry[found] = "executable"
  <2> HIDE DEF found, k, has
  <2> QED BY <1>4 DEF resolveTrustedExecutablePath
<1> HIDE DEF found, k
<1>7. k \in 1..Len(roots)
  BY <1>1, <1>5
<1>8. PICK i \in 1..Len(dirs) :
        roots[k] = Real[dirs[i]] /\ \A j \in 1..(i - 1) : \E l \in 1..(k - 1) : roots[l] = Real[dirs[j]]
  BY <1>1, <1>7 DEF RootsAfter
<1>9. \A l \in 1..(k - 1) : Entry[roots[l]] = "absent"
  <2>1. \A l \in 1..(k - 1) : l \in DOMAIN roots /\ ~ (k <= l)
    BY <1>1, <1>7
  <2>2. \A l \in 1..(k - 1) : l \notin has
    <3> HIDE DEF has
    <3> QED BY <1>5, <2>1
  <2> QED BY <2>1, <2>2
<1>10. \A j \in 1..(i - 1) : Entry[Real[dirs[j]]] = "absent"
  <2> HIDE DEF has
  <2> TAKE j \in 1..(i - 1)
  <2>1. PICK l \in 1..(k - 1) : roots[l] = Real[dirs[j]]
    BY <1>8
  <2> QED BY <1>9, <2>1
<1> QED BY <1>6, <1>8, <1>10

------------------------------------------------------------------------------
(* CommandPolicy: the arguments of docker *)

\* The scan of flags as a function of positions, and where it goes on after one.
FlagScan(args, allow, f) ==
  f = [i \in 1..(Len(args) + 2) |->
         i > Len(args) \/ /\ args[i].flag /\ args[i].name \in allow
                          /\ f[IF i < Len(args) /\ ~args[i + 1].flag THEN i + 2 ELSE i + 1]]
NextFlag(args, i) == IF i < Len(args) /\ ~args[i + 1].flag THEN i + 2 ELSE i + 1

\* There is such a function: from each position on, the last ones first.
LEMMA FlagScanExists ==
  ASSUME NEW args, Len(args) \in Nat, NEW allow
  PROVE  \E f : FlagScan(args, allow, f)
<1> DEFINE n == Len(args)
           Value(f, i) == i > n \/ (args[i].flag /\ args[i].name \in allow /\ f[NextFlag(args, i)])
           Suffix(k) == \E f : f = [i \in (n + 3 - k)..(n + 2) |-> Value(f, i)]
           Done == {k \in 0..(n + 2) : Suffix(k)}
<1>0. n \in Nat
  OBVIOUS
<1> HIDE DEF n
<1>1. Suffix(0)
  <2>1. (n + 3 - 0)..(n + 2) = {}
    BY <1>0
  <2> DEFINE e == [i \in {} |-> 0]
  <2>2. e = [i \in {} |-> Value(e, i)]
    OBVIOUS
  <2> QED BY <2>1, <2>2
<1>2. ASSUME NEW k \in 0..(n + 1), Suffix(k) PROVE Suffix(k + 1)
  <2> DEFINE m == n + 2 - k
  <2>0. /\ m \in 1..(n + 2) /\ n + 3 - k = m + 1 /\ n + 3 - (k + 1) = m
        /\ \A i \in m..(n + 2) : i = m \/ i \in (m + 1)..(n + 2)
        /\ \A i \in m..(n + 2) : i <= n => NextFlag(args, i) \in (m + 1)..(n + 2)
    BY <1>0 DEF NextFlag, n
  <2>1. PICK g : g = [i \in (m + 1)..(n + 2) |-> Value(g, i)]
    BY <1>2, <2>0
  <2> DEFINE h == [i \in m..(n + 2) |-> IF i = m THEN Value(g, m) ELSE g[i]]
  <2> HIDE DEF m
  <2>2. \A i \in (m + 1)..(n + 2) : h[i] = g[i]
    BY <1>0, <2>0
  <2>3. ASSUME NEW i \in m..(n + 2) PROVE h[i] = Value(h, i)
    <3>1. Value(h, i) = Value(g, i)
      BY <1>0, <2>0, <2>2
    <3>2. h[i] = Value(g, i)
      BY <2>0, <2>1
    <3> QED BY <3>1, <3>2
  <2>4. h = [i \in m..(n + 2) |-> Value(h, i)]
    BY <2>3
  <2> QED BY <2>0, <2>4
<1>3. Suffix(n + 2)
  <2> HIDE DEF Suffix
  <2>1. 0 \in Done /\ \A k \in 0..(n + 2) : k < n + 2 /\ k \in Done => k + 1 \in Done
    BY <1>0, <1>1, <1>2
  <2> HIDE DEF Done
  <2>2. n + 2 \in Done
    BY <1>0, <2>1, CountUp
  <2> QED BY <2>2 DEF Done
<1>4. n + 3 - (n + 2) = 1
  BY <1>0
<1> QED BY <1>3, <1>4 DEF n, NextFlag, FlagScan

\* The flags that are accepted are allowed, and what is no flag stands behind one.
LEMMA FlagsBehindFlags ==
  ASSUME NEW args, Len(args) \in Nat, \A i \in 1..Len(args) : args[i].flag \in BOOLEAN,
         NEW allow, validateFlags(args, allow)
  PROVE  \A i \in 1..Len(args) :
           IF args[i].flag THEN args[i].name \in allow ELSE i > 1 /\ args[i - 1].flag
<1> DEFINE n == Len(args)
           ok == CHOOSE f : FlagScan(args, allow, f)
           Read(i) == ok[i] \/ (i > 1 /\ i <= n /\ ok[i - 1] /\ args[i - 1].flag /\ ~args[i].flag)
           Done == {k \in 0..n : Read(k + 1)}
<1>1. FlagScan(args, allow, ok)
  BY FlagScanExists
<1>2. ok[1]
  BY DEF validateFlags, FlagScan
<1> HIDE DEF ok
<1>3. \A i \in 1..n : ok[i] => /\ args[i].flag /\ args[i].name \in allow
                               /\ ok[IF i < n /\ ~args[i + 1].flag THEN i + 2 ELSE i + 1]
  <2> TAKE i \in 1..n
  <2>1. i \in 1..(n + 2) /\ ~(i > n)
    OBVIOUS
  <2> QED BY <1>1, <2>1 DEF FlagScan
<1>4. \A k \in 0..n : Read(k + 1)
  <2>1. ASSUME NEW k \in 0..n, k < n, Read(k + 1) PROVE Read(k + 2)
    <3>1. CASE ok[k + 1] /\ ~(k + 1 < n /\ ~args[k + 2].flag)
      BY <1>3, <2>1, <3>1
    <3>2. CASE ok[k + 1] /\ k + 1 < n /\ ~args[k + 2].flag
      BY <1>3, <2>1, <3>2
    <3>3. CASE k + 1 > 1 /\ k + 1 <= n /\ ok[k] /\ args[k].flag /\ ~args[k + 1].flag
      BY <1>3, <2>1, <3>3
    <3> QED BY <2>1, <3>1, <3>2, <3>3
  <2>2. 0 \in Done /\ \A k \in 0..n : k < n /\ k \in Done => k + 1 \in Done
    BY <1>2, <2>1
  <2> HIDE DEF Done
  <2>3. \A k \in 0..n : k \in Done
    BY <2>2, CountUp
  <2> QED BY <2>3 DEF Done
<1>5. ASSUME NEW i \in 1..n
      PROVE  IF args[i].flag THEN args[i].name \in allow ELSE i > 1 /\ args[i - 1].flag
  <2>1. Read(i)
    <3>1. i - 1 \in 0..n /\ i - 1 + 1 = i
      OBVIOUS
    <3> QED BY <1>4, <3>1
  <2> QED BY <1>3, <2>1
<1> QED BY <1>5

\* DockerArgsFlagged (ValidateHostDockerCommand, validateFlags): for vectors of
\* every length, under the subcommands the code has rules for.
THEOREM DockerFlagsOnly ==
  \A p, sub, args :
    /\ p.subcommands \subseteq {"version", "ps", "images", "compose"}
    /\ \E names : args \in Seq([flag : BOOLEAN, name : names])
    => DockerArgsFlagged(p, sub, args)
<1> SUFFICES ASSUME NEW p, NEW sub, NEW args, NEW names,
                    p.subcommands \subseteq {"version", "ps", "images", "compose"},
                    args \in Seq([flag : BOOLEAN, name : names]),
                    ValidateHostDockerCommand(p, sub, args, FALSE)
             PROVE  LET rest == IF sub = "compose" THEN Tail(args) ELSE args
                        allow == CASE sub = "ps" -> p.psFlags [] sub = "images" -> p.imagesFlags
                                   [] sub = "compose" -> ComposeFlags [] OTHER -> {}
                    IN /\ sub = "compose" => args[1].name \in p.verbs
                       /\ \A i \in DOMAIN rest : IF rest[i].flag THEN rest[i].name \in allow
                                                  ELSE i > 1 /\ rest[i - 1].flag
  BY DEF DockerArgsFlagged
<1>1. sub \in {"version", "ps", "images", "compose"}
  BY DEF ValidateHostDockerCommand
<1>2. ASSUME NEW line \in Seq([flag : BOOLEAN, name : names]), NEW allow, validateFlags(line, allow)
      PROVE  \A i \in DOMAIN line : IF line[i].flag THEN line[i].name \in allow ELSE i > 1 /\ line[i - 1].flag
  <2>1. Len(line) \in Nat /\ DOMAIN line = 1..Len(line) /\ \A i \in 1..Len(line) : line[i].flag \in BOOLEAN
    <3>1. \A i \in 1..Len(line) : line[i] \in [flag : BOOLEAN, name : names]
      BY ElementOf
    <3> QED BY <3>1
  <2> QED BY <1>2, <2>1, FlagsBehindFlags
<1>3. CASE sub = "version"
  <2>1. args = <<>>
    BY <1>3 DEF ValidateHostDockerCommand
  <2> QED BY <1>3, <2>1
<1>4. CASE sub = "ps"
  <2>1. validateFlags(args, p.psFlags)
    BY <1>4 DEF ValidateHostDockerCommand
  <2> QED BY <1>2, <1>4, <2>1
<1>5. CASE sub = "images"
  <2>1. validateFlags(args, p.imagesFlags)
    BY <1>5 DEF ValidateHostDockerCommand
  <2> QED BY <1>2, <1>5, <2>1
<1>6. CASE sub = "compose"
  <2>1. args # <<>> /\ args[1].name \in p.verbs /\ validateFlags(Tail(args), ComposeFlags)
    BY <1>6 DEF ValidateHostDockerCommand
  <2>2. Tail(args) \in Seq([flag : BOOLEAN, name : names])
    BY <2>1
  <2> QED BY <1>2, <1>6, <2>1, <2>2
<1> QED BY <1>1, <1>3, <1>4, <1>5, <1>6

------------------------------------------------------------------------------
(* EgressPolicy: the reading of a vector *)

\* A "--" among the first i arguments that is nobody's value.
PastEnd(args, v, i) == \E j \in 1..i : j \notin v /\ args[j].kind = "dashdash"

\* The argument before i is a flag that takes i for its value.
TakesNext(args, v, i) ==
  /\ i > 1 /\ i - 1 \notin v /\ ~PastEnd(args, v, i - 1) /\ ~HasInline(args[i - 1])
  /\ \/ Mode(args[i - 1]) \in {"takesValue", "destination", "opaque"}
     \/ Mode(args[i - 1]) = "unclassified" /\ args[i].kind = "word"

\* v is what agrees with itself about the first n arguments.
Reading(args, v, n) == v \subseteq 1..n /\ \A i \in 1..n : i \in v <=> TakesNext(args, v, i)

\* Whether i is taken depends on the arguments before it.
LEMMA TakesLocal ==
  ASSUME NEW args, NEW i \in Nat, NEW v, NEW w, \A j \in 1..(i - 1) : j \in v <=> j \in w
  PROVE  TakesNext(args, v, i) <=> TakesNext(args, w, i)
<1>1. CASE i > 1
  <2>1. i - 1 \in 1..(i - 1)
    BY <1>1
  <2>2. PastEnd(args, v, i - 1) <=> PastEnd(args, w, i - 1)
    BY DEF PastEnd
  <2> QED BY <2>1, <2>2 DEF TakesNext
<1>2. CASE ~(i > 1)
  BY <1>2 DEF TakesNext
<1> QED BY <1>1, <1>2

\* There is a reading of every vector: one argument at a time.
LEMMA ReadingExists ==
  ASSUME NEW args, NEW n \in Nat
  PROVE  \E v : Reading(args, v, n)
<1> DEFINE Read == {k \in 0..n : \E v : Reading(args, v, k)}
<1>1. 0 \in Read
  <2>1. Reading(args, {}, 0)
    BY DEF Reading
  <2> QED BY <2>1
<1>2. ASSUME NEW k \in 0..n, k < n, k \in Read PROVE k + 1 \in Read
  <2>1. PICK v : Reading(args, v, k)
    BY <1>2
  <2> DEFINE w == {i \in 1..(k + 1) : i \in v \/ (i = k + 1 /\ TakesNext(args, v, i))}
  <2>2. \A i \in 1..k : i \in w <=> i \in v
    OBVIOUS
  <2>3. \A i \in 1..(k + 1) : TakesNext(args, w, i) <=> TakesNext(args, v, i)
    <3> TAKE i \in 1..(k + 1)
    <3> HIDE DEF w
    <3>1. i \in Nat /\ \A j \in 1..(i - 1) : j \in w <=> j \in v
      BY <2>2
    <3> QED BY <3>1, TakesLocal
  <2>4. k + 1 \notin v
    BY <2>1 DEF Reading
  <2>5. Reading(args, w, k + 1)
    <3>1. w \subseteq 1..(k + 1)
      OBVIOUS
    <3>2. ASSUME NEW i \in 1..(k + 1) PROVE i \in w <=> TakesNext(args, w, i)
      <4>1. CASE i = k + 1
        BY <2>3, <2>4, <4>1
      <4>2. CASE i \in 1..k
        BY <2>1, <2>2, <2>3, <4>2 DEF Reading
      <4> QED BY <4>1, <4>2
    <3> QED BY <3>1, <3>2 DEF Reading
  <2> QED BY <1>2, <2>5
<1> HIDE DEF Read
<1>3. n \in Read
  BY <1>1, <1>2, CountUp
<1> QED BY <1>3 DEF Read

\* The reference reads the whole vector that way.
LEMMA ValuesRead ==
  ASSUME NEW args, Len(args) \in Nat, DOMAIN args = 1..Len(args)
  PROVE  Reading(args, Values(args), Len(args))
<1> DEFINE n == Len(args)
           Agrees(v) == \A i \in DOMAIN args :
             i \in v <=> /\ i > 1 /\ i - 1 \notin v
                         /\ ~(\E j \in 1..(i - 1) : j \notin v /\ args[j].kind = "dashdash")
                         /\ ~HasInline(args[i - 1])
                         /\ CASE Mode(args[i - 1]) \in {"takesValue", "destination", "opaque"} -> TRUE
                              [] Mode(args[i - 1]) = "unclassified" -> args[i].kind = "word"
                              [] OTHER -> FALSE
<1>1. \A v \in SUBSET DOMAIN args : Agrees(v) <=> Reading(args, v, n)
  BY DEF Reading, TakesNext, PastEnd
<1>2. \E v \in SUBSET DOMAIN args : Agrees(v)
  <2> HIDE DEF Agrees
  <2>1. PICK v : Reading(args, v, n)
    BY ReadingExists
  <2>2. v \in SUBSET DOMAIN args
    BY <2>1 DEF Reading
  <2> QED BY <1>1, <2>1, <2>2
<1>3. Values(args) = CHOOSE v \in SUBSET DOMAIN args : Agrees(v)
  BY DEF Values
<1> HIDE DEF Agrees
<1> QED BY <1>1, <1>2, <1>3

------------------------------------------------------------------------------
(* EgressPolicy: the scan of a direct client's arguments *)

\* Where the scan goes on after position i, and what it finds at i.
NextArg(args, i) == IF consumeShortFlagToken(args, i) THEN i + 2 ELSE i + 1
FoundAt(args, i) ==
  IF args[i].kind = "word" THEN HostsOf({args[i]})
  ELSE IF Mode(args[i]) # "destination" THEN {}
  ELSE IF HasInline(args[i]) THEN {extractDomainHost(args[i].text)} \ {NoHost}
  ELSE IF consumeShortFlagToken(args, i) THEN HostsOf({args[i + 1]}) ELSE {}
FromHere(args, f, i) ==
  IF i > Len(args) THEN [domains |-> {}, unsafe |-> FALSE]
  ELSE IF args[i].kind = "dashdash"
       THEN [domains |-> HostsOf({args[j] : j \in (i + 1)..Len(args)}), unsafe |-> FALSE]
  ELSE [domains |-> FoundAt(args, i) \cup f[NextArg(args, i)].domains,
        unsafe |-> Mode(args[i]) \in {"opaque", "unclassified"} \/ f[NextArg(args, i)].unsafe]

\* The scan as a function of positions.
EgressScan(args, f) == f = [i \in 1..(Len(args) + 2) |-> FromHere(args, f, i)]

\* There is such a function: from each position on, the last ones first.
LEMMA EgressScanExists ==
  ASSUME NEW args, Len(args) \in Nat
  PROVE  \E f : EgressScan(args, f)
<1> DEFINE n == Len(args)
           Suffix(k) == \E f : f = [i \in (n + 3 - k)..(n + 2) |-> FromHere(args, f, i)]
           Done == {k \in 0..(n + 2) : Suffix(k)}
<1>0. n \in Nat
  OBVIOUS
<1>1. Suffix(0)
  <2>1. (n + 3 - 0)..(n + 2) = {}
    BY <1>0
  <2> DEFINE e == [i \in {} |-> 0]
  <2>2. e = [i \in {} |-> FromHere(args, e, i)]
    OBVIOUS
  <2> HIDE DEF n
  <2> QED BY <2>1, <2>2
<1>2. ASSUME NEW k \in 0..(n + 1), Suffix(k) PROVE Suffix(k + 1)
  <2> DEFINE m == n + 2 - k
  <2>0. /\ m \in 1..(n + 2) /\ n + 3 - k = m + 1 /\ n + 3 - (k + 1) = m
        /\ \A i \in m..(n + 2) : i = m \/ i \in (m + 1)..(n + 2)
        /\ \A i \in m..(n + 2) : i <= n => NextArg(args, i) \in (m + 1)..(n + 2)
    BY <1>0 DEF NextArg
  <2>1. PICK g : g = [i \in (m + 1)..(n + 2) |-> FromHere(args, g, i)]
    BY <1>2, <2>0
  <2> DEFINE h == [i \in m..(n + 2) |-> IF i = m THEN FromHere(args, g, m) ELSE g[i]]
  <2> HIDE DEF m
  <2>2. \A i \in (m + 1)..(n + 2) : h[i] = g[i]
    BY <1>0, <2>0
  <2>3. ASSUME NEW i \in m..(n + 2) PROVE h[i] = FromHere(args, h, i)
    <3>1. FromHere(args, h, i) = FromHere(args, g, i)
      <4> HIDE DEF h
      <4>1. CASE i > n
        BY <4>1 DEF FromHere
      <4>2. CASE ~(i > n)
        <5>1. h[NextArg(args, i)] = g[NextArg(args, i)]
          BY <1>0, <2>0, <2>2, <4>2
        <5> QED BY <5>1 DEF FromHere
      <4> QED BY <4>1, <4>2
    <3>2. h[i] = FromHere(args, g, i)
      BY <2>0, <2>1
    <3> QED BY <3>1, <3>2
  <2>4. h = [i \in m..(n + 2) |-> FromHere(args, h, i)]
    BY <2>3
  <2> QED BY <2>0, <2>4
<1>3. Suffix(n + 2)
  <2> HIDE DEF Suffix
  <2>1. 0 \in Done /\ \A k \in 0..(n + 2) : k < n + 2 /\ k \in Done => k + 1 \in Done
    BY <1>0, <1>1, <1>2
  <2> HIDE DEF Done, n
  <2>2. n + 2 \in Done
    BY <1>0, <2>1, CountUp
  <2> QED BY <2>2 DEF Done
<1>4. n + 3 - (n + 2) = 1
  BY <1>0
<1> QED BY <1>3, <1>4 DEF EgressScan

\* The code's scan is that function, read at the first position.
LEMMA ScanRead ==
  ASSUME NEW args, Len(args) \in Nat
  PROVE  \E f : EgressScan(args, f) /\ extractDirectClientDomains(args) = f[1]
<1> DEFINE scan == CHOOSE f : EgressScan(args, f)
<1>1. EgressScan(args, scan)
  BY EgressScanExists
<1>2. extractDirectClientDomains(args) = scan[1]
  BY DEF extractDirectClientDomains, EgressScan, FromHere, FoundAt, NextArg
<1> QED BY <1>1, <1>2

\* The arguments as the program has them: only a flag has modes.
Tokens(args) ==
  /\ Len(args) \in Nat /\ DOMAIN args = 1..Len(args)
  /\ \A i \in 1..Len(args) : args[i].kind \in {"word", "dashdash"} => args[i].modes = <<>>

\* Position i is read as an argument of its own, not as a value nor after "--".
Parsed(args, v, i) == i \notin v /\ ~PastEnd(args, v, i - 1)

\* The reference, position by position: d is a destination because of i, and i
\* is a flag that could change the destinations.
Names(args, v, i, d) ==
  /\ d # NoHost
  /\ \/ (PastEnd(args, v, i - 1) \/ (Parsed(args, v, i) /\ args[i].kind = "word")) /\ d = Whole(args[i])
     \/ /\ i \in v /\ i > 1 /\ Parsed(args, v, i - 1) /\ Mode(args[i - 1]) = "destination"
        /\ d = Whole(args[i])
     \/ /\ Parsed(args, v, i) /\ Mode(args[i]) = "destination" /\ HasInline(args[i])
        /\ d = extractDomainHost(args[i].text)
Unclear(args, v, i) == Parsed(args, v, i) /\ Mode(args[i]) \in {"opaque", "unclassified"}

\* The operands are those that single positions name.
LEMMA OperandsByPosition ==
  ASSUME NEW args, Tokens(args)
  PROVE  /\ \A d : d \in Operands(args).destinations <=> \E i \in 1..Len(args) : Names(args, Values(args), i, d)
         /\ Operands(args).opaque <=> \E i \in 1..Len(args) : Unclear(args, Values(args), i)
<1> DEFINE v == Values(args)
           n == Len(args)
           Rest == {i \in 1..n : PastEnd(args, v, i - 1)}
           Flags == {i \in 1..n : Parsed(args, v, i)}
           Targets == {i \in Flags : Mode(args[i]) = "destination"}
           Whose == Rest \cup {i \in Flags : args[i].kind = "word"} \cup {i \in v : i - 1 \in Targets}
           Inlines == {extractDomainHost(args[i].text) : i \in {j \in Targets : HasInline(args[j])}}
<1>1. n \in Nat /\ DOMAIN args = 1..n /\ v \subseteq 1..n
  BY ValuesRead DEF Tokens, Reading
<1>2. Operands(args) = [destinations |-> (HostsOf({args[i] : i \in Whose}) \cup Inlines) \ {NoHost},
                        opaque |-> \E i \in Flags : Mode(args[i]) \in {"opaque", "unclassified"}]
  <2>1. Rest = {i \in DOMAIN args : \E j \in 1..(i - 1) : j \notin v /\ args[j].kind = "dashdash"}
    BY <1>1 DEF PastEnd
  <2>2. Flags = (DOMAIN args) \ (v \cup Rest)
    BY <1>1 DEF Parsed
  <2> HIDE DEF v, Rest, Flags
  <2> QED BY <2>1, <2>2 DEF Operands, v
<1>3. \A d : d \in HostsOf({args[i] : i \in Whose}) <=> d # NoHost /\ \E i \in Whose : d = Whole(args[i])
  <2> HIDE DEF Whose
  <2> QED BY DEF HostsOf
<1>4. \A i : i \in Whose <=>
        /\ i \in 1..n
        /\ \/ PastEnd(args, v, i - 1) \/ (Parsed(args, v, i) /\ args[i].kind = "word")
           \/ i \in v /\ i > 1 /\ Parsed(args, v, i - 1) /\ Mode(args[i - 1]) = "destination"
  <2>1. \A i \in 1..n : i - 1 \in 1..n <=> i > 1
    BY <1>1
  <2> HIDE DEF v, n
  <2> QED BY <1>1, <2>1
<1>5. \A d : d \in Inlines <=>
        \E i \in 1..n : /\ Parsed(args, v, i) /\ Mode(args[i]) = "destination" /\ HasInline(args[i])
                        /\ d = extractDomainHost(args[i].text)
  <2> HIDE DEF v, n
  <2> QED OBVIOUS
<1> HIDE DEF Whose, Inlines, v, n
<1>6. \A d : d \in Operands(args).destinations <=> \E i \in 1..n : Names(args, v, i, d)
  <2> TAKE d
  <2>1. d \in Operands(args).destinations <=>
          d # NoHost /\ ((\E i \in Whose : d = Whole(args[i])) \/ d \in Inlines)
    BY <1>2, <1>3
  <2> QED BY <1>4, <1>5, <2>1 DEF Names
<1>7. Operands(args).opaque <=> \E i \in 1..n : Unclear(args, v, i)
  BY <1>2 DEF Unclear
<1> QED BY <1>6, <1>7 DEF v, n

\* One step of the scan agrees with the reference about the positions it passes.
LEMMA ScanStep ==
  ASSUME NEW args, Tokens(args), NEW v, Reading(args, v, Len(args)),
         NEW i \in 1..Len(args), Parsed(args, v, i), args[i].kind # "dashdash"
  PROVE  LET takes == consumeShortFlagToken(args, i) IN
         /\ Parsed(args, v, NextArg(args, i))
         /\ takes => i + 1 \in 1..Len(args) /\ ~Unclear(args, v, i + 1)
         /\ \A d : d \in FoundAt(args, i) <=>
              Names(args, v, i, d) \/ (takes /\ Names(args, v, i + 1, d))
<1> DEFINE n == Len(args)
           takes == consumeShortFlagToken(args, i)
<1>0. n \in Nat /\ v \subseteq 1..n /\ \A k \in 1..n : k \in v <=> TakesNext(args, v, k)
  BY DEF Tokens, Reading
<1>1. i \notin v /\ ~PastEnd(args, v, i - 1) /\ ~PastEnd(args, v, i)
  BY DEF Parsed, PastEnd
<1>2. takes => i + 1 \in 1..n /\ i + 1 \in v
  BY <1>0, <1>1 DEF consumeShortFlagToken, TakesNext, looksLikeFlag
<1>3. ~takes => i + 1 \notin v
  BY <1>0, <1>1 DEF consumeShortFlagToken, TakesNext, looksLikeFlag
<1>4. takes => ~PastEnd(args, v, i + 1) /\ i + 2 \notin v
  <2>1. takes => ~PastEnd(args, v, i + 1)
    BY <1>0, <1>1, <1>2 DEF PastEnd
  <2>2. takes => i + 2 \notin v
    <3>1. \A k \in 1..n : k \in v => k - 1 \notin v
      BY <1>0 DEF TakesNext
    <3> QED BY <1>0, <1>2, <3>1
  <2> QED BY <2>1, <2>2
<1>5. Parsed(args, v, NextArg(args, i))
  BY <1>1, <1>3, <1>4 DEF Parsed, NextArg
<1>6. takes => ~Parsed(args, v, i + 1) /\ ~PastEnd(args, v, i)
  BY <1>1, <1>2 DEF Parsed
<1>7. args[i].kind = "word" => Mode(args[i]) = "none"
  BY DEF Tokens, Mode
<1>8. \A d : Names(args, v, i, d) <=>
        /\ d # NoHost
        /\ \/ args[i].kind = "word" /\ d = Whole(args[i])
           \/ Mode(args[i]) = "destination" /\ HasInline(args[i]) /\ d = extractDomainHost(args[i].text)
  BY <1>1 DEF Names, Parsed
<1>9. ASSUME takes
      PROVE  \A d : Names(args, v, i + 1, d) <=>
               d # NoHost /\ Mode(args[i]) = "destination" /\ d = Whole(args[i + 1])
  <2>1. i + 1 > 1 /\ (i + 1) - 1 = i
    OBVIOUS
  <2> QED BY <1>1, <1>2, <1>6, <1>9, <2>1 DEF Names, Parsed
<1>10. takes => ~HasInline(args[i])
  BY DEF consumeShortFlagToken
<1>11. \A t, d : d \in HostsOf({t}) <=> d # NoHost /\ d = Whole(t)
  BY DEF HostsOf
<1> HIDE DEF takes
<1>12. ASSUME NEW d
       PROVE  d \in FoundAt(args, i) <=> Names(args, v, i, d) \/ (takes /\ Names(args, v, i + 1, d))
  <2>1. CASE args[i].kind = "word"
    BY <1>7, <1>8, <1>9, <1>11, <2>1 DEF FoundAt
  <2>2. CASE args[i].kind # "word" /\ Mode(args[i]) # "destination"
    BY <1>8, <1>9, <2>2 DEF FoundAt
  <2>3. CASE args[i].kind # "word" /\ Mode(args[i]) = "destination" /\ HasInline(args[i])
    BY <1>8, <1>10, <2>3 DEF FoundAt
  <2>4. CASE args[i].kind # "word" /\ Mode(args[i]) = "destination" /\ ~HasInline(args[i])
    <3>1. FoundAt(args, i) = IF takes THEN HostsOf({args[i + 1]}) ELSE {}
      BY <2>4 DEF FoundAt, takes
    <3> QED BY <1>8, <1>9, <1>11, <2>4, <3>1
  <2> QED BY <2>1, <2>2, <2>3, <2>4
<1>13. takes => i + 1 \in 1..n /\ ~Unclear(args, v, i + 1)
  BY <1>2, <1>6 DEF Unclear
<1> QED BY <1>5, <1>12, <1>13 DEF takes

\* EgressScanExact (extractDirectClientDomains, consumeShortFlagToken): for
\* argument vectors of every length, whatever the flags' modes.
THEOREM ScanExact == \A args : Tokens(args) => EgressScanExact(args)
<1> SUFFICES ASSUME NEW args, Tokens(args) PROVE EgressScanExact(args)
  OBVIOUS
<1> DEFINE n == Len(args)
           v == Values(args)
<1>0. n \in Nat /\ Reading(args, v, n) /\ v \subseteq 1..n
  BY ValuesRead DEF Tokens, Reading
<1>1. PICK f : EgressScan(args, f) /\ extractDirectClientDomains(args) = f[1]
  BY <1>0, ScanRead
<1> DEFINE Exact(i) == /\ \A d : d \in f[i].domains <=> \E j \in i..n : Names(args, v, j, d)
                       /\ f[i].unsafe <=> \E j \in i..n : Unclear(args, v, j)
           Found(i) == Parsed(args, v, i) => Exact(i)
           Done == {k \in 0..n : Found(n + 1 - k) /\ Found(n + 2 - k)}
<1> HIDE DEF v, n
<1>2. \A i \in 1..(n + 2) : f[i] = FromHere(args, f, i)
  BY <1>1 DEF EgressScan, n
<1>3. ASSUME NEW i \in {n + 1, n + 2} PROVE Exact(i)
  <2>1. f[i] = [domains |-> {}, unsafe |-> FALSE] /\ i..n = {}
    <3>1. i \in 1..(n + 2) /\ i > n /\ i..n = {}
      BY <1>0
    <3>2. f[i] = FromHere(args, f, i)
      BY <1>2, <3>1
    <3> QED BY <3>1, <3>2 DEF FromHere, n
  <2> QED BY <2>1
<1>4. ASSUME NEW i \in 1..n, Parsed(args, v, i), args[i].kind = "dashdash" PROVE Exact(i)
  <2>1. f[i] = [domains |-> HostsOf({args[j] : j \in (i + 1)..n}), unsafe |-> FALSE]
    <3>1. i \in 1..(n + 2) /\ ~(i > n)
      BY <1>0
    <3>2. f[i] = FromHere(args, f, i)
      BY <1>2, <3>1
    <3> QED BY <1>4, <3>1, <3>2 DEF FromHere, n
  <2>2. i \notin v /\ ~PastEnd(args, v, i - 1)
    BY <1>4 DEF Parsed
  <2>3. \A j \in (i + 1)..n : PastEnd(args, v, j - 1) /\ ~Parsed(args, v, j)
    BY <1>0, <1>4, <2>2 DEF PastEnd, Parsed
  <2>4. \A j \in (i + 1)..n : j - 1 > 0 /\ (j > i + 1 => j - 1 \in (i + 1)..n) /\ (~(j > i + 1) => j - 1 = i)
    BY <1>0
  <2>5. Mode(args[i]) = "none"
    BY <1>4 DEF Tokens, Mode, n
  <2>6. \A d, j : j \in (i + 1)..n => (Names(args, v, j, d) <=> d # NoHost /\ d = Whole(args[j]))
    BY <2>3 DEF Names
  <2>7. \A d : ~Names(args, v, i, d)
    BY <1>4, <2>2, <2>5 DEF Names, Parsed
  <2>8. ~Unclear(args, v, i) /\ \A j \in (i + 1)..n : ~Unclear(args, v, j)
    BY <2>3, <2>5 DEF Unclear
  <2>9. i \in i..n /\ \A j \in i..n : j = i \/ j \in (i + 1)..n
    BY <1>0
  <2>10. (i + 1)..n \subseteq i..n
    BY <1>0
  <2>11. \A d : d \in HostsOf({args[j] : j \in (i + 1)..n}) <=>
                  \E j \in (i + 1)..n : d # NoHost /\ d = Whole(args[j])
    BY DEF HostsOf
  <2> QED BY <2>1, <2>6, <2>7, <2>8, <2>9, <2>10, <2>11
<1>5. ASSUME NEW i \in 1..n, Parsed(args, v, i), args[i].kind # "dashdash",
             Found(i + 1), Found(i + 2)
      PROVE  Exact(i)
  <2> DEFINE takes == consumeShortFlagToken(args, i)
             next == NextArg(args, i)
  <2>1. /\ Parsed(args, v, next)
        /\ takes => i + 1 \in 1..n /\ ~Unclear(args, v, i + 1)
        /\ \A d : d \in FoundAt(args, i) <=> Names(args, v, i, d) \/ (takes /\ Names(args, v, i + 1, d))
    BY <1>0, <1>5, ScanStep DEF n
  <2>2. next = IF takes THEN i + 2 ELSE i + 1
    BY DEF NextArg
  <2>3. f[i] = [domains |-> FoundAt(args, i) \cup f[next].domains,
                unsafe |-> Mode(args[i]) \in {"opaque", "unclassified"} \/ f[next].unsafe]
    <3>1. i \in 1..(n + 2) /\ ~(i > n)
      BY <1>0
    <3>2. f[i] = FromHere(args, f, i)
      BY <1>2, <3>1
    <3> QED BY <1>5, <3>1, <3>2 DEF FromHere, n
  <2> HIDE DEF takes, next
  <2>4. Exact(next)
    <3> HIDE DEF Exact
    <3> QED BY <1>5, <2>1, <2>2
  <2>5. \A j \in i..n : j = i \/ (takes /\ j = i + 1) \/ j \in next..n
    BY <1>0, <2>2
  <2>6. i \in i..n /\ (takes => i + 1 \in i..n) /\ next..n \subseteq i..n
    BY <1>0, <2>1, <2>2
  <2>7. Unclear(args, v, i) <=> Mode(args[i]) \in {"opaque", "unclassified"}
    BY <1>5 DEF Unclear
  <2>8. f[i].unsafe <=> Unclear(args, v, i) \/ \E j \in next..n : Unclear(args, v, j)
    <3>1. f[i].unsafe = (Mode(args[i]) \in {"opaque", "unclassified"} \/ f[next].unsafe)
      BY <2>3
    <3>2. f[next].unsafe <=> \E j \in next..n : Unclear(args, v, j)
      BY <2>4
    <3> QED BY <2>7, <3>1, <3>2
  <2>9. \A d : d \in f[i].domains <=>
          Names(args, v, i, d) \/ (takes /\ Names(args, v, i + 1, d)) \/ \E j \in next..n : Names(args, v, j, d)
    BY <2>1, <2>3, <2>4
  <2>10. \A d : d \in f[i].domains <=> \E j \in i..n : Names(args, v, j, d)
    BY <2>5, <2>6, <2>9
  <2>11. f[i].unsafe <=> \E j \in i..n : Unclear(args, v, j)
    BY <2>1, <2>5, <2>6, <2>8
  <2> QED BY <2>10, <2>11
<1> HIDE DEF Exact
<1>6. 0 \in Done
  BY <1>0, <1>3
<1>7. ASSUME NEW k \in 0..n, k < n, k \in Done PROVE k + 1 \in Done
  <2> DEFINE i == n - k
  <2>1. /\ i \in 1..n /\ n + 1 - k = i + 1 /\ n + 2 - k = i + 2
        /\ n + 1 - (k + 1) = i /\ n + 2 - (k + 1) = i + 1 /\ k + 1 \in 0..n
    BY <1>0, <1>7
  <2> HIDE DEF i
  <2>2. Found(i + 1) /\ Found(i + 2)
    <3> HIDE DEF Found
    <3> QED BY <1>7, <2>1
  <2>3. Found(i)
    BY <1>4, <1>5, <2>1, <2>2
  <2> HIDE DEF Found
  <2> QED BY <2>1, <2>2, <2>3
<1> HIDE DEF Done
<1>8. n \in Done
  BY <1>0, <1>6, <1>7, CountUp
<1>9. Exact(1)
  <2>1. Found(n + 1 - n) /\ n + 1 - n = 1
    <3> HIDE DEF Found
    <3> QED BY <1>0, <1>8 DEF Done
  <2>2. Found(1)
    <3> HIDE DEF Found
    <3> QED BY <2>1
  <2>3. Parsed(args, v, 1)
    <3>1. 1 \notin v
      BY <1>0 DEF Reading, TakesNext
    <3> QED BY <3>1 DEF Parsed, PastEnd
  <2> QED BY <2>2, <2>3
<1>10. /\ \A d : d \in f[1].domains <=> d \in Operands(args).destinations
       /\ f[1].unsafe <=> Operands(args).opaque
  BY <1>9, OperandsByPosition DEF Exact, v, n
<1>11. \A g : EgressScan(args, g) => /\ g[1].unsafe \in BOOLEAN /\ Operands(args).opaque \in BOOLEAN
  <2>1. Operands(args).opaque \in BOOLEAN
    BY DEF Operands
  <2>2. ASSUME NEW g, EgressScan(args, g) PROVE g[1].unsafe \in BOOLEAN
    <3>1. g[1] = FromHere(args, g, 1)
      BY <1>0, <2>2 DEF EgressScan, n
    <3>2. FromHere(args, g, 1).unsafe \in BOOLEAN
      <4> DEFINE unsafe == Mode(args[1]) \in {"opaque", "unclassified"} \/ g[NextArg(args, 1)].unsafe
      <4>1. unsafe \in BOOLEAN
        OBVIOUS
      <4> HIDE DEF unsafe
      <4>2. FromHere(args, g, 1).unsafe \in {FALSE, unsafe}
        BY DEF FromHere, unsafe
      <4> QED BY <4>1, <4>2
    <3> QED BY <3>1, <3>2
  <2> QED BY <2>1, <2>2
<1>12. f[1].domains = Operands(args).destinations /\ f[1].unsafe = Operands(args).opaque
  <2>1. f[1].unsafe \in BOOLEAN /\ Operands(args).opaque \in BOOLEAN
    BY <1>1, <1>11
  <2>2. f[1].domains = Operands(args).destinations
    BY <1>10
  <2> QED BY <1>10, <2>1, <2>2
<1> QED BY <1>1, <1>12 DEF EgressScanExact

\* What lets a command run: each destination is allowed, and a direct client has
\* one and no flag that could change it.
LEMMA Unrefused ==
  ASSUME NEW p, p.enabled, NEW exe, NEW intent, NEW args, ValidateNetworkEgress(p, exe, args, intent, FALSE)
  PROVE  LET found == extractDomains(exe, args) IN
         /\ \A d \in found.domains : domainAllowed(d, AllowFor(p, intent))
         /\ exe.name \in directNetworkClients => found.domains # {} /\ ~found.unsafe
BY DEF ValidateNetworkEgress, Refusal

\* AcceptedEgress (ValidateNetworkEgress): for vectors of every length, and any
\* policies and intents.
THEOREM EgressAccepted ==
  \A policies, intents, args : Tokens(args) => AcceptedEgress(policies, intents, args)
<1> SUFFICES ASSUME NEW policies, NEW intents, NEW args, Tokens(args), NEW p \in policies,
                    NEW exe \in [name : directNetworkClients, text : {Text("path", NoHost, "none")}],
                    NEW intent \in intents,
                    p.enabled, ValidateNetworkEgress(p, exe, args, intent, FALSE)
             PROVE  /\ Operands(args).destinations # {} /\ ~Operands(args).opaque
                    /\ \A d \in Operands(args).destinations : \E a \in AllowFor(p, intent) : IsPrefix(a, d)
  BY DEF AcceptedEgress
<1>1. exe.name \in directNetworkClients
  OBVIOUS
<1>2. /\ extractDomains(exe, args).domains = Operands(args).destinations
      /\ extractDomains(exe, args).unsafe = Operands(args).opaque
  BY <1>1, ScanExact DEF extractDomains, EgressScanExact
<1> QED BY <1>1, <1>2, Unrefused DEF domainAllowed

\* NoBlockedDestination (isBlockedIPTarget): for vectors of every length; the
\* empty host is no address.
THEOREM BlockedNeverReached ==
  NoHost \notin BlockedIPs =>
    \A policies, exes, intents, args : Tokens(args) => NoBlockedDestination(policies, exes, intents, args)
<1> SUFFICES ASSUME NoHost \notin BlockedIPs, NEW policies, NEW exes, NEW intents, NEW args, Tokens(args)
             PROVE  NoBlockedDestination(policies, exes, intents, args)
  OBVIOUS
<1> SUFFICES ASSUME NEW p \in policies, NEW exe \in exes, NEW intent \in intents,
                    p.enabled, ValidateNetworkEgress(p, exe, args, intent, FALSE),
                    NEW i \in DOMAIN args, args[i].kind = "word",
                    extractDomainHost(args[i].text) \in BlockedIPs
             PROVE  exe.name \in directNetworkClients /\ i \in Values(args) /\ Mode(args[i - 1]) # "destination"
  BY DEF NoBlockedDestination
<1> DEFINE h == extractDomainHost(args[i].text)
           v == Values(args)
<1>1. i \in 1..Len(args) /\ Len(args) \in Nat
  BY DEF Tokens
<1>2. h = Whole(args[i]) /\ h # NoHost /\ h \in BlockedIPs
  BY DEF Whole
<1>3. h \notin extractDomains(exe, args).domains
  BY <1>2, Unrefused DEF domainAllowed
<1> HIDE DEF h
<1>4. CASE exe.name \in directNetworkClients
  <2>1. extractDomains(exe, args).domains = Operands(args).destinations
    BY <1>4, ScanExact DEF extractDomains, EgressScanExact
  <2> HIDE DEF v
  <2>2. ~Names(args, v, i, h)
    BY <1>1, <1>3, <2>1, OperandsByPosition DEF v
  <2>3. i \in v => TakesNext(args, v, i)
    BY <1>1, ValuesRead DEF Reading, v, Tokens
  <2>4. i \in v
    BY <1>2, <2>2 DEF Names, Parsed
  <2>5. Mode(args[i - 1]) # "destination"
    <3>1. i > 1 /\ i - 1 \notin v /\ ~PastEnd(args, v, i - 1)
      BY <2>3, <2>4 DEF TakesNext
    <3>2. ~PastEnd(args, v, (i - 1) - 1)
      BY <1>1, <3>1 DEF PastEnd
    <3> QED BY <1>2, <2>2, <2>4, <3>1, <3>2 DEF Names, Parsed
  <2> QED BY <1>4, <2>4, <2>5 DEF v
<1>5. CASE exe.name \notin directNetworkClients
  <2> DEFINE line == <<Word(exe.text)>> \o args
             n == Len(line)
             Url(j) == line[j].kind = "long" /\ Mode(line[j]) = "destination"
  <2>1. i + 1 \in 1..n /\ line[i + 1] = args[i]
    BY <1>1
  <2>2. extractDomains(exe, args).domains = extractGenericDomains(line)
    BY <1>5 DEF extractDomains
  <2>3. h \in extractGenericDomains(line)
    <3> HIDE DEF line
    <3>1. \A flags : i + 1 \notin flags => h \in HostsOf({line[k] : k \in (1..n) \ flags})
      BY <1>2, <2>1 DEF HostsOf
    <3>2. ~Url(i + 1)
      BY <2>1
    <3> QED BY <3>1, <3>2 DEF extractGenericDomains
  <2> QED BY <1>3, <2>2, <2>3
<1> QED BY <1>4, <1>5

------------------------------------------------------------------------------
(* ContainerLaunch: the command line and the session of a container *)

\* The configuration of a docker-run: words that are flags or not, mounts and paths
\* to hide as sequences of components.
IsLaunch(cfg) ==
  /\ \E names : cfg.args \in Seq([flag : BOOLEAN, name : names, inline : BOOLEAN])
  /\ \E sources, components : /\ cfg.mounts \in Seq([src : sources, dst : Seq(components)])
                              /\ cfg.hidden \subseteq Seq(components)

\* A scan that stops at some positions with a value of S and goes on further right from
\* the others, and a function that gives what it comes to from every position.
ScanRight(n, S, stop, value, next) ==
  \A i \in 1..n : /\ i \in stop => value[i] \in S
                  /\ i \notin stop => next[i] \in (i + 1)..n
Scanned(f, n, stop, value, next) ==
  \A i \in 1..n : /\ i \in stop => f[i] = value[i]
                  /\ i \notin stop => f[i] = f[next[i]]

\* There is such a function: from each position on, the last ones first.
LEMMA ScanExists ==
  ASSUME NEW n \in Nat, NEW S, NEW stop, NEW value, NEW next,
         ScanRight(n, S, stop, value, next)
  PROVE  \E f \in [1..n -> S] : Scanned(f, n, stop, value, next)
<1> DEFINE At(f, i) == IF i \in stop THEN value[i] ELSE f[next[i]]
           Suffix(k) == \E f \in [(n + 1 - k)..n -> S] : \A i \in (n + 1 - k)..n : f[i] = At(f, i)
           Done == {k \in 0..n : Suffix(k)}
<1>1. Suffix(0)
  <2>1. (n + 1 - 0)..n = {}
    OBVIOUS
  <2> DEFINE e == [i \in {} |-> 0]
  <2>2. e \in [{} -> S] /\ \A i \in {} : e[i] = At(e, i)
    OBVIOUS
  <2> QED BY <2>1, <2>2
<1>2. ASSUME NEW k \in 0..n, k < n, Suffix(k) PROVE Suffix(k + 1)
  <2> DEFINE m == n - k
  <2>0. /\ m \in 1..n /\ n + 1 - k = m + 1 /\ n + 1 - (k + 1) = m
        /\ \A i \in m..n : i \in 1..n /\ (i = m \/ i \in (m + 1)..n)
        /\ \A i \in m..n : i \notin stop => next[i] \in (m + 1)..n
    BY <1>2 DEF ScanRight
  <2>1. PICK g \in [(m + 1)..n -> S] : \A i \in (m + 1)..n : g[i] = At(g, i)
    BY <1>2, <2>0
  <2> HIDE DEF m
  <2> DEFINE h == [i \in m..n |-> IF i = m THEN At(g, m) ELSE g[i]]
  <2>2. At(g, m) \in S
    BY <2>0, <2>1 DEF ScanRight
  <2>3. h \in [m..n -> S]
    BY <2>0, <2>1, <2>2
  <2>4. m \notin (m + 1)..n
    BY <2>0
  <2>5. \A i \in (m + 1)..n : h[i] = g[i]
    <3> TAKE i \in (m + 1)..n
    <3>1. i \in m..n /\ i # m
      BY <2>0
    <3> QED BY <3>1
  <2>6. ASSUME NEW i \in m..n PROVE h[i] = At(h, i)
    <3>1. At(h, i) = At(g, i)
      BY <2>0, <2>5
    <3>2. h[i] = At(g, i)
      BY <2>0, <2>1
    <3> QED BY <3>1, <3>2
  <2> QED BY <2>0, <2>3, <2>6
<1>3. Suffix(n)
  <2> HIDE DEF Suffix
  <2>1. 0 \in Done /\ \A k \in 0..n : k < n /\ k \in Done => k + 1 \in Done
    BY <1>1, <1>2
  <2> HIDE DEF Done
  <2>2. n \in Done
    BY <2>1, CountUp
  <2> QED BY <2>2 DEF Done
<1>4. n + 1 - n = 1
  OBVIOUS
<1>5. PICK f \in [1..n -> S] : \A i \in 1..n : f[i] = At(f, i)
  BY <1>3, <1>4
<1> QED BY <1>5 DEF Scanned

\* An accepted docker command line leaves the image as its first operand
\* (validateAdditionalDockerArgs, buildDockerRunArgs).
LEMMA ImageKept ==
  ASSUME NEW cfg, IsLaunch(cfg), validateAdditionalDockerArgs(cfg)
  PROVE  Image(buildDockerRunArgs(cfg)) = "image"
<1> DEFINE n == Len(cfg.args)
           words == buildDockerRunArgs(cfg)
           Wants(i) == cfg.args[i].name \in ValueFlags /\ ~cfg.args[i].inline
           Allowed(i) == /\ cfg.args[i].flag /\ cfg.args[i].name \in ValueFlags \cup BareFlags
                         /\ ~(cfg.alias /\ ~cfg.socket /\ cfg.args[i].name \in RedirectFlags)
           Leaves(i) == i < n => ~cfg.args[i + 1].flag
           Accepts(f) ==
             f = [i \in 1..(n + 2) |->
                    IF i > n THEN i = n + 1
                    ELSE Allowed(i) /\ IF Wants(i) THEN Leaves(i) /\ f[i + 2] ELSE f[i + 1]]
           Finds(f) ==
             f = [i \in 1..(Len(words) + 2) |->
                    IF i > Len(words) THEN "none"
                    ELSE IF ~words[i].flag THEN words[i].name
                    ELSE f[IF words[i].name \in ValueFlags /\ ~words[i].inline THEN i + 2 ELSE i + 1]]
           ok == CHOOSE f : Accepts(f)
           image == CHOOSE f : Finds(f)
<1>0. /\ n \in Nat
      /\ \A i \in 1..n : cfg.args[i].flag \in BOOLEAN
      /\ Len(words) = n + 1
      /\ \A i \in 1..n : words[i] = cfg.args[i]
      /\ words[n + 1] = [flag |-> FALSE, name |-> "image", inline |-> FALSE]
  <2>1. PICK names : cfg.args \in Seq([flag : BOOLEAN, name : names, inline : BOOLEAN])
    BY DEF IsLaunch
  <2>2. n \in Nat /\ \A i \in 1..n : cfg.args[i] \in [flag : BOOLEAN, name : names, inline : BOOLEAN]
    <3>1. \A i \in 1..Len(cfg.args) : cfg.args[i] \in [flag : BOOLEAN, name : names, inline : BOOLEAN]
      BY <2>1, ElementOf
    <3>2. Len(cfg.args) \in Nat
      BY <2>1
    <3> QED BY <3>1, <3>2
  <2>3. /\ Len(words) = n + 1 /\ words[n + 1] = [flag |-> FALSE, name |-> "image", inline |-> FALSE]
        /\ \A i \in 1..n : words[i] = cfg.args[i]
    <3> DEFINE last == [flag |-> FALSE, name |-> "image", inline |-> FALSE]
    <3>1. words = cfg.args \o <<last>>
      BY DEF buildDockerRunArgs
    <3> HIDE DEF last, words
    <3>2. <<last>> \in Seq({last}) /\ Len(<<last>>) = 1 /\ <<last>>[1] = last
      OBVIOUS
    <3>3. Len(words) = n + 1 /\ words[n + 1] = last /\ \A i \in 1..n : words[i] = cfg.args[i]
      BY <2>1, <3>1, <3>2
    <3> QED BY <3>3 DEF last
  <2>4. \A i \in 1..n : cfg.args[i].flag \in BOOLEAN
    BY <2>2
  <2> QED BY <2>2, <2>3, <2>4
<1> HIDE DEF n
<1>1. \E f : Accepts(f)
  <2> DEFINE m == n + 2
             stop == {i \in 1..m : i > n \/ ~Allowed(i) \/ (Wants(i) /\ ~Leaves(i))}
             value == [i \in 1..m |-> i = n + 1]
             next == [i \in 1..m |-> IF Wants(i) THEN i + 2 ELSE i + 1]
  <2>1. ScanRight(m, BOOLEAN, stop, value, next)
    <3>1. \A i \in 1..m : i \in stop => value[i] \in BOOLEAN
      OBVIOUS
    <3>2. \A i \in 1..m : i \notin stop => next[i] \in (i + 1)..m
      <4> HIDE DEF Allowed, Leaves, Wants
      <4> QED BY <1>0
    <3> HIDE DEF stop, value, next, m
    <3> QED BY <3>1, <3>2 DEF ScanRight
  <2>2. m \in Nat
    BY <1>0
  <2>3. PICK f \in [1..m -> BOOLEAN] : Scanned(f, m, stop, value, next)
    <3> HIDE DEF stop, value, next, m
    <3> QED BY <2>1, <2>2, ScanExists
  <2>4. ASSUME NEW i \in 1..(n + 2)
        PROVE  f[i] = IF i > n THEN i = n + 1
                      ELSE Allowed(i) /\ IF Wants(i) THEN Leaves(i) /\ f[i + 2] ELSE f[i + 1]
    <3>0. i > n \/ (i <= n /\ i + 1 \in 1..(n + 2) /\ i + 2 \in 1..(n + 2) /\ i # n + 1)
      BY <1>0
    <3>1. CASE i > n
      BY <2>3, <3>1 DEF Scanned
    <3>2. CASE i <= n /\ i \in stop
      <4>1. f[i] = FALSE
        <5>1. i \in 1..m /\ value[i] = FALSE
          <6>1. i \in 1..m
            OBVIOUS
          <6>2. value[i] = (i = n + 1)
            BY <6>1
          <6>3. ~(i = n + 1)
            <7> HIDE DEF stop
            <7> QED BY <1>0, <3>2
          <6> HIDE DEF stop, value, m
          <6> QED BY <6>1, <6>2, <6>3
        <5> HIDE DEF stop, value, next, m
        <5> QED BY <2>3, <3>2, <5>1 DEF Scanned
      <4>2. ~Allowed(i) \/ (Wants(i) /\ ~Leaves(i))
        <5> HIDE DEF Allowed, Wants, Leaves
        <5> QED BY <1>0, <3>2
      <4> HIDE DEF stop, value, next, Allowed, Wants, Leaves
      <4> QED BY <1>0, <3>2, <4>1, <4>2
    <3>3. CASE i <= n /\ i \notin stop
      <4>1. Allowed(i) /\ (Wants(i) => Leaves(i))
        BY <1>0, <3>0, <3>3
      <4>2. f[i] = f[next[i]] /\ next[i] = IF Wants(i) THEN i + 2 ELSE i + 1
        BY <2>3, <3>3 DEF Scanned
      <4>3. f[i + 1] \in BOOLEAN /\ f[i + 2] \in BOOLEAN /\ ~(i > n)
        BY <1>0, <2>3, <3>0, <3>3
      <4> HIDE DEF stop, value, next, Allowed, Wants, Leaves
      <4> QED BY <4>1, <4>2, <4>3
    <3> QED BY <1>0, <3>1, <3>2, <3>3
  <2> HIDE DEF stop, value, next, Allowed, Wants, Leaves
  <2>5. Accepts(f)
    BY <2>3, <2>4
  <2> QED BY <2>5
<1>2. \E f : Finds(f)
  <2> DEFINE m == n + 3
             stop == {i \in 1..m : i > n + 1 \/ ~words[i].flag}
             value == [i \in 1..m |-> IF i > n + 1 THEN "none" ELSE words[i].name]
             next == [i \in 1..m |-> IF words[i].name \in ValueFlags /\ ~words[i].inline THEN i + 2 ELSE i + 1]
             S == {value[i] : i \in 1..m}
  <2> HIDE DEF words
  <2>1. ScanRight(m, S, stop, value, next)
    BY <1>0 DEF ScanRight
  <2>2. m \in Nat
    BY <1>0
  <2>3. PICK f \in [1..m -> S] : Scanned(f, m, stop, value, next)
    <3> HIDE DEF stop, value, next, m, S
    <3> QED BY <2>1, <2>2, ScanExists
  <2>4. ASSUME NEW i \in 1..m
        PROVE  f[i] = IF i > Len(words) THEN "none"
                      ELSE IF ~words[i].flag THEN words[i].name
                      ELSE f[IF words[i].name \in ValueFlags /\ ~words[i].inline THEN i + 2 ELSE i + 1]
    BY <1>0, <2>3 DEF Scanned
  <2>5. f = [i \in 1..m |-> f[i]] /\ m = Len(words) + 2
    BY <1>0, <2>3
  <2> HIDE DEF m
  <2>6. f = [i \in 1..m |-> IF i > Len(words) THEN "none"
                           ELSE IF ~words[i].flag THEN words[i].name
                           ELSE f[IF words[i].name \in ValueFlags /\ ~words[i].inline THEN i + 2 ELSE i + 1]]
    BY <2>4, <2>5
  <2> QED BY <2>5, <2>6
<1>3. Accepts(ok) /\ Finds(image)
  <2> HIDE DEF Accepts, Finds
  <2> QED BY <1>1, <1>2
<1>4. ok[1] /\ Image(words) = image[1]
  <2> HIDE DEF words
  <2> QED BY DEF validateAdditionalDockerArgs, Image, n
<1> HIDE DEF ok, image, words
<1>5. ASSUME NEW i \in 1..n, ok[i]
      PROVE  /\ cfg.args[i].flag
             /\ ok[IF Wants(i) THEN i + 2 ELSE i + 1]
             /\ image[i] = image[IF Wants(i) THEN i + 2 ELSE i + 1]
  <2>1. i \in 1..(n + 2) /\ ~(i > n) /\ i \in 1..(Len(words) + 2) /\ ~(i > Len(words)) /\ words[i] = cfg.args[i]
    BY <1>0
  <2>2. ok[i] = (Allowed(i) /\ IF Wants(i) THEN Leaves(i) /\ ok[i + 2] ELSE ok[i + 1])
    BY <1>3, <2>1
  <2>3. cfg.args[i].flag
    BY <1>5, <2>2
  <2>4. ok[IF Wants(i) THEN i + 2 ELSE i + 1]
    BY <1>5, <2>2
  <2>5. image[i] = image[IF Wants(i) THEN i + 2 ELSE i + 1]
    BY <1>3, <2>1, <2>3
  <2> QED BY <2>3, <2>4, <2>5
<1>6. ok[n + 2] = FALSE /\ image[n + 1] = "image"
  <2>1. n + 2 \in 1..(n + 2) /\ n + 2 > n /\ n + 2 # n + 1
    BY <1>0
  <2>2. ok[n + 2] = FALSE
    BY <1>3, <2>1
  <2>3. /\ n + 1 \in 1..(Len(words) + 2) /\ ~(n + 1 > Len(words))
        /\ words[n + 1].flag = FALSE /\ words[n + 1].name = "image"
    BY <1>0
  <2>4. image[n + 1] = "image"
    BY <1>3, <2>3
  <2> QED BY <2>2, <2>4
\* From the right: where the scan of the wrapper goes on, docker finds the image.
<1> DEFINE Found(i) == ok[i] => image[i] = "image"
           Done == {k \in 0..n : Found(n + 1 - k) /\ Found(n + 2 - k)}
<1>7. 0 \in Done
  <2>1. n + 1 - 0 = n + 1 /\ n + 2 - 0 = n + 2 /\ 0 \in 0..n
    BY <1>0
  <2> QED BY <1>6, <2>1
<1>8. ASSUME NEW k \in 0..n, k < n, k \in Done PROVE k + 1 \in Done
  <2> DEFINE i == n - k
  <2>1. i \in 1..n /\ n + 1 - k = i + 1 /\ n + 2 - k = i + 2 /\ n + 1 - (k + 1) = i /\ n + 2 - (k + 1) = i + 1
        /\ k + 1 \in 0..n
    BY <1>0, <1>8
  <2> HIDE DEF i
  <2>2. Found(i + 1) /\ Found(i + 2)
    BY <1>8, <2>1
  <2>3. Found(i)
    <3> SUFFICES ASSUME ok[i] PROVE image[i] = "image"
      OBVIOUS
    <3> HIDE DEF Wants
    <3> QED BY <1>5, <2>1, <2>2
  <2> QED BY <2>1, <2>2, <2>3
<1>9. n \in Done
  <2> HIDE DEF Done
  <2> QED BY <1>0, <1>7, <1>8, CountUp
<1> QED
  <2>1. n + 1 - n = 1
    BY <1>0
  <2> QED BY <1>4, <1>9, <2>1 DEF words

\* The variables of the wrapper are not those they stand for.
LEMMA WrapperNames ==
  /\ Wrapper("SESSION_TOKEN") = "WRAPPER_SESSION_TOKEN" /\ Wrapper("UNIX_SOCKET") = "WRAPPER_UNIX_SOCKET"
  /\ Wrapper("BROKER_URL") = "WRAPPER_BROKER_URL" /\ Wrapper("AGENT_ID") = "WRAPPER_AGENT_ID"
  /\ Wrapper("TASK_ID") = "WRAPPER_TASK_ID"
  /\ \A v, w \in Plain : Wrapper(v) # w /\ (Wrapper(v) = Wrapper(w) => v = w)
<1>1. /\ Wrapper("SESSION_TOKEN") = "WRAPPER_SESSION_TOKEN" /\ Wrapper("UNIX_SOCKET") = "WRAPPER_UNIX_SOCKET"
      /\ Wrapper("BROKER_URL") = "WRAPPER_BROKER_URL" /\ Wrapper("AGENT_ID") = "WRAPPER_AGENT_ID"
      /\ Wrapper("TASK_ID") = "WRAPPER_TASK_ID"
  BY DEF Wrapper
<1> QED BY <1>1 DEF Plain, Session

\* Of the mounts that hold a path, one is the deepest that comes first, and its
\* target is a prefix of the path as long as any (dockerHiddenHostTarget).
LEMMA DeepestMount ==
  ASSUME NEW cfg, IsLaunch(cfg), NEW h \in cfg.hidden, NEW Host, dockerHiddenHostTarget(cfg, h, Host) # "absent"
  PROVE  \E i \in DOMAIN cfg.mounts :
           /\ IsPrefix(cfg.mounts[i].dst, h)
           /\ \A j \in DOMAIN cfg.mounts :
                IsPrefix(cfg.mounts[j].dst, h) => Len(cfg.mounts[j].dst) <= Len(cfg.mounts[i].dst)
           /\ dockerHiddenHostTarget(cfg, h, Host)
                = Host[<<cfg.mounts[i].src, SubSeq(h, Len(cfg.mounts[i].dst) + 1, Len(h))>>]
<1> DEFINE holds == {i \in DOMAIN cfg.mounts : dockerContainerPathContains(cfg.mounts[i].dst, h)}
           Depth(i) == Len(cfg.mounts[i].dst)
           First(i) == \A j \in holds : ~(Depth(j) > Depth(i)) /\ (j < i => Depth(i) > Depth(j))
<1>0. PICK components : /\ \A i \in DOMAIN cfg.mounts : cfg.mounts[i].dst \in Seq(components)
                        /\ cfg.hidden \subseteq Seq(components) /\ DOMAIN cfg.mounts \subseteq Nat
  <2>1. PICK sources, components : /\ cfg.mounts \in Seq([src : sources, dst : Seq(components)])
                                   /\ cfg.hidden \subseteq Seq(components)
    BY DEF IsLaunch
  <2>2. DOMAIN cfg.mounts = 1..Len(cfg.mounts) /\ Len(cfg.mounts) \in Nat
    BY <2>1
  <2>3. \A i \in DOMAIN cfg.mounts : cfg.mounts[i].dst \in Seq(components)
    <3> TAKE i \in DOMAIN cfg.mounts
    <3>1. cfg.mounts[i] \in [src : sources, dst : Seq(components)]
      BY <2>1, <2>2, ElementOf
    <3> QED BY <3>1
  <2> QED BY <2>1, <2>2, <2>3
<1>1. /\ holds \subseteq Nat /\ Len(h) \in Nat
      /\ \A i \in DOMAIN cfg.mounts : Depth(i) \in Nat
  BY <1>0
<1>2. \A i \in DOMAIN cfg.mounts :
        /\ i \in holds => IsPrefix(cfg.mounts[i].dst, h) /\ Depth(i) <= Len(h)
        /\ IsPrefix(cfg.mounts[i].dst, h) => i \in holds \/ Depth(i) = 0
  <2> TAKE i \in DOMAIN cfg.mounts
  <2>1. IsPrefix(h, h) /\ Len(h) <= Len(h)
    <3>1. Len(h) \in Nat /\ SubSeq(h, 1, Len(h)) = SubSeq(h, 1, Len(h))
      BY <1>1
    <3> QED BY <1>1, <3>1 DEF IsPrefix
  <2>2. IsPrefix(cfg.mounts[i].dst, h) => Depth(i) <= Len(h)
    BY DEF IsPrefix
  <2>3. Depth(i) # 0 => cfg.mounts[i].dst # <<>>
    OBVIOUS
  <2> QED BY <2>1, <2>2, <2>3 DEF dockerContainerPathContains
<1>3. holds # {}
  BY DEF dockerHiddenHostTarget
<1> HIDE DEF holds
<1>4. PICK deep \in holds : \A j \in holds : Depth(j) <= Depth(deep)
  <2> DEFINE Rest == {Len(h) - Depth(j) : j \in holds}
  <2>1. Rest \subseteq Nat /\ Rest # {}
    <3>1. \A j \in holds : j \in DOMAIN cfg.mounts
      BY DEF holds
    <3>2. \A j \in holds : Len(h) - Depth(j) \in Nat
      <4> TAKE j \in holds
      <4>1. Depth(j) \in Nat /\ Depth(j) <= Len(h) /\ Len(h) \in Nat
        BY <1>1, <1>2, <3>1
      <4> HIDE DEF Depth
      <4> QED BY <4>1
    <3> HIDE DEF Depth
    <3> QED BY <1>3, <3>2
  <2>2. PICK r \in Rest : \A q \in Rest : ~(<<q, r>> \in OpToRel(<, Nat))
    <3> HIDE DEF Rest
    <3> QED BY <2>1, NatLessThanWellFounded, WFMin
  <2>3. \A q \in Rest : ~(q < r)
    BY <2>1, <2>2 DEF OpToRel
  <2>4. PICK deep \in holds : r = Len(h) - Depth(deep)
    OBVIOUS
  <2>5. \A j \in holds : Depth(j) \in Nat /\ ~(Len(h) - Depth(j) < Len(h) - Depth(deep))
    BY <1>1, <2>3, <2>4 DEF holds
  <2> HIDE DEF Depth
  <2>6. \A j \in holds : Depth(j) <= Depth(deep)
    BY <1>1, <2>4, <2>5
  <2> QED BY <2>4, <2>6
<1>5. PICK i \in holds : First(i)
  <2> DEFINE Deepest == {j \in holds : Depth(j) = Depth(deep)}
  <2>1. Deepest \subseteq Nat /\ Deepest # {}
    BY <1>1
  <2>2. PICK i \in Deepest : \A q \in Deepest : ~(<<q, i>> \in OpToRel(<, Nat))
    <3> HIDE DEF Deepest
    <3> QED BY <2>1, NatLessThanWellFounded, WFMin
  <2>3. i \in holds /\ Depth(i) = Depth(deep) /\ \A q \in Deepest : ~(q < i)
    BY <2>1, <2>2 DEF OpToRel
  <2>4. \A j \in holds : j < i => Depth(j) # Depth(deep)
    BY <2>3
  <2>5. \A j \in holds : Depth(j) \in Nat /\ Depth(j) <= Depth(deep)
    BY <1>1, <1>4 DEF holds
  <2> HIDE DEF Depth, Deepest
  <2>6. First(i)
    BY <2>3, <2>4, <2>5
  <2> QED BY <2>3, <2>6
<1> DEFINE found == CHOOSE k \in holds : First(k)
<1>6. found \in holds /\ First(found)
  <2> HIDE DEF First
  <2> QED BY <1>5
<1>7. dockerHiddenHostTarget(cfg, h, Host) = Host[<<cfg.mounts[found].src, SubSeq(h, Depth(found) + 1, Len(h))>>]
  BY <1>3 DEF dockerHiddenHostTarget, holds
<1> HIDE DEF found
<1>8. found \in DOMAIN cfg.mounts
  BY <1>6 DEF holds
<1>9. \A j \in DOMAIN cfg.mounts : IsPrefix(cfg.mounts[j].dst, h) => Depth(j) <= Depth(found)
  <2> TAKE j \in DOMAIN cfg.mounts
  <2>1. Depth(j) \in Nat /\ Depth(found) \in Nat /\ (j \in holds => ~(Depth(j) > Depth(found)))
    BY <1>1, <1>6, <1>8
  <2> HIDE DEF Depth, First
  <2> QED BY <1>2, <2>1
<1> QED BY <1>2, <1>6, <1>7, <1>8, <1>9

\* LaunchKeepsSession (validateDockerRunSecurity, prepareDockerRunHiddenMounts): for
\* every command line, mounts and paths to hide, of every length.
THEOREM LaunchKept == \A cfg, Host : IsLaunch(cfg) => LaunchKeepsSession(cfg, Host)
<1> SUFFICES ASSUME NEW cfg, NEW Host, IsLaunch(cfg) PROVE LaunchKeepsSession(cfg, Host)
  OBVIOUS
<1> DEFINE hide == prepareDockerRunHiddenMounts(cfg, Host)
<1> SUFFICES ASSUME hide.ok, validateDockerRunSecurity(cfg, hide.mounts)
             PROVE  /\ Image(buildDockerRunArgs(cfg)) = "image"
                    /\ \A v \in protectedDockerEnvVars :
                         buildDockerRunEnv(cfg)[v] = writeDockerRunWrapperMCPEnvFile(cfg)[v]
                    /\ \A h \in cfg.hidden : \E m \in hide.mounts :
                         /\ m.dst = h
                         /\ \E i \in DOMAIN cfg.mounts :
                              /\ IsPrefix(cfg.mounts[i].dst, h)
                              /\ \A j \in DOMAIN cfg.mounts :
                                   IsPrefix(cfg.mounts[j].dst, h)
                                     => Len(cfg.mounts[j].dst) <= Len(cfg.mounts[i].dst)
                              /\ m.kind = Host[<<cfg.mounts[i].src, SubSeq(h, Len(cfg.mounts[i].dst) + 1, Len(h))>>]
  BY DEF LaunchKeepsSession
<1>1. Image(buildDockerRunArgs(cfg)) = "image"
  BY ImageKept DEF validateDockerRunSecurity
<1>2. ASSUME NEW v \in protectedDockerEnvVars
      PROVE  buildDockerRunEnv(cfg)[v] = writeDockerRunWrapperMCPEnvFile(cfg)[v]
  <2>1. v \in Vars /\ (v \in Session \/ (v \notin Plain /\ v \in {Wrapper(w) : w \in Plain}))
    BY WrapperNames DEF protectedDockerEnvVars, Vars, Plain
  <2>2. ~ \E i \in DOMAIN cfg.envs : cfg.envs[i].name = v
    BY DEF validateDockerRunSecurity, validateAdditionalDockerEnvs
  <2>3. buildDockerRunEnv(cfg)[v] = IF v \in Session THEN Live(cfg, v)
                                    ELSE IF v \in {Wrapper(w) : w \in Plain}
                                    THEN Live(cfg, CHOOSE w \in Plain : Wrapper(w) = v) ELSE ""
    BY <2>1, <2>2 DEF buildDockerRunEnv
  <2>4. writeDockerRunWrapperMCPEnvFile(cfg)[v]
          = Live(cfg, IF v \in Plain THEN v ELSE CHOOSE w \in Plain : Wrapper(w) = v)
    BY <2>1 DEF writeDockerRunWrapperMCPEnvFile
  <2>5. CASE v \in Session
    BY <2>3, <2>4, <2>5 DEF Plain
  <2>6. CASE v \notin Session
    BY <2>1, <2>3, <2>4, <2>6 DEF Plain
  <2> QED BY <2>5, <2>6
<1>3. ASSUME NEW h \in cfg.hidden
      PROVE  \E m \in hide.mounts :
               /\ m.dst = h
               /\ \E i \in DOMAIN cfg.mounts :
                    /\ IsPrefix(cfg.mounts[i].dst, h)
                    /\ \A j \in DOMAIN cfg.mounts :
                         IsPrefix(cfg.mounts[j].dst, h) => Len(cfg.mounts[j].dst) <= Len(cfg.mounts[i].dst)
                    /\ m.kind = Host[<<cfg.mounts[i].src, SubSeq(h, Len(cfg.mounts[i].dst) + 1, Len(h))>>]
  <2> DEFINE m == [dst |-> h, kind |-> dockerHiddenHostTarget(cfg, h, Host)]
  <2>1. dockerHiddenHostTarget(cfg, h, Host) # "absent" /\ m \in hide.mounts
    BY DEF prepareDockerRunHiddenMounts
  <2>2. m.dst = h /\ m.kind = dockerHiddenHostTarget(cfg, h, Host)
    OBVIOUS
  <2>3. PICK i \in DOMAIN cfg.mounts :
          /\ IsPrefix(cfg.mounts[i].dst, h)
          /\ \A j \in DOMAIN cfg.mounts :
               IsPrefix(cfg.mounts[j].dst, h) => Len(cfg.mounts[j].dst) <= Len(cfg.mounts[i].dst)
          /\ dockerHiddenHostTarget(cfg, h, Host)
               = Host[<<cfg.mounts[i].src, SubSeq(h, Len(cfg.mounts[i].dst) + 1, Len(h))>>]
    BY <2>1, DeepestMount, Zenon
  <2>4. m.kind = Host[<<cfg.mounts[i].src, SubSeq(h, Len(cfg.mounts[i].dst) + 1, Len(h))>>]
    BY <2>2, <2>3, Zenon
  <2> HIDE DEF m, hide
  <2> QED BY <2>1, <2>2, <2>3, <2>4, Zenon
<1> QED BY <1>1, <1>2, <1>3

\* AdapterUsesLiveSession (normalizedLaunchEnv, mergeWrapperEnvFile, effectiveEnv): for
\* every session, whatever a client keeps of the environment and whatever it saved of
\* the session's own variables.
THEOREM LiveSessionUsed ==
  \A cfg, kept, saved :
    /\ cfg.token # "" /\ cfg.url # "" /\ cfg.socket \in BOOLEAN
    /\ validateAdditionalDockerEnvs(cfg) /\ DOMAIN saved \subseteq Session
    => AdapterUsesLiveSession(cfg, kept, saved)
<1> SUFFICES ASSUME NEW cfg, NEW kept, NEW saved, cfg.token # "", cfg.url # "", cfg.socket \in BOOLEAN,
                    validateAdditionalDockerEnvs(cfg), DOMAIN saved \subseteq Session
             PROVE  AdapterUsesLiveSession(cfg, kept, saved)
  OBVIOUS
<1> DEFINE file == writeDockerRunWrapperMCPEnvFile(cfg)
           client == [v \in Vars |-> IF v \in DOMAIN saved THEN saved[v]
                                     ELSE IF v \in kept THEN buildDockerRunEnv(cfg)[v] ELSE ""]
           merged == mergeWrapperEnvFile(client, file)
           env == normalizedLaunchEnv(client, file)
           Pick(v) == firstNonEmpty(merged[Wrapper(v)], merged[v])
<1>1. \A v \in Session : /\ v \in Vars /\ Wrapper(v) \in Vars /\ Wrapper(v) \notin Plain /\ Wrapper(v) \notin Session
                         /\ (CHOOSE w \in Plain : Wrapper(w) = Wrapper(v)) = v
  <2>1. \A v \in Plain : (CHOOSE w \in Plain : Wrapper(w) = Wrapper(v)) = v
    BY WrapperNames
  <2> QED BY <2>1, WrapperNames DEF Vars, Plain
<1>2. \A v \in Session : merged[Wrapper(v)] = Live(cfg, v)
  <2> TAKE v \in Session
  <2>1. file[Wrapper(v)] = Live(cfg, v)
    BY <1>1 DEF writeDockerRunWrapperMCPEnvFile
  <2>2. ~ \E i \in DOMAIN cfg.envs : cfg.envs[i].name = Wrapper(v)
    BY DEF validateAdditionalDockerEnvs, protectedDockerEnvVars
  <2>3. buildDockerRunEnv(cfg)[Wrapper(v)] = Live(cfg, v)
    <3>1. Wrapper(v) \in {Wrapper(w) : w \in Plain} /\ Wrapper(v) \in Vars /\ Wrapper(v) \notin Session
      BY <1>1 DEF Plain
    <3>2. buildDockerRunEnv(cfg)[Wrapper(v)] = Live(cfg, CHOOSE w \in Plain : Wrapper(w) = Wrapper(v))
      BY <2>2, <3>1 DEF buildDockerRunEnv
    <3> QED BY <1>1, <3>2
  <2>4. client[Wrapper(v)] \in {"", Live(cfg, v)}
    BY <1>1, <2>3
  <2>5. merged[Wrapper(v)] = firstNonEmpty(client[Wrapper(v)], file[Wrapper(v)])
    BY <1>1 DEF mergeWrapperEnvFile
  <2> QED BY <2>1, <2>4, <2>5 DEF firstNonEmpty
<1>3. /\ merged["WRAPPER_SESSION_TOKEN"] = cfg.token
      /\ merged["WRAPPER_UNIX_SOCKET"] = IF cfg.socket THEN "socket" ELSE ""
      /\ merged["WRAPPER_BROKER_URL"] = IF cfg.socket THEN "" ELSE cfg.url
  <2>1. /\ Live(cfg, "SESSION_TOKEN") = cfg.token
        /\ Live(cfg, "UNIX_SOCKET") = IF cfg.socket THEN "socket" ELSE ""
        /\ Live(cfg, "BROKER_URL") = IF cfg.socket THEN "" ELSE cfg.url
    BY DEF Live, Transport, Identity
  <2> QED BY <1>2, <2>1, WrapperNames DEF Session
<1>4. Pick("SESSION_TOKEN") = cfg.token /\ (cfg.socket => Pick("UNIX_SOCKET") = "socket")
      /\ (~cfg.socket => Pick("BROKER_URL") = cfg.url)
  <2>1. /\ Wrapper("SESSION_TOKEN") = "WRAPPER_SESSION_TOKEN" /\ Wrapper("UNIX_SOCKET") = "WRAPPER_UNIX_SOCKET"
        /\ Wrapper("BROKER_URL") = "WRAPPER_BROKER_URL"
    BY WrapperNames
  <2> HIDE DEF merged
  <2> QED BY <1>3, <2>1 DEF firstNonEmpty
<1>5. env = [v \in Vars |->
               CASE v \in Session -> Pick(v)
                 [] v = "AGENT_ID" -> firstNonEmpty(merged[v], merged[Wrapper(v)])
                 [] v = "TASK_ID" -> firstNonEmpty(merged[v], firstNonEmpty(merged[Wrapper(v)], "mcp-task"))
                 [] OTHER -> merged[v]]
  <2>1. ~(Pick("SESSION_TOKEN") = "" \/ (Pick("UNIX_SOCKET") = "" /\ Pick("BROKER_URL") = ""))
    <3> HIDE DEF Pick
    <3> QED BY <1>4
  <2> HIDE DEF file, client
  <2> QED BY <2>1 DEF normalizedLaunchEnv
<1> HIDE DEF env, merged
<1>6. \A v \in Session : env[v] = Pick(v) /\ env[Wrapper(v)] = merged[Wrapper(v)]
  <2> TAKE v \in Session
  <2>1. env[v] = Pick(v)
    <3>1. v \in Vars /\ v # "AGENT_ID" /\ v # "TASK_ID"
      BY <1>1 DEF Session
    <3> HIDE DEF Pick
    <3> QED BY <1>5, <3>1, Zenon
  <2>2. Wrapper(v) # "AGENT_ID" /\ Wrapper(v) # "TASK_ID" /\ Wrapper(v) \in Vars /\ Wrapper(v) \notin Session
    BY <1>1 DEF Plain
  <2>3. env[Wrapper(v)] = merged[Wrapper(v)]
    BY <1>5, <2>2
  <2> QED BY <2>1, <2>3
<1> HIDE DEF Pick
<1>7. /\ env["SESSION_TOKEN"] = cfg.token /\ env[Wrapper("SESSION_TOKEN")] = cfg.token
      /\ cfg.socket => env[Wrapper("UNIX_SOCKET")] = "socket"
      /\ ~cfg.socket => env[Wrapper("BROKER_URL")] = cfg.url
      /\ ~cfg.socket => env[Wrapper("UNIX_SOCKET")] = ""
  BY <1>3, <1>4, <1>6, WrapperNames DEF Session
<1>8. effectiveEnv(env, "SESSION_TOKEN") = cfg.token
  BY <1>7 DEF effectiveEnv, firstNonEmpty, Session
<1>9. AdapterTransport(env, IF cfg.socket THEN {"socket"} ELSE {}) = IF cfg.socket THEN "socket" ELSE cfg.url
  <2>1. CASE cfg.socket
    <3>1. effectiveEnv(env, "UNIX_SOCKET") = "socket"
      BY <1>7, <2>1 DEF effectiveEnv, firstNonEmpty, Session
    <3> QED BY <2>1, <3>1 DEF AdapterTransport
  <2>2. CASE ~cfg.socket
    <3>1. effectiveEnv(env, "BROKER_URL") = cfg.url
      BY <1>7, <2>2 DEF effectiveEnv, firstNonEmpty, Session
    <3> QED BY <2>2, <3>1 DEF AdapterTransport
  <2> QED BY <2>1, <2>2
<1> QED BY <1>8, <1>9 DEF AdapterUsesLiveSession, env
==============================================================================
