-------------------------------- MODULE MCHost --------------------------------
(***************************************************************************)
(* One instance of what a host has besides the calls of the broker: its    *)
(* processes and their locks, the audit file, the limiter, the external    *)
(* state service, the workspace setup, and the pure decisions of the       *)
(* policies and of the start-up.  The parts share no variable: a behaviour *)
(* takes steps of one part only, and of the decisions one input is drawn,  *)
(* or, for the egress scan, one vector grown an argument at a time.        *)
(***************************************************************************)
EXTENDS AuditChain, DaemonControl, AuthRateLimit, ExternalState, WorkspaceSetup, TLC

VARIABLES part, input

Egress == INSTANCE EgressPolicy WITH BlockedIPs <- {<<"ip", "local">>}, PublicIPs <- {<<"ip", "public">>}
Command == INSTANCE CommandPolicy WITH
             Baseline <- {"PATH", "HOME"}, OtherReserved <- {"LD_PRELOAD"}, Shells <- {"sh"}
Launcher == INSTANCE ContainerLaunch WITH
              SocketPath <- <<"run", "sock">>, EnvFilePath <- <<"run", "env">>,
              ValueFlags <- {"--label", "--dns"}, BareFlags <- {"--init"}, RedirectFlags <- {"--dns"}

AllModes == [locked : BOOLEAN, overlap : BOOLEAN]
SetupTokens == <<"t1", "t2">>
SetupKeys == <<"k1", "k2">>
hostVars == <<vars, dvars, rvars, remoteVars, svars, part, input>>
None == [kind |-> "none"]

------------------------------------------------------------------------------
\* The inputs.

Good == <<"com", "good", "www">>
Evil == <<"com", "evil">>
Bare == Egress!Text("bare", Evil, "none")
NoText == Egress!Text("path", <<>>, "none")
EgressTokens ==
  {Egress!Word(t) : t \in {Egress!Text("url", Good, "none"), Bare, NoText,
                           Egress!Text("hostPath", <<"ip", "local">>, "number"), Egress!Text("bare", Good, "word")}}
  \cup [kind : {"long"}, modes : {<<m>> : m \in Egress!FlagModes}, inline : BOOLEAN, text : {Bare}]
  \cup [kind : {"short"}, inline : {FALSE}, text : {NoText},
        modes : {<<m>> : m \in Egress!FlagModes \ {"destination"}}
                \cup {<<"noValue", "takesValue">>, <<"takesValue", "noValue">>, <<"noValue", "noValue">>}]
  \cup {Egress!DashDash}
EgressPolicies == [enabled : {TRUE}, requireIntentMatch : BOOLEAN,
                   allow : SUBSET {<<"com", "good">>, <<"ip", "local">>},
                   intentAllow : [{"i1"} -> {{}, {Evil}}]]
Executables == [name : {"curl", "npm"}, text : {NoText}]
Intents == {"", "i1", "i2"}

DockerTokens == [flag : {TRUE}, name : {"-a", "-f", "-v"}] \cup [flag : {FALSE}, name : {"up", "word"}]
UpTo(S, n) == UNION {[1..k -> S] : k \in 0..n}
DockerPolicy == [subcommands |-> {"ps", "images", "version", "compose"}, verbs |-> {"up"},
                 psFlags |-> {"-a"}, imagesFlags |-> {"-f"}]

\* "link" leads to "two".
Dirs == {"one", "two", "link"}
RealDir == [d \in Dirs |-> IF d = "link" THEN "two" ELSE d]

Values == {"v1", "v2"}
Secrets == [name : {"TOKEN", "HOME", "LD_PRELOAD"}, valid : BOOLEAN, value : Values]

Configs == [profile : {"dev", "hardened", "Hardened"}, local : {TRUE}, legacy : {"", "l"}, agent : {"", "a", "da"},
            operator : {"", "o", "a"}, bridge : {"", "loopback"}, bridgeKey : BOOLEAN, execPolicy : BOOLEAN,
            auth : BOOLEAN, token : {"", "t"}, durable : BOOLEAN, defaultTO : {120}, maxTO : {600}]
Env(set) == [v \in Transport!EnvVars |-> IF v \in DOMAIN set THEN set[v] ELSE ""]
StartEnvs == {Env(set) : set \in [CONFIG : {"here"}, AGENT_SOCK : {"", "ea"}, OPERATOR_SOCK : {"", "eo"},
                                  LEGACY_SOCK : {"", "el"}, BRIDGE : {"", "remote"}, KEY : {"", "k"}, DEV : {"1"}]}
ClientEnvs == {Env(set) : set \in [BROKER_SOCK : {"", "p"}, BROKER_URL : {"", "u"}, AGENT_SOCK : {"", "q"},
                                   OPERATOR_SOCK : {"", "q"}]}
WatchEnvs == {Env(set) : set \in [CONFIG : {"", "here", "other"}, AGENT_SOCK : {"", "ea"}, OPERATOR_SOCK : {"", "eo"},
                                  LEGACY_SOCK : {"", "el"}, KEY : {"", "k"}]}
Hardened == [Transport!Default EXCEPT !.profile = "hardened", !.auth = TRUE, !.token = "t", !.durable = TRUE]
ConfigFiles(here) ==
  ("other" :> [Hardened EXCEPT !.agent = "xa", !.operator = "xo"])
    @@ ("here" :> CASE here = "dual" -> [Hardened EXCEPT !.agent = "ha", !.operator = "ho"]
                    [] here = "plain" -> Hardened
                    [] here = "legacy" -> [Hardened EXCEPT !.legacy = "hl"])
Exports(here, written) ==
  IF written THEN "here" :> (IF here = "dual" THEN [AGENT_SOCK |-> "ha", OPERATOR_SOCK |-> "ho", KEY |-> "kept"]
                             ELSE [KEY |-> "kept"])
  ELSE <<>>
Paths == {"ha", "ho", "hl", "xa", "xo", "ea", "eo", "el", "da", "do"}

\* A workspace with a file and a directory to hide, mounted whole and in part.
Mounts == {[src |-> "repo", dst |-> <<"work">>], [src |-> "deep", dst |-> <<"work", "sub">>],
           [src |-> "repo", dst |-> <<"run">>]}
HostFiles == [p \in {"repo", "deep"} \X {<<>>, <<"sub">>, <<"file">>, <<"sub", "file">>, <<"sock">>} |->
                IF p[2] \in {<<>>, IF p[1] = "repo" THEN <<"sub">> ELSE <<"file">>} THEN "dir"
                ELSE IF p[1] = "repo" THEN "file" ELSE "absent"]
LaunchTokens == [flag : {TRUE}, name : {"--label", "--dns", "--init", "-v"}, inline : BOOLEAN]
                \cup [flag : {FALSE}, name : {"other"}, inline : {FALSE}]
EnvEntries == [name : {"SESSION_TOKEN", "WRAPPER_BROKER_URL", "AGENT_ID", "EDITOR"}, value : {"mine"}]
LaunchOf(socket, alias, envs, args, mounts, hidden) ==
  [token |-> "token", agent |-> "agent", task |-> "task", socket |-> socket, url |-> "url", alias |-> alias,
   envs |-> envs, args |-> args, mounts |-> mounts, hidden |-> hidden]

------------------------------------------------------------------------------
\* The first input of a behaviour decides what the next ones may be.

Draw(kind, x) == input' = [kind |-> kind, x |-> x]

GrowVector ==
  \/ input = None /\ input' = [kind |-> "egress", x |-> <<>>]
  \/ /\ input.kind = "egress" /\ Len(input.x) < 3
     /\ \E t \in EgressTokens : input' = [input EXCEPT !.x = Append(@, t)]

DrawDocker == \E sub \in {"ps", "images", "version", "compose", "run"}, args \in UpTo(DockerTokens, 3) :
  Draw("docker", [sub |-> sub, args |-> args])
DrawSearch == \E dirs \in UpTo(Dirs, 3), entry \in [{"one", "two"} -> {"absent", "executable", "other"}] :
  Draw("search", [dirs |-> dirs, entry |-> entry])
DrawEnvironment ==
  \E ambient \in UpTo([name : {"PATH", "HOME", "TOKEN"}, value : Values], 2), path \in {{}, {"own"}} :
    \E first, second \in Secrets :
      Draw("environment", [ambient |-> ambient, path |-> path, leased |-> {first, second}])
DrawStart == \E c \in {c \in Configs : c.bridge # "" => c.bridgeKey}, e \in StartEnvs :
  Draw("start", [config |-> c, env |-> e, goos |-> goos])
DrawClient ==
  \E e \in ClientEnvs, stat \in [{"p", "q", "da", "do"} -> {"socket", "file", "absent", "unreadable"}],
     setup \in {"", "p"}, role \in {"agent", "operator"}, flags \in [unix : {"", "p"}, url : {"", "v"}] :
    Draw("client", [env |-> e, stat |-> stat, setup |-> setup, role |-> role, flags |-> flags])
DrawWatch ==
  \E workspace \in {"", "here", "other"}, e \in WatchEnvs, here \in {"dual", "plain", "legacy"}, written \in BOOLEAN :
    Draw("watch", [workspace |-> workspace, env |-> e, here |-> here, written |-> written])
DrawLaunch ==
  \/ \E socket, alias \in BOOLEAN, args \in UpTo(LaunchTokens, 3) :
       Draw("launch", LaunchOf(socket, alias, <<>>, args, <<>>, {}))
  \/ \E envs \in UpTo(EnvEntries, 2), mounts \in UpTo(Mounts, 3),
        hidden \in SUBSET {<<"work", "file">>, <<"work", "sub">>, <<"work", "sub", "file">>, <<"run", "sock">>} :
       Draw("launch", LaunchOf(TRUE, FALSE, envs, <<>>, mounts, hidden))
DrawAdapter ==
  \E socket \in BOOLEAN, agent \in {"", "agent"}, kept \in SUBSET Launcher!Vars,
     stale \in SUBSET Launcher!Session :
    Draw("adapter", [cfg |-> [LaunchOf(socket, FALSE, <<>>, <<>>, <<>>, {}) EXCEPT !.agent = agent],
                     kept |-> kept, saved |-> [v \in stale |-> "stale"]])

HostInit ==
  /\ Init /\ DaemonInit /\ LimiterInit /\ ExternalInit /\ SetupInit
  /\ part \in {"audit", "daemon", "limiter", "external", "setup", "decision"} /\ input = None
  /\ part # "daemon" => mode = [locked |-> TRUE, overlap |-> TRUE]
  /\ part \notin {"setup", "decision"} => goos = "linux"
  /\ part # "setup" => configFile = NoFile

HostNext ==
  \/ part = "audit" /\ Next /\ UNCHANGED <<dvars, rvars, remoteVars, svars, part, input>>
  \/ part = "daemon" /\ DaemonNext /\ UNCHANGED <<vars, rvars, remoteVars, svars, part, input>>
  \/ part = "limiter" /\ LimiterNext /\ UNCHANGED <<vars, dvars, remoteVars, svars, part, input>>
  \/ part = "external" /\ ExternalNext /\ UNCHANGED <<vars, dvars, rvars, svars, part, input>>
  \/ part = "setup" /\ SetupNext /\ UNCHANGED <<vars, dvars, rvars, remoteVars, part, input>>
  \/ /\ part = "decision" /\ UNCHANGED <<vars, dvars, rvars, remoteVars, svars, part>>
     /\ \/ GrowVector
        \/ /\ input = None
           /\ \/ DrawDocker \/ DrawSearch \/ DrawEnvironment \/ DrawStart
              \/ DrawClient \/ DrawWatch \/ DrawLaunch \/ DrawAdapter

HostSpec == HostInit /\ [][HostNext]_hostVars

------------------------------------------------------------------------------
\* The egress policy reads every argument vector as its flags say, and lets a
\* command run only towards destinations of its intent that are not of the local
\* network (ValidateNetworkEgress, extractDomains).
EgressSound == input.kind = "egress" =>
  /\ Egress!EgressScanExact(input.x)
  /\ Egress!AcceptedEgress(EgressPolicies, Intents, input.x)
  /\ Egress!NoBlockedDestination(EgressPolicies, Executables, Intents, input.x)

\* What runs is what was allowed: docker with flags and their values, the first
\* file along the search path, an environment in which no secret takes the place
\* of a baseline name (control_plane_policy.go, execution_process.go).
CommandSound ==
  /\ input.kind = "docker" => Command!DockerArgsFlagged(DockerPolicy, input.x.sub, input.x.args)
  /\ input.kind = "search" => Command!FirstEntryDecides(input.x.dirs, RealDir, input.x.entry)
  /\ input.kind = "environment" =>
       Command!LeasedNeverShadows(input.x.ambient, input.x.leased, input.x.path,
                                  {"PATH", "HOME", "TOKEN", "LD_PRELOAD"})

\* A broker that starts keeps the roles of its sockets apart, clients find it and
\* never fall back to TCP unasked, and watch finds the daemon it started
\* (config.go, broker.go, daemon.go).
TransportSound ==
  /\ input.kind = "start" =>
       Transport!RolesApart("here" :> input.x.config, input.x.env, input.x.goos, TRUE)
  /\ input.kind = "client" =>
       Transport!NoSilentTcp(input.x.role, input.x.flags, input.x.setup, input.x.env, input.x.stat)
  /\ input.kind = "watch" =>
       Transport!WatchReachesItsDaemon("", input.x.env, input.x.workspace, ConfigFiles(input.x.here),
                                       Exports(input.x.here, input.x.written), "linux", Paths)

\* docker-run gives the container the session it made and nothing in its place,
\* and the adapter started in it uses that session whatever the client passes on
\* (auth.go, promptlock-mcp-launch).
LaunchSound ==
  /\ input.kind = "launch" => Launcher!LaunchKeepsSession(input.x, HostFiles)
  /\ input.kind = "adapter" => Launcher!AdapterUsesLiveSession(input.x.cfg, input.x.kept, input.x.saved)

\* What runs is what the policy and the lease say, and a client reaches the
\* broker it is meant to, in the session made for it.
PolicySound == EgressSound /\ CommandSound /\ TransportSound /\ LaunchSound
==============================================================================
