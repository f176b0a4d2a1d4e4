--------------------------- MODULE ContainerLaunch ----------------------------
(***************************************************************************)
(* promptlock auth docker-run and what becomes of the session it makes:    *)
(* the docker command line, the environment and the files of the           *)
(* container, the MCP launcher and the adapter in it.                      *)
(*                                                                         *)
(* A container path is the sequence of its components.  A token of the     *)
(* docker command line is a flag with or without a value of its own, or a  *)
(* word.  A variable that is not set is "".                                *)
(***************************************************************************)
EXTENDS Naturals, FiniteSets, Sequences, SequencesExt

CONSTANTS SocketPath, EnvFilePath,  \* the two paths the wrapper keeps for itself
          ValueFlags, BareFlags,    \* allowed docker flags that want a value, and that do not
          RedirectFlags             \* those that can change what a host name means

Session == {"SESSION_TOKEN", "UNIX_SOCKET", "BROKER_URL"}
Plain == Session \cup {"AGENT_ID", "TASK_ID"}
Wrapper(v) ==
  CASE v = "SESSION_TOKEN" -> "WRAPPER_SESSION_TOKEN" [] v = "UNIX_SOCKET" -> "WRAPPER_UNIX_SOCKET"
    [] v = "BROKER_URL" -> "WRAPPER_BROKER_URL" [] v = "AGENT_ID" -> "WRAPPER_AGENT_ID"
    [] v = "TASK_ID" -> "WRAPPER_TASK_ID"
Vars == Plain \cup {Wrapper(v) : v \in Plain}
firstNonEmpty(a, b) == IF a # "" THEN a ELSE b

\* cfg has token, agent, task, socket (is the transport a Unix socket), url,
\* alias (does the url name the host by its alias), envs, args, mounts (of type
\* bind) and hidden.
Transport(cfg, v) ==
  CASE v = "UNIX_SOCKET" -> IF cfg.socket THEN "socket" ELSE ""
    [] v = "BROKER_URL" -> IF cfg.socket THEN "" ELSE cfg.url
Identity(cfg, v) ==
  CASE v = "SESSION_TOKEN" -> cfg.token [] v = "AGENT_ID" -> cfg.agent [] v = "TASK_ID" -> cfg.task
Live(cfg, v) == IF v \in {"UNIX_SOCKET", "BROKER_URL"} THEN Transport(cfg, v) ELSE Identity(cfg, v)

-----------------------------------------------------------------------------
\* The docker command line.

protectedDockerEnvVars == Session \cup {Wrapper(v) : v \in Session}
validateAdditionalDockerEnvs(cfg) ==
  \A i \in DOMAIN cfg.envs : cfg.envs[i].name # "" /\ cfg.envs[i].name \notin protectedDockerEnvVars

\* An allowed flag that wants a value takes the next word; nothing may be left
\* wanting, and there is no other word.
validateAdditionalDockerArgs_Open(cfg) ==
  \A i \in DOMAIN cfg.args : cfg.args[i].flag => cfg.args[i].name \in ValueFlags \cup BareFlags
validateAdditionalDockerArgs(cfg) ==
  LET n == Len(cfg.args)
      Wants(i) == cfg.args[i].name \in ValueFlags /\ ~cfg.args[i].inline
      Allowed(i) == /\ cfg.args[i].flag /\ cfg.args[i].name \in ValueFlags \cup BareFlags
                    /\ ~(cfg.alias /\ ~cfg.socket /\ cfg.args[i].name \in RedirectFlags)
      ok[i \in 1..(n + 2)] ==
        IF i > n THEN i = n + 1
        ELSE Allowed(i) /\ IF Wants(i) THEN (i < n => ~cfg.args[i + 1].flag) /\ ok[i + 2] ELSE ok[i + 1]
  IN ok[1]

\* The root holds nothing but itself.
dockerContainerPathContains(parent, child) == parent = child \/ (parent # <<>> /\ IsPrefix(parent, child))
dockerContainerPathsOverlap(a, b) == dockerContainerPathContains(a, b) \/ dockerContainerPathContains(b, a)
dockerProtectedTargetOverlap(path) == \E p \in {SocketPath, EnvFilePath} : dockerContainerPathsOverlap(path, p)

validateAdditionalDockerMounts(cfg) ==
  \A i \in DOMAIN cfg.mounts : ~dockerProtectedTargetOverlap(cfg.mounts[i].dst)
validateHiddenDockerMounts(hidden) == \A m \in hidden : ~dockerProtectedTargetOverlap(m.dst)

\* The host file under a container path is found by the deepest bind mount that
\* holds it; Host gives what a path below a mount's source is: "dir", "file" or
\* "absent".
dockerHiddenHostTarget_First(cfg, path, Host) ==
  LET holds == {i \in DOMAIN cfg.mounts : dockerContainerPathContains(cfg.mounts[i].dst, path)} IN
  IF holds = {} THEN "absent"
  ELSE LET i == CHOOSE i \in holds : \A j \in holds : i <= j IN
       Host[<<cfg.mounts[i].src, SubSeq(path, Len(cfg.mounts[i].dst) + 1, Len(path))>>]
dockerHiddenHostTarget(cfg, path, Host) ==
  LET holds == {i \in DOMAIN cfg.mounts : dockerContainerPathContains(cfg.mounts[i].dst, path)}
      Deeper(i, j) == Len(cfg.mounts[i].dst) > Len(cfg.mounts[j].dst)
  IN IF holds = {} THEN "absent"
     ELSE LET i == CHOOSE i \in holds : \A j \in holds : ~Deeper(j, i) /\ (j < i => Deeper(i, j)) IN
          Host[<<cfg.mounts[i].src, SubSeq(path, Len(cfg.mounts[i].dst) + 1, Len(path))>>]

\* A placeholder of the same kind for every path to hide, or a refusal.
prepareDockerRunHiddenMounts(cfg, Host) ==
  IF \E h \in cfg.hidden : dockerProtectedTargetOverlap(h) \/ dockerHiddenHostTarget(cfg, h, Host) = "absent"
  THEN [ok |-> FALSE, mounts |-> {}]
  ELSE [ok |-> TRUE, mounts |-> {[dst |-> h, kind |-> dockerHiddenHostTarget(cfg, h, Host)] : h \in cfg.hidden}]

validateDockerRunSecurity(cfg, hidden) ==
  /\ validateAdditionalDockerEnvs(cfg) /\ validateAdditionalDockerArgs(cfg)
  /\ validateAdditionalDockerMounts(cfg) /\ validateHiddenDockerMounts(hidden)

\* The words after the wrapper's own flags, and the variables docker is given.
buildDockerRunArgs(cfg) == cfg.args \o <<[flag |-> FALSE, name |-> "image", inline |-> FALSE]>>
buildDockerRunEnv(cfg) ==
  [v \in Vars |->
     IF \E i \in DOMAIN cfg.envs : cfg.envs[i].name = v
     THEN cfg.envs[CHOOSE i \in DOMAIN cfg.envs :
                     cfg.envs[i].name = v /\ \A j \in DOMAIN cfg.envs : cfg.envs[j].name = v => j <= i].value
     ELSE IF v \in Session THEN Live(cfg, v)
     ELSE IF v \in {Wrapper(w) : w \in Plain}
          THEN Live(cfg, CHOOSE w \in Plain : Wrapper(w) = v) ELSE ""]

\* The file mounted at EnvFilePath.
writeDockerRunWrapperMCPEnvFile(cfg) ==
  [v \in Vars |-> Live(cfg, IF v \in Plain THEN v ELSE CHOOSE w \in Plain : Wrapper(w) = v)]

-----------------------------------------------------------------------------
\* The launcher and the adapter.

\* What the environment has wins over the file.
mergeWrapperEnvFile_Skip(env, file) == env
mergeWrapperEnvFile(env, file) == [v \in Vars |-> firstNonEmpty(env[v], file[v])]

NotLaunched == [v \in Vars |-> "error"]
normalizedLaunchEnv(env, file) ==
  LET e == mergeWrapperEnvFile(env, file)
      Pick(v) == firstNonEmpty(e[Wrapper(v)], e[v])
  IN IF Pick("SESSION_TOKEN") = "" \/ (Pick("UNIX_SOCKET") = "" /\ Pick("BROKER_URL") = "") THEN NotLaunched
     ELSE [v \in Vars |->
             CASE v \in Session -> Pick(v)
               [] v = "AGENT_ID" -> firstNonEmpty(e[v], e[Wrapper(v)])
               [] v = "TASK_ID" -> firstNonEmpty(e[v], firstNonEmpty(e[Wrapper(v)], "mcp-task"))
               [] OTHER -> e[v]]

effectiveEnv(env, v) ==
  IF v \in Session THEN firstNonEmpty(env[Wrapper(v)], env[v]) ELSE firstNonEmpty(env[v], env[Wrapper(v)])

\* The adapter's transport: the socket when its path is there, or the address.
AdapterTransport(env, there) ==
  IF effectiveEnv(env, "UNIX_SOCKET") \in there THEN effectiveEnv(env, "UNIX_SOCKET")
  ELSE effectiveEnv(env, "BROKER_URL")

-----------------------------------------------------------------------------
\* What docker makes of the words: a flag that wants a value takes the next one,
\* the first word left over is the image.
Image(words) ==
  LET image[i \in 1..(Len(words) + 2)] ==
        IF i > Len(words) THEN "none"
        ELSE IF ~words[i].flag THEN words[i].name
        ELSE image[IF words[i].name \in ValueFlags /\ ~words[i].inline THEN i + 2 ELSE i + 1]
  IN image[1]

\* An accepted docker-run runs the image it was given, hides what it was asked to
\* hide under a placeholder of the kind the container would see there, and leaves
\* the session's variables and the wrapper's two paths as the wrapper set them
\* (validateDockerRunSecurity, buildDockerRunArgs, prepareDockerRunHiddenMounts).
LaunchKeepsSession(cfg, Host) ==
  LET hide == prepareDockerRunHiddenMounts(cfg, Host) IN
  hide.ok /\ validateDockerRunSecurity(cfg, hide.mounts) =>
    /\ Image(buildDockerRunArgs(cfg)) = "image"
    /\ \A v \in protectedDockerEnvVars :
         buildDockerRunEnv(cfg)[v] = writeDockerRunWrapperMCPEnvFile(cfg)[v]
    /\ \A h \in cfg.hidden : \E m \in hide.mounts :
         /\ m.dst = h
         /\ \E i \in DOMAIN cfg.mounts :
              /\ IsPrefix(cfg.mounts[i].dst, h)
              /\ \A j \in DOMAIN cfg.mounts :
                   IsPrefix(cfg.mounts[j].dst, h) => Len(cfg.mounts[j].dst) <= Len(cfg.mounts[i].dst)
              /\ m.kind = Host[<<cfg.mounts[i].src, SubSeq(h, Len(cfg.mounts[i].dst) + 1, Len(h))>>]

\* An MCP client in the container keeps some of its variables, or none, and may
\* set the session's own to what it saved in an earlier container: the adapter it
\* starts through the launcher uses the session of this one
\* (normalizedLaunchEnv, mergeWrapperEnvFile, CHANGELOG.md:33).
AdapterUsesLiveSession(cfg, kept, saved) ==
  LET client == [v \in Vars |-> IF v \in DOMAIN saved THEN saved[v]
                                ELSE IF v \in kept THEN buildDockerRunEnv(cfg)[v] ELSE ""]
      env == normalizedLaunchEnv(client, writeDockerRunWrapperMCPEnvFile(cfg))
  IN /\ effectiveEnv(env, "SESSION_TOKEN") = cfg.token
     /\ AdapterTransport(env, IF cfg.socket THEN {"socket"} ELSE {}) = IF cfg.socket THEN "socket" ELSE cfg.url
==============================================================================
