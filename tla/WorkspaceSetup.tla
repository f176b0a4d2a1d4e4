---------------------------- MODULE WorkspaceSetup ----------------------------
(***************************************************************************)
(* promptlock setup: the two files of a workspace's instance, what a run   *)
(* makes of files that are already there, and the broker that is started   *)
(* on them by a command that found the instance by itself.                 *)
(*                                                                         *)
(* A run looks for the files in one step.  Of the lines of instance.env    *)
(* only the exports a broker reads are kept.  Token n and key n are those  *)
(* made by the nth run that made some, 0 those of an instance an older     *)
(* release has set up, whose sockets were elsewhere.                       *)
(***************************************************************************)
EXTENDS Naturals, FiniteSets, Sequences, SequencesExt

CONSTANTS Runs,       \* invocations of promptlock setup
          MaxIssued,  \* bound: runs that make a token and a key
          Tokens,     \* the tokens and the keys they make
          Keys

ASSUME SetupAssumption ==
  MaxIssued \in Nat /\ \A n \in 1..MaxIssued : Tokens[n] # "" /\ Keys[n] \notin {"", "none"}

Transport == INSTANCE BrokerTransport WITH
               DefaultAgent <- "da", DefaultOperator <- "do", DefaultURL <- "durl"

VARIABLES
  goos,        \* the operating system
  configFile,  \* config.json: [text, doc], text one of "absent", "empty", "cut", "whole"
  envFile,     \* instance.env: [text, lines], lines of [name, value]
  stores,      \* the files of "audit", "state", "auth" that are there
  storeKey,    \* the key the auth store is encrypted with
  broker,      \* the key the running broker has, or "none"
  runs,        \* per invocation: pc, made (what it issued)
  issued,      \* tokens and keys made so far
  ready,       \* history: an answered setup stands
  spoiled      \* history: instance.env was cut short, or a run's files were changed under it

svars == <<goos, configFile, envFile, stores, storeKey, broker, runs, issued, ready, spoiled>>

NoFile == [text |-> "absent"]
Export(name, value) == [name |-> name, value |-> value]

------------------------------------------------------------------------------
\* What the files say.

buildWorkspaceSetupLayout(os) == [agent |-> "na", operator |-> "no", bridge |-> Transport!DefaultBridge(os)]
OldLayout == [agent |-> "xa", operator |-> "xo", bridge |-> "loopback"]

buildWorkspaceSetupConfig(layout, token) ==
  [text |-> "whole",
   doc |-> [profile |-> "hardened", local |-> TRUE, legacy |-> "", agent |-> layout.agent,
            operator |-> layout.operator, bridge |-> layout.bridge, bridgeKey |-> layout.bridge # "",
            execPolicy |-> TRUE, auth |-> TRUE, token |-> token, durable |-> TRUE, defaultTO |-> 120, maxTO |-> 600]]

WithBridge(lines, layout) == IF layout.bridge = "" THEN lines ELSE Append(lines, Export("BRIDGE", layout.bridge))
desiredWorkspaceSetupPathExports(layout) ==
  WithBridge(<<Export("CONFIG", "config"), Export("AGENT_SOCK", layout.agent),
               Export("OPERATOR_SOCK", layout.operator)>>, layout)
buildWorkspaceSetupEnvFile(layout, token, key) ==
  [text |-> "whole",
   lines |-> WithBridge(<<Export("CONFIG", "config"), Export("AGENT_SOCK", layout.agent),
                          Export("OPERATOR_SOCK", layout.operator), Export("TOKEN", token),
                          Export("KEY", key)>>, layout)]

Managed == {"CONFIG", "AGENT_SOCK", "OPERATOR_SOCK", "BRIDGE"}
NamesOf(lines) == {line.name : line \in ToSet(lines)}
ValueIn(lines, name) == (CHOOSE line \in ToSet(lines) : line.name = name).value

\* The managed lines get the wanted value or go, the others stay, and what is
\* missing is added at the end.
syncSetupExportLines(lines, exports) ==
  LET wanted == NamesOf(exports)
      Synced(line) == IF line.name \in wanted THEN Export(line.name, ValueIn(exports, line.name)) ELSE line
      filtered[i \in 0..Len(lines)] ==
        IF i = 0 THEN <<>>
        ELSE IF lines[i].name \in Managed \ wanted THEN filtered[i - 1]
        ELSE Append(filtered[i - 1], Synced(lines[i]))
      added[i \in 0..Len(exports)] ==
        IF i = 0 THEN filtered[Len(lines)]
        ELSE IF exports[i].name \in NamesOf(lines) THEN added[i - 1]
        ELSE Append(added[i - 1], exports[i])
  IN added[Len(exports)]

\* An instance.env that was not written to its end: some of its lines, the last
\* perhaps with a shorter value.
CutShort(lines) ==
  {[text |-> "cut", lines |-> SubSeq(lines, 1, n)] : n \in 0..Len(lines) - 1}
  \cup {[text |-> "cut", lines |-> [SubSeq(lines, 1, n) EXCEPT ![n].value = "cut"]] : n \in 1..Len(lines)}

\* os.WriteFile truncates, then writes: what a write that fails, or a process
\* that stops in it, may leave.
TornConfig(before) == {before, [text |-> "empty"], [text |-> "cut"]}

------------------------------------------------------------------------------
\* Runs.

SetupInit ==
  /\ goos \in {"linux", "darwin"}
  /\ \/ configFile = NoFile /\ envFile = NoFile
     \/ /\ configFile = buildWorkspaceSetupConfig(OldLayout, "t0")
        /\ envFile = buildWorkspaceSetupEnvFile(OldLayout, "t0", "k0")
  /\ stores = {} /\ storeKey = "none" /\ broker = "none"
  /\ runs = [r \in Runs |-> [pc |-> "none", made |-> 0]]
  /\ issued = 0 /\ ready = FALSE /\ spoiled = FALSE

Writing == {"config", "env", "refresh", "refreshEnv"}
Leads(r, pc) == runs' = [runs EXCEPT ![r].pc = pc]

otherStateExists_Ignored == FALSE
otherStateExists == stores # {}

ensureWorkspaceSetup(r) ==
  LET there == {configFile.text # "absent", envFile.text # "absent"} IN
  /\ runs[r].pc \notin Writing
  /\ IF there = {TRUE} THEN Leads(r, "refresh") /\ UNCHANGED <<issued, spoiled>>
     ELSE IF TRUE \in there \/ otherStateExists THEN Leads(r, "refused") /\ UNCHANGED <<issued, spoiled>>
     ELSE /\ issued < MaxIssued
          /\ issued' = issued + 1
          /\ runs' = [runs EXCEPT ![r] = [pc |-> "config", made |-> issued + 1]]
          /\ spoiled' = (spoiled \/ \E q \in Runs \ {r} : runs[q].pc \in Writing)
  /\ UNCHANGED <<goos, configFile, envFile, stores, storeKey, broker, ready>>

\* A run that could not write ends with an error, one that was stopped with none.
WriteConfig(r) ==
  /\ runs[r].pc = "config"
  /\ \/ configFile' = buildWorkspaceSetupConfig(buildWorkspaceSetupLayout(goos), Tokens[runs[r].made])
        /\ Leads(r, "env") /\ UNCHANGED ready
     \/ configFile' \in TornConfig(configFile) /\ Leads(r, "failed") /\ ready' = FALSE
  /\ UNCHANGED <<goos, envFile, stores, storeKey, broker, issued, spoiled>>

WriteEnv(r, pc, body) ==
  /\ runs[r].pc = pc
  /\ \/ envFile' = body /\ Leads(r, "ready") /\ ready' = TRUE /\ UNCHANGED spoiled
     \/ envFile' \in CutShort(body.lines) /\ Leads(r, "failed") /\ ready' = FALSE /\ spoiled' = TRUE
     \/ UNCHANGED <<envFile, spoiled>> /\ Leads(r, "failed") /\ ready' = FALSE
  /\ UNCHANGED <<goos, configFile, stores, storeKey, broker, issued>>
WriteNewEnv(r) ==
  WriteEnv(r, "env", buildWorkspaceSetupEnvFile(buildWorkspaceSetupLayout(goos), Tokens[runs[r].made], Keys[runs[r].made]))

refreshWorkspaceSetupConfigPaths(r) ==
  LET l == buildWorkspaceSetupLayout(goos)
      fresh == [configFile EXCEPT !.doc = [@ EXCEPT !.agent = l.agent, !.operator = l.operator,
                                                    !.bridge = l.bridge, !.bridgeKey = l.bridge # ""]]
  IN /\ runs[r].pc = "refresh"
     /\ \/ configFile.text = "whole" /\ configFile' = fresh /\ Leads(r, "refreshEnv") /\ UNCHANGED ready
        \/ /\ configFile.text = "whole" /\ configFile # fresh
           /\ configFile' \in TornConfig(configFile) /\ Leads(r, "failed") /\ ready' = FALSE
        \/ configFile.text # "whole" /\ Leads(r, "failed") /\ UNCHANGED <<configFile, ready>>
     /\ UNCHANGED <<goos, envFile, stores, storeKey, broker, issued, spoiled>>

RefreshedEnv_Kept(layout) == envFile
RefreshedEnv(layout) ==
  [envFile EXCEPT !.lines = syncSetupExportLines(envFile.lines, desiredWorkspaceSetupPathExports(layout))]
refreshWorkspaceSetupEnvPaths(r) ==
  LET fresh == RefreshedEnv(buildWorkspaceSetupLayout(goos)) IN
  /\ runs[r].pc = "refreshEnv"
  /\ \/ envFile.text = "absent" /\ Leads(r, "failed") /\ UNCHANGED <<envFile, ready, spoiled>>
     \/ /\ envFile.text # "absent" /\ fresh = envFile /\ Leads(r, "ready") /\ ready' = TRUE
        /\ UNCHANGED <<envFile, spoiled>>
     \/ /\ envFile.text # "absent" /\ fresh # envFile
        /\ \/ envFile' = fresh /\ Leads(r, "ready") /\ ready' = TRUE /\ UNCHANGED spoiled
           \/ envFile' \in CutShort(fresh.lines) /\ Leads(r, "failed") /\ ready' = FALSE /\ spoiled' = TRUE
           \/ UNCHANGED <<envFile, spoiled>> /\ Leads(r, "failed") /\ ready' = FALSE
  /\ UNCHANGED <<goos, configFile, stores, storeKey, broker, issued>>

------------------------------------------------------------------------------
\* The broker and the user.

\* promptlock daemon start with nothing set in its environment.  A file that is
\* empty counts as none, one that is cut is an error.
Blank == [v \in Transport!EnvVars |-> ""]
Detected == IF "absent" \in {configFile.text, envFile.text} THEN "" ELSE "config"
Files == IF configFile.text = "whole" THEN [p \in {"config"} |-> configFile.doc] ELSE <<>>
loadWorkspaceSetupEnvExports == [v \in NamesOf(envFile.lines) |-> ValueIn(envFile.lines, v)]
BrokerEnv == Transport!daemonEnv("", Blank, Detected,
               IF envFile.text = "absent" THEN <<>> ELSE [p \in {"config"} |-> loadWorkspaceSetupEnvExports])
Served == IF configFile.text = "cut" THEN {} ELSE Transport!Start(Files, BrokerEnv, goos, FALSE)

\* The audit file is opened before the profile is checked.
StartBroker ==
  /\ broker = "none" /\ Detected # "" /\ configFile.text = "whole"
  /\ stores' = IF Transport!validateSocketConfig(Transport!applyEnvOverrides(configFile.doc, BrokerEnv))
               THEN stores \cup {"audit"} ELSE stores
  /\ broker' = IF Served = {} \/ ("auth" \in stores /\ storeKey # BrokerEnv["KEY"]) THEN "none" ELSE BrokerEnv["KEY"]
  /\ UNCHANGED <<goos, configFile, envFile, storeKey, runs, issued, ready, spoiled>>

Persist ==
  /\ broker # "none"
  /\ \/ stores' = stores \cup {"state"} /\ UNCHANGED storeKey
     \/ stores' = stores \cup {"auth"} /\ storeKey' = broker
  /\ UNCHANGED <<goos, configFile, envFile, broker, runs, issued, ready, spoiled>>

StopBroker ==
  /\ broker # "none" /\ broker' = "none"
  /\ UNCHANGED <<goos, configFile, envFile, stores, storeKey, runs, issued, ready, spoiled>>

\* The user clears away some of an instance no broker runs on.
RemoveFile ==
  /\ broker = "none"
  /\ \/ /\ configFile.text # "absent" /\ configFile' = NoFile /\ ready' = FALSE
        /\ UNCHANGED <<envFile, stores, storeKey>>
     \/ /\ envFile.text # "absent" /\ envFile' = NoFile /\ ready' = FALSE
        /\ UNCHANGED <<configFile, stores, storeKey>>
     \/ \E f \in stores : /\ stores' = stores \ {f} /\ storeKey' = IF f = "auth" THEN "none" ELSE storeKey
                          /\ UNCHANGED <<configFile, envFile, ready>>
  /\ spoiled' = (spoiled \/ \E r \in Runs : runs[r].pc \in Writing)
  /\ UNCHANGED <<goos, broker, runs, issued>>

SetupNext ==
  \/ \E r \in Runs : \/ ensureWorkspaceSetup(r) \/ WriteConfig(r) \/ WriteNewEnv(r)
                     \/ refreshWorkspaceSetupConfigPaths(r) \/ refreshWorkspaceSetupEnvPaths(r)
  \/ StartBroker \/ Persist \/ StopBroker \/ RemoveFile

SetupSpec == SetupInit /\ [][SetupNext]_svars

------------------------------------------------------------------------------
\* Once setup has said the quickstart is ready, the broker started there passes
\* its checks, can read the auth store that is there, and serves the operator
\* where watch looks and with the token watch sends; at no time does a run put a
\* new key beside an auth store encrypted with another, and whatever was cut short
\* no broker writes its auth store without a key (ensureWorkspaceSetup,
\* refreshExistingWorkspaceSetupPaths, daemonEnv, validateDeploymentMode).
SetupSound ==
  LET noFlags == [unix |-> "", url |-> ""]
      socket == Transport!workspaceSetupBrokerSocket("operator", Files, Blank, Detected, goos)
      found == Transport!resolveBrokerSelection("operator", noFlags, socket, Blank,
                 Transport!StatOf(Served, {"na", "no", "xa", "xo", "da", "do"}))
      token == Transport!applyEnvOverrides(configFile.doc, BrokerEnv).token
  IN /\ ready /\ ~spoiled =>
          /\ [role |-> "operator", transport |-> found] \in Served
          /\ token = Transport!defaultOperatorToken(Files, Blank, Detected, goos)
     /\ ~spoiled /\ "auth" \in stores /\ envFile.text = "whole" => BrokerEnv["KEY"] \in {"", storeKey}
     /\ "auth" \in stores => storeKey # ""
==============================================================================
