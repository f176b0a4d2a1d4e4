---------------------------- MODULE CommandPolicy -----------------------------
(***************************************************************************)
(* What may run and how: the execution policy, the docker policy, the      *)
(* search for the executable, the environment it gets, and its limits.     *)
(*                                                                         *)
(* A search path is a sequence of directories; Real gives the directory a  *)
(* name stands for once its links are followed (names that differ only in  *)
(* case stand for one), and Entry what a directory has under the name of   *)
(* the executable.                                                         *)
(***************************************************************************)
EXTENDS Naturals, Integers, FiniteSets, Sequences, SequencesExt

CONSTANTS Baseline,       \* executionBaselineEnvAllowlist
          OtherReserved,  \* the reserved names that are not in it
          Shells          \* bash, sh, zsh

PathVar == "PATH"

-----------------------------------------------------------------------------
\* The command line.  cmd0 is the spelling of the executable, identity its
\* base name in lower case.

ValidateExecuteCommand(allowed, identity, denied) == identity # "" /\ identity \in allowed /\ ~denied

ValidateExecuteRequest(profile, allowed, req) ==
  /\ profile = "hardened" => req.intent # "" /\ req.cmd0 \notin Shells
  /\ ValidateExecuteCommand(allowed, req.identity, req.denied)

\* Docker flags (an empty argument is left out): an allowed flag takes the next argument unless that is a flag
\* too; no other positional argument is accepted.
validateFlags_Positional(args, allow) ==
  \A i \in DOMAIN args : args[i].flag => args[i].name \in allow
validateFlags(args, allow) ==
  LET n == Len(args)
      ok[i \in 1..(n + 2)] ==
        i > n \/ /\ args[i].flag /\ args[i].name \in allow
                 /\ ok[IF i < n /\ ~args[i + 1].flag THEN i + 2 ELSE i + 1]
  IN ok[1]

ComposeFlags == {"--project-name", "-p", "--file", "-f", "--profiles", "--profile", "--ansi", "--progress"}

ValidateHostDockerCommand(p, sub, args, denied) ==
  /\ sub \in p.subcommands /\ ~denied
  /\ CASE sub = "version" -> args = <<>>
       [] sub = "ps" -> validateFlags(args, p.psFlags)
       [] sub = "images" -> validateFlags(args, p.imagesFlags)
       [] sub = "compose" -> /\ args # <<>>
                             /\ args[1].name \in p.verbs
                             /\ validateFlags(Tail(args), ComposeFlags)
       [] OTHER -> TRUE

-----------------------------------------------------------------------------
\* The executable.

\* Links followed, duplicates dropped, order kept.
normalizedSearchRoots(dirs, Real) ==
  LET out[i \in 0..Len(dirs)] ==
        IF i = 0 THEN <<>>
        ELSE IF Real[dirs[i]] \in ToSet(out[i - 1]) THEN out[i - 1]
        ELSE Append(out[i - 1], Real[dirs[i]])
  IN out[Len(dirs)]

Roots(dirs, defaults, Real) ==
  IF dirs = <<>> THEN normalizedSearchRoots(defaults, Real) ELSE normalizedSearchRoots(dirs, Real)

NotResolved == "error"

\* The path is cleaned but its own links are not followed before this test.
resolveTrustedExecutablePath(dir, roots, Entry) ==
  IF dir \in ToSet(roots) /\ Entry[dir] = "executable" THEN dir ELSE NotResolved

resolveExecutablePath_LookPath(roots, Entry) ==
  IF \E i \in DOMAIN roots : Entry[roots[i]] = "executable"
  THEN roots[CHOOSE i \in DOMAIN roots : Entry[roots[i]] = "executable"
                /\ \A j \in 1..(i - 1) : Entry[roots[j]] # "executable"]
  ELSE NotResolved

\* The first directory that has an entry of that name decides, whatever it is.
resolveExecutablePath(roots, Entry) ==
  LET has == {i \in DOMAIN roots : Entry[roots[i]] # "absent"} IN
  IF has = {} THEN NotResolved
  ELSE resolveTrustedExecutablePath(roots[CHOOSE i \in has : \A j \in has : i <= j], roots, Entry)

\* dir is where a command with a path points, or "" for a bare name.
ResolveExecutionCommand(dir, dirs, defaults, Real, Entry) ==
  LET roots == Roots(dirs, defaults, Real) IN
  IF roots = <<>> THEN NotResolved
  ELSE IF dir # "" THEN resolveTrustedExecutablePath(dir, roots, Entry)
  ELSE resolveExecutablePath(roots, Entry)

-----------------------------------------------------------------------------
\* The environment.  A name is spelled in some case; its canonical form is what
\* names are compared by.

Reserved_NoBaseline == OtherReserved
Reserved == Baseline \cup OtherReserved

\* The secrets a request may name: reserved names are refused, however spelled.
validateSecretName(secret) == secret.valid /\ secret.name \notin Reserved

\* The last ambient entry of a name wins; the broker's own PATH replaces it.
Ambient(ambient, name) ==
  LET at == {i \in DOMAIN ambient : ambient[i].name = name} IN
  IF at = {} THEN {} ELSE {ambient[CHOOSE i \in at : \A j \in at : j <= i].value}

BaselineEntries(ambient, path) ==
  {e \in Baseline \X UNION {Ambient(ambient, m) \cup path : m \in Baseline} :
     e[2] \in IF e[1] = PathVar /\ path # {} THEN path ELSE Ambient(ambient, e[1])}

\* Two spellings of one name: the map's order decides which value both get.
SecretEntries(leased) ==
  LET names == {s.name : s \in {l \in leased : l.valid}} IN
  {{<<n, win[n]>> : n \in names} :
     win \in {w \in [names -> {s.value : s \in leased}] :
                \A n \in names : \E s \in leased : s.valid /\ s.name = n /\ s.value = w[n]}}

\* The environments the code may build: entries, the secrets after the rest.
BuildExecutionEnvironment(ambient, leased, path) ==
  {[base |-> BaselineEntries(ambient, path), secrets |-> e] : e \in SecretEntries(leased)}

\* What the process sees: of two entries of a name, the last.
Seen(env, name) ==
  LET own == {e[2] : e \in {x \in env.secrets : x[1] = name}} IN
  IF own # {} THEN own ELSE {e[2] : e \in {x \in env.base : x[1] = name}}

-----------------------------------------------------------------------------
\* Limits.

ApplyOutputSecurity(mode) == CASE mode = "none" -> "nothing" [] mode = "raw" -> "raw" [] OTHER -> "redacted"

ClampTimeout(p, requested) ==
  LET t == IF requested <= 0 THEN p.defaultTO ELSE requested IN IF t > p.maxTO THEN p.maxTO ELSE t

-----------------------------------------------------------------------------
\* What an accepted docker vector has besides allowed flags is one value behind
\* a flag, never an operand of its own (validateFlags, ValidateHostDockerCommand).
DockerArgsFlagged(p, sub, args) ==
  ValidateHostDockerCommand(p, sub, args, FALSE) =>
    LET rest == IF sub = "compose" THEN Tail(args) ELSE args
        allow == CASE sub = "ps" -> p.psFlags [] sub = "images" -> p.imagesFlags
                   [] sub = "compose" -> ComposeFlags [] OTHER -> {}
    IN /\ sub = "compose" => args[1].name \in p.verbs
       /\ \A i \in DOMAIN rest : IF rest[i].flag THEN rest[i].name \in allow
                                  ELSE i > 1 /\ rest[i - 1].flag

\* What runs for a bare name is the first file of that name along the configured
\* search path, and it can run: no directory is passed over for a file it has
\* that cannot (resolveExecutablePath, docs/operations/CONFIG.md).
FirstEntryDecides(dirs, Real, Entry) ==
  LET found == ResolveExecutionCommand("", dirs, <<>>, Real, Entry) IN
  found # NotResolved =>
    \E i \in DOMAIN dirs :
      /\ Real[dirs[i]] = found /\ Entry[found] = "executable"
      /\ \A j \in 1..(i - 1) : Entry[Real[dirs[j]]] = "absent"

\* The process sees one value of every name: the secret's for the name of a
\* secret a request may ask for, the broker's search path for PATH, the last
\* ambient value for the other baseline names, and nothing else; no accepted
\* secret takes a baseline name (BuildExecutionEnvironmentWithPathOverride,
\* IsReservedSecretEnvName).
LeasedNeverShadows(ambient, leased, path, names) ==
  (\A s \in leased : validateSecretName(s)) =>
    \A env \in BuildExecutionEnvironment(ambient, leased, path), n \in names :
      LET own == {s \in leased : s.name = n} IN
      IF own # {} THEN n \notin Baseline /\ \E s \in own : Seen(env, n) = {s.value}
      ELSE IF n = PathVar /\ path # {} THEN Seen(env, n) = path
      ELSE IF n \in Baseline THEN Seen(env, n) = Ambient(ambient, n)
      ELSE Seen(env, n) = {}
==============================================================================
