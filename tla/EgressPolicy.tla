----------------------------- MODULE EgressPolicy -----------------------------
(***************************************************************************)
(* The network egress policy: which destinations the broker finds in an    *)
(* argument vector, and whether it lets the command run with them.         *)
(*                                                                         *)
(* A host is its sequence of labels, the top one first.  A text is what    *)
(* the code tells apart of an argument's spelling; a token is an argument  *)
(* after the executable.  The flags of a client are known by the mode its  *)
(* table gives them.                                                       *)
(***************************************************************************)
EXTENDS Naturals, FiniteSets, Sequences, SequencesExt

CONSTANTS BlockedIPs,    \* loopback, private and link-local addresses
          PublicIPs

NoHost == <<>>

IPs == BlockedIPs \cup PublicIPs
Forms == {"url", "hostPath", "bare", "path"}
Ports == {"none", "number", "word"}
Text(form, host, port) == [form |-> form, host |-> host, port |-> port]

FlagModes == {"noValue", "takesValue", "destination", "opaque", "unclassified"}

\* The modes each client's table has; a flag it does not list is unclassified.
LongModes == [curl |-> FlagModes, wget |-> FlagModes \ {"destination"},
              fetch |-> {"noValue", "unclassified"}]
ShortModes == [curl |-> FlagModes \ {"destination"}, wget |-> FlagModes \ {"destination"},
               fetch |-> {"noValue", "takesValue", "unclassified"}]
directNetworkClients == DOMAIN LongModes

Word(text) == [kind |-> "word", modes |-> <<>>, inline |-> FALSE, text |-> text]
DashDash == [kind |-> "dashdash", modes |-> <<>>, inline |-> FALSE, text |-> Text("path", NoHost, "none")]

-----------------------------------------------------------------------------
\* The host a text names, or NoHost.

normalizeDomainHost(host, port) ==
  IF port # "word" /\ (host \in IPs \/ Len(host) > 1) THEN host ELSE NoHost

extractDomainHost(text) ==
  IF text.form = "path" THEN NoHost ELSE normalizeDomainHost(text.host, text.port)

\* A flag read as a value: only one with a bare host after "=" has a dot and no
\* slash, and it keeps its prefix.
Whole(token) ==
  LET h == extractDomainHost(token.text) IN
  IF token.kind = "word" THEN h
  ELSE IF token.text.form # "bare" \/ token.text.port = "word" \/ Len(token.text.host) < 2 THEN NoHost
  ELSE [token.text.host EXCEPT ![Len(token.text.host)] = "flag"]

looksLikeFlag(token) == token.kind # "word"

-----------------------------------------------------------------------------
\* One argument, given the one after it.

\* In a cluster the first flag that is not a plain one decides, and what
\* follows it in the cluster is its value.
Deciding(modes) ==
  LET other == {k \in DOMAIN modes : modes[k] # "noValue"} IN
  IF other = {} THEN Len(modes) ELSE CHOOSE k \in other : \A j \in other : k <= j

Mode(token) == IF token.modes = <<>> THEN "none" ELSE token.modes[Deciding(token.modes)]
HasInline(token) ==
  IF token.kind = "short" THEN token.inline \/ Deciding(token.modes) < Len(token.modes)
  ELSE token.inline

consumeShortFlagToken_Eager(args, i) ==
  i < Len(args) /\ ~HasInline(args[i])
    /\ Mode(args[i]) \in {"takesValue", "destination", "opaque", "unclassified"}
consumeShortFlagToken(args, i) ==
  /\ i < Len(args) /\ ~HasInline(args[i])
  /\ \/ Mode(args[i]) \in {"takesValue", "destination", "opaque"}
     \/ Mode(args[i]) = "unclassified" /\ ~looksLikeFlag(args[i + 1])

HostsOf(candidates) == {Whole(c) : c \in candidates} \ {NoHost}

extractDirectClientDomains(args) ==
  LET n == Len(args)
      scan[i \in 1..(n + 2)] ==
        IF i > n THEN [domains |-> {}, unsafe |-> FALSE]
        ELSE IF args[i].kind = "dashdash"
             THEN [domains |-> HostsOf({args[j] : j \in (i + 1)..n}), unsafe |-> FALSE]
        ELSE LET takes == consumeShortFlagToken(args, i)
                 rest == scan[IF takes THEN i + 2 ELSE i + 1]
                 here == IF args[i].kind = "word" THEN HostsOf({args[i]})
                         ELSE IF Mode(args[i]) # "destination" THEN {}
                         ELSE IF HasInline(args[i]) THEN {extractDomainHost(args[i].text)} \ {NoHost}
                         ELSE IF takes THEN HostsOf({args[i + 1]}) ELSE {}
             IN [domains |-> here \cup rest.domains,
                 unsafe |-> Mode(args[i]) \in {"opaque", "unclassified"} \/ rest.unsafe]
  IN scan[1]

\* Any other command: every argument may name a host, the executable too, and
\* --url its value.
extractGenericDomains(args) ==
  LET n == Len(args)
      Url(j) == args[j].kind = "long" /\ Mode(args[j]) = "destination"
      ValueAt[i \in 0..n] == i > 1 /\ ~ValueAt[i - 1] /\ Url(i - 1) /\ ~args[i - 1].inline
      Inline == {i \in 1..n : Url(i) /\ args[i].inline /\ ~ValueAt[i]}
      Flag == {i \in 1..n : Url(i) /\ ~ValueAt[i]}
  IN HostsOf({args[i] : i \in (1..n) \ Flag})
       \cup ({extractDomainHost(args[i].text) : i \in Inline} \ {NoHost})

\* exe is the executable's identity, and the text it was spelled with.
extractDomains(exe, args) ==
  IF exe.name \in directNetworkClients THEN extractDirectClientDomains(args)
  ELSE [domains |-> extractGenericDomains(<<Word(exe.text)>> \o args), unsafe |-> FALSE]

-----------------------------------------------------------------------------
\* The decision.

domainAllowed_AnyIP(host, allow) == \E a \in allow : a # NoHost /\ IsPrefix(a, host)
domainAllowed(host, allow) ==
  host \notin BlockedIPs /\ \E a \in allow : a # NoHost /\ IsPrefix(a, host)

\* The domains allowed for an intent: its own list when it has one.
AllowFor(p, intent) ==
  IF intent # "" /\ intent \in DOMAIN p.intentAllow /\ p.intentAllow[intent] # {}
  THEN p.intentAllow[intent] ELSE p.allow

Refusal(p, exe, args, intent, denied) ==
  LET found == extractDomains(exe, args) IN
  IF ~p.enabled THEN "none"
  ELSE IF denied THEN "substring"
  ELSE IF found.domains = {} THEN (IF exe.name \in directNetworkClients THEN "uninspectable" ELSE "none")
  ELSE IF found.unsafe THEN "opaque"
  ELSE IF intent = "" /\ p.requireIntentMatch THEN "intent"
  ELSE IF AllowFor(p, intent) = {} THEN "disabled"
  ELSE IF \E d \in found.domains : ~domainAllowed(d, AllowFor(p, intent)) THEN "domain"
  ELSE "none"

ValidateNetworkEgress_ScanOnly(p, exe, args, intent, denied) ==
  ~p.enabled \/ \A d \in extractDomains(exe, args).domains : domainAllowed(d, AllowFor(p, intent))
ValidateNetworkEgress(p, exe, args, intent, denied) ==
  Refusal(p, exe, args, intent, denied) = "none"

-----------------------------------------------------------------------------
\* Reference: the positions taken as a flag's value are the one set that agrees
\* with the flags around it; nothing after a parsed "--" is taken.

Values(args) ==
  LET Ended(v, i) == \E j \in 1..i : j \notin v /\ args[j].kind = "dashdash" IN
  CHOOSE v \in SUBSET DOMAIN args :
    \A i \in DOMAIN args :
      i \in v <=> /\ i > 1 /\ i - 1 \notin v /\ ~Ended(v, i - 1)
                  /\ ~HasInline(args[i - 1])
                  /\ CASE Mode(args[i - 1]) \in {"takesValue", "destination", "opaque"} -> TRUE
                       [] Mode(args[i - 1]) = "unclassified" -> args[i].kind = "word"
                       [] OTHER -> FALSE

Operands(args) ==
  LET v == Values(args)
      Rest == {i \in DOMAIN args : \E j \in 1..(i - 1) : j \notin v /\ args[j].kind = "dashdash"}
      Flags == (DOMAIN args) \ (v \cup Rest)
      Targets == {i \in Flags : Mode(args[i]) = "destination"}
  IN [destinations |->
        (HostsOf({args[i] : i \in Rest \cup {i \in Flags : args[i].kind = "word"}
                                   \cup {i \in v : i - 1 \in Targets}})
           \cup {extractDomainHost(args[i].text) : i \in {j \in Targets : HasInline(args[j])}}) \ {NoHost},
      opaque |-> \E i \in Flags : Mode(args[i]) \in {"opaque", "unclassified"}]

-----------------------------------------------------------------------------
\* The scan finds exactly the destinations and the unknown flags that reading
\* the whole vector gives: it loses its place after no flag, cluster, inline
\* value or "--" (extractDirectClientDomains, consumeShortFlagToken).
EgressScanExact(args) ==
  LET found == extractDirectClientDomains(args) IN
  /\ found.domains = Operands(args).destinations
  /\ found.unsafe = Operands(args).opaque

\* A direct client the policy lets run has a destination, none that a flag of
\* unknown effect could change, and each within the list of the intent it was
\* approved for (ValidateNetworkEgress, docs/operations/CONFIG.md:186).
AcceptedEgress(policies, intents, args) ==
  \A p \in policies, exe \in [name : directNetworkClients, text : {Text("path", NoHost, "none")}],
     intent \in intents :
    p.enabled /\ ValidateNetworkEgress(p, exe, args, intent, FALSE) =>
      /\ Operands(args).destinations # {} /\ ~Operands(args).opaque
      /\ \A d \in Operands(args).destinations :
           \E a \in AllowFor(p, intent) : IsPrefix(a, d)

\* No command whatever runs with an address of the local network for a
\* destination, listed or not (isBlockedIPTarget, docs/operations/CONFIG.md:185).
NoBlockedDestination(policies, exes, intents, args) ==
  \A p \in policies, exe \in exes, intent \in intents :
    p.enabled /\ ValidateNetworkEgress(p, exe, args, intent, FALSE) =>
      \A i \in DOMAIN args : args[i].kind = "word" /\ extractDomainHost(args[i].text) \in BlockedIPs =>
        exe.name \in directNetworkClients /\ i \in Values(args) /\ Mode(args[i - 1]) # "destination"
==============================================================================
