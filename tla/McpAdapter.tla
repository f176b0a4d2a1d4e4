----------------------------- MODULE McpAdapter -----------------------------
(***************************************************************************)
(* The MCP adapter (cmd/promptlock-mcp/main.go): a stdio server that turns *)
(* each tools/call into a goroutine which asks the broker for a lease,     *)
(* polls for the operator's decision and has the command executed.  Calls  *)
(* are cancelled by id, and the HTTP calls time out on the adapter's side  *)
(* while the broker goes on with them.  The broker is LeaseContract, which *)
(* LeaseBroker implements; here it also executes.                          *)
(***************************************************************************)
EXTENDS Naturals, FiniteSets

CONSTANTS Ids,      \* JSON-RPC request ids
          HugeIds,  \* numeric ids beyond int64: one key for all of them
          HugeKey,  \* that key
          NoKey,    \* of a call not yet made
          Calls,    \* accepted tools/call: a goroutine, and its lease request
          NoCall

ASSUME AdapterAssumption == /\ HugeIds \subseteq Ids
                            /\ HugeKey \notin Ids
                            /\ NoCall \notin Calls /\ NoKey \notin Ids \cup {HugeKey}

VARIABLES outcome, told     \* the broker: LeaseContract
VARIABLES main,      \* the read loop: "reading", "returned", "exited"
          inflight,  \* key -> the call whose CancelFunc it holds
          pc, reqKey, \* per call: where its goroutine stands, its key
          ctxDone,   \* calls whose context is cancelled
          expired,   \* calls past their approval deadline
          known,     \* calls that hold their lease request's id
          approved,  \* calls that saw their request approved
          result,    \* per call: what it replies
          wire,      \* <<call, kind>>: HTTP requests the broker has not served
          answer,    \* per call: the broker's answer on its way
          executed,  \* history: calls whose command the broker started
          early,     \* history: calls cancelled before they saw an approval
          unclean    \* calls whose clean-up failed (the warning on stderr)

broker == <<outcome, told, executed>>
goroutine == <<pc, reqKey, expired, known, approved, result, unclean>>
avars == <<broker, main, inflight, goroutine, ctxDone, wire, answer, early>>

Contract == INSTANCE LeaseContract WITH RequestIds <- Calls

Keys == (Ids \ HugeIds) \cup {HugeKey}
Kinds == {"resolve", "request", "status", "lease", "execute", "cancel"}
Results == {"none", "ok", "denied", "timeout", "cancelled", "error"}
Answers == {"none", "ok", "error", "pending", "approved", "denied"}

\* Two numbers that int64 cannot hold are converted to the same key.
RequestKey(i) == IF i \in HugeIds THEN HugeKey ELSE i

AdapterInit ==
  /\ Contract!Init
  /\ main = "reading"
  /\ inflight = [k \in Keys |-> NoCall]
  /\ pc = [c \in Calls |-> "idle"]
  /\ reqKey = [c \in Calls |-> NoKey]
  /\ result = [c \in Calls |-> "none"]
  /\ answer = [c \in Calls |-> "none"]
  /\ ctxDone = {} /\ expired = {} /\ known = {} /\ approved = {}
  /\ wire = {} /\ executed = {} /\ early = {} /\ unclean = {}

-----------------------------------------------------------------------------
\* The read loop.

\* The loop still reads; after it returns, goroutines run on until the exit.
Running == main # "exited"

\* A transport refuses to send under a cancelled context; the clean-up call has
\* a context of its own.
Sent_AnyContext(c, kind) == wire \cup {<<c, kind>>}
Sent(c, kind) == IF c \in ctxDone /\ kind # "cancel" THEN wire ELSE wire \cup {<<c, kind>>}

\* tools/call with an id that is not in flight starts a goroutine.  Without a
\* transport, a session token or valid arguments it only replies an error.
FreshCall == CHOOSE c \in Calls : pc[c] = "idle"
registerInFlight_Replace(i) == i \in Ids
registerInFlight(i) == inflight[RequestKey(i)] = NoCall

Register(c, i) ==
  /\ main = "reading" /\ pc[c] = "idle" /\ c = FreshCall
  /\ registerInFlight(i)
  /\ reqKey' = [reqKey EXCEPT ![c] = RequestKey(i)]
  /\ inflight' = [inflight EXCEPT ![RequestKey(i)] = c]
  /\ \/ /\ pc' = [pc EXCEPT ![c] = "resolve"]
        /\ wire' = Sent(c, "resolve")
        /\ UNCHANGED result
     \/ /\ pc' = [pc EXCEPT ![c] = "emit"]
        /\ result' = [result EXCEPT ![c] = "error"]
        /\ UNCHANGED wire
  /\ UNCHANGED <<broker, main, expired, known, approved, unclean, ctxDone, answer, early>>

\* notifications/cancelled cancels whichever call holds the key now.
CancelNotification(i) ==
  LET c == inflight[RequestKey(i)] IN
  /\ main = "reading" /\ c # NoCall
  /\ ctxDone' = ctxDone \cup {c}
  /\ early' = IF c \in approved THEN early ELSE early \cup {c}
  /\ UNCHANGED <<broker, main, inflight, goroutine, wire, answer>>

\* exit, end of input or a scanner error: the deferred cancelAllInFlight.
Return ==
  /\ main = "reading"
  /\ main' = "returned"
  /\ LET cs == {inflight[k] : k \in Keys} \ {NoCall}
     IN ctxDone' = ctxDone \cup cs /\ early' = early \cup (cs \ approved)
  /\ UNCHANGED <<broker, inflight, goroutine, wire, answer>>

\* The process ends; goroutines that had not finished never do.
Exit == /\ main = "returned" /\ main' = "exited"
        /\ UNCHANGED <<broker, inflight, goroutine, ctxDone, wire, answer, early>>

-----------------------------------------------------------------------------
\* A goroutine: executeWithIntent, then the reply, then its removal.

Waiting(c) == pc[c] \in Kinds

Call(c, kind) == pc' = [pc EXCEPT ![c] = kind] /\ wire' = Sent(c, kind)

\* Serving these changes nothing, so one whose caller left is dropped.
Reads == {"resolve", "status", "lease"}

\* Leaving executeWithIntent; before the lease request was answered there is no
\* deferred clean-up.
Leave(c, r) ==
  /\ result' = [result EXCEPT ![c] = r]
  /\ pc' = [pc EXCEPT ![c] = IF c \in known THEN "return" ELSE "emit"]
  /\ wire' = wire \ ({c} \X Reads)

Failure_TimedOut(c) == IF c \in ctxDone THEN "cancelled" ELSE "timeout"
Failure_Aborted(c) == IF c \in ctxDone THEN "aborted" ELSE "error"
Failure(c) == IF c \in ctxDone THEN "cancelled" ELSE "error"

\* The client's deadline passes, the connection breaks or the context is
\* cancelled.  The broker may still serve what was sent.
GivesUp_OnCancelOnly(c) == Waiting(c) /\ c \in ctxDone
GivesUp(c) == Waiting(c)

\* postAuth and getAuth return an error: given up, or refused by the broker.
CallFails(c) ==
  /\ \/ GivesUp(c)
     \/ Waiting(c) /\ answer[c] = "error"
  /\ answer' = [answer EXCEPT ![c] = "none"]
  /\ \/ pc[c] # "cancel" /\ Leave(c, Failure(c)) /\ UNCHANGED unclean
     \/ /\ pc[c] = "cancel" /\ unclean' = unclean \cup {c}
        /\ pc' = [pc EXCEPT ![c] = "emit"] /\ UNCHANGED <<result, wire>>
  /\ UNCHANGED <<broker, main, inflight, reqKey, expired, known, approved, ctxDone, early>>

Receive(c) ==
  /\ Waiting(c) /\ answer[c] \notin {"none", "error"}
  /\ answer' = [answer EXCEPT ![c] = "none"]
  /\ known' = IF pc[c] = "request" THEN known \cup {c} ELSE known
  /\ approved' = IF pc[c] = "status" /\ answer[c] = "approved" THEN approved \cup {c} ELSE approved
  /\ \/ pc[c] = "resolve" /\ Call(c, "request") /\ UNCHANGED result
     \/ /\ pc[c] = "request"
        /\ pc' = [pc EXCEPT ![c] = "poll"] /\ UNCHANGED <<wire, result>>
     \/ pc[c] = "status" /\ answer[c] = "approved" /\ Call(c, "lease") /\ UNCHANGED result
     \/ pc[c] = "status" /\ answer[c] = "denied" /\ Leave(c, "denied")
     \/ /\ pc[c] = "status" /\ answer[c] = "pending"
        /\ \/ c \in expired /\ Leave(c, "timeout")
           \/ c \notin expired /\ pc' = [pc EXCEPT ![c] = "poll"] /\ UNCHANGED <<wire, result>>
     \/ pc[c] = "lease" /\ Call(c, "execute") /\ UNCHANGED result
     \/ pc[c] = "execute" /\ Leave(c, "ok")
     \/ pc[c] = "cancel" /\ pc' = [pc EXCEPT ![c] = "emit"] /\ UNCHANGED <<wire, result>>
  /\ UNCHANGED <<broker, main, inflight, reqKey, expired, unclean, ctxDone, early>>

\* The top of the polling loop, reached at first and after the two seconds or
\* the cancellation that end the select.
Poll(c) ==
  /\ pc[c] = "poll"
  /\ \/ c \in ctxDone /\ Leave(c, "cancelled")
     \/ c \notin ctxDone /\ Call(c, "status") /\ UNCHANGED result
  /\ UNCHANGED <<broker, main, inflight, reqKey, expired, known, approved, unclean, ctxDone, answer, early>>

\* The approval timeout passes.
Deadline(c) ==
  /\ pc[c] \in {"poll", "status"} /\ c \notin expired
  /\ expired' = expired \cup {c}
  /\ UNCHANGED <<broker, main, inflight, pc, reqKey, known, approved, result, unclean, ctxDone, wire, answer, early>>

\* The deferred function: clean up only a cancelled call without an approval.
NeedsCleanup_Expired(c) == c \in ctxDone /\ c \in expired
NeedsCleanup(c) == c \in ctxDone /\ c \notin approved

Cleanup(c) ==
  /\ pc[c] = "return"
  /\ \/ NeedsCleanup(c) /\ Call(c, "cancel")
     \/ ~NeedsCleanup(c) /\ pc' = [pc EXCEPT ![c] = "emit"] /\ UNCHANGED wire
  /\ UNCHANGED <<broker, main, inflight, reqKey, expired, known, approved, result, unclean, ctxDone, answer, early>>

\* The reply goes out first and the entry is removed afterwards.
Emit(c) ==
  /\ pc[c] = "emit"
  /\ pc' = [pc EXCEPT ![c] = "unregister"]
  /\ UNCHANGED <<broker, main, inflight, reqKey, expired, known, approved, result, unclean, ctxDone, wire, answer, early>>

Unregister(c) ==
  /\ pc[c] = "unregister"
  /\ inflight' = [inflight EXCEPT ![reqKey[c]] = NoCall]
  /\ pc' = [pc EXCEPT ![c] = "done"]
  /\ UNCHANGED <<broker, main, reqKey, expired, known, approved, result, unclean, ctxDone, wire, answer, early>>

-----------------------------------------------------------------------------
\* The broker and the operator.

\* Answer whoever still waits; a caller that gave up hears nothing.
Reply(c, kind, a) ==
  /\ wire' = wire \ {<<c, kind>>}
  /\ answer' = IF pc[c] = kind THEN [answer EXCEPT ![c] = a] ELSE answer

Refuse(c, kind) ==
  /\ <<c, kind>> \in wire
  /\ Reply(c, kind, "error")
  /\ UNCHANGED <<broker, main, inflight, goroutine, ctxDone, early>>

Serve(c, kind) ==
  /\ <<c, kind>> \in wire
  /\ \/ kind = "resolve" /\ Reply(c, kind, "ok") /\ UNCHANGED broker
     \/ /\ kind = "request" /\ Reply(c, kind, "ok")
        /\ Contract!Serve(c, "pending") /\ UNCHANGED executed
     \/ /\ kind = "status" /\ Reply(c, kind, outcome[c]) /\ UNCHANGED broker
     \/ /\ kind = "lease" /\ outcome[c] = "approved"
        /\ Reply(c, kind, "ok") /\ UNCHANGED broker
     \/ /\ kind = "execute" /\ outcome[c] = "approved"
        /\ Reply(c, kind, "ok")
        /\ executed' = executed \cup {c} /\ UNCHANGED <<outcome, told>>
     \/ /\ kind = "cancel" /\ outcome[c] = "pending"
        /\ Contract!Serve(c, "denied") /\ Reply(c, kind, "ok") /\ UNCHANGED executed
  /\ UNCHANGED <<main, inflight, goroutine, ctxDone, early>>

\* The operator decides when she likes, also after the caller gave up.
Decide(c, to) ==
  /\ outcome[c] = "pending" /\ Contract!Serve(c, to)
  /\ UNCHANGED <<executed, main, inflight, goroutine, ctxDone, wire, answer, early>>

-----------------------------------------------------------------------------
GoroutineStep(c) ==
  /\ Running
  /\ \/ CallFails(c) \/ Receive(c) \/ Poll(c)
     \/ Cleanup(c) \/ Emit(c) \/ Unregister(c)

AdapterNext ==
  \/ Return \/ Exit
  \/ \E i \in Ids : CancelNotification(i)
  \/ \E c \in Calls :
       \/ \E i \in Ids : Register(c, i)
       \/ GoroutineStep(c) \/ (Running /\ Deadline(c))
       \/ \E kind \in Kinds : Serve(c, kind) \/ Refuse(c, kind)
       \/ \E to \in {"approved", "denied"} : Decide(c, to)

AdapterSpec == AdapterInit /\ [][AdapterNext]_avars

\* Goroutines are scheduled, their HTTP calls end by the client's deadline and
\* time passes.  Nothing is assumed of the broker, the operator or the client.
AdapterFairSpec == AdapterSpec /\ \A c \in Calls : WF_avars(GoroutineStep(c)) /\ WF_avars(Running /\ Deadline(c))

-----------------------------------------------------------------------------
AdapterTypeOK ==
  /\ main \in {"reading", "returned", "exited"}
  /\ inflight \in [Keys -> Calls \cup {NoCall}]
  /\ pc \in [Calls -> Kinds \cup {"idle", "poll", "return", "emit", "unregister", "done"}]
  /\ reqKey \in [Calls -> Keys \cup {NoKey}]
  /\ result \in [Calls -> Results]
  /\ answer \in [Calls -> Answers]
  /\ wire \subseteq Calls \X Kinds
  /\ ctxDone \subseteq Calls /\ expired \subseteq Calls /\ known \subseteq Calls
  /\ approved \subseteq Calls /\ executed \subseteq Calls /\ early \subseteq Calls
  /\ unclean \subseteq Calls
  /\ outcome \in [Calls -> {"absent", "pending", "approved", "denied"}]

\* A call is in flight from its acceptance until after its reply, under its own
\* key, and no finished call is: so a cancellation reaches the call the client
\* means and a removal takes away no other call's entry (registerInFlight,
\* unregisterInFlight, and the order of reply and removal).
Live(c) == pc[c] \notin {"idle", "done"}
InflightExact ==
  /\ AdapterTypeOK
  /\ \A c \in Calls : Live(c) => inflight[reqKey[c]] = c
  /\ \A k \in Keys : inflight[k] # NoCall => Live(inflight[k]) /\ reqKey[inflight[k]] = k

\* A call cancelled before it saw an approval never has its command run, even
\* when the approval arrives at the same time (executeWithIntent, postAuth).
CancelledBeforeApprovalNeverRuns == early \cap executed = {}

\* A reply that says denied or timed out is final: the command has not run and
\* nothing under way can run it, although the request may be approved later.
Answered(c) == pc[c] \in {"unregister", "done"}
RefusalIsFinal ==
  \A c \in Calls : result[c] \in {"denied", "timeout"} =>
    c \notin executed /\ <<c, "execute">> \notin wire

\* Both: a call that was cancelled in time or refused has no effect, in any order
\* of the cancellation, the deadline, the decision and the broker's answers.
RefusalsHold == CancelledBeforeApprovalNeverRuns /\ RefusalIsFinal

\* The only requests an answered call leaves to the operator: those it timed out
\* on or lost an answer for, those whose id never arrived, and those whose
\* clean-up was warned about (docs/operations/MCP.md:116-117).
OrphansExplained ==
  \A c \in Calls : Answered(c) /\ outcome[c] = "pending" =>
    result[c] \in {"timeout", "error"} \/ c \notin known \/ c \in unclean

\* Every accepted call is answered unless the process ends: no poll, HTTP call
\* or clean-up waits for ever.
EveryCallAnswered == \A c \in Calls : Live(c) ~> (pc[c] = "done" \/ main = "exited")
==============================================================================
