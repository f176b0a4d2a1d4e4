---------------------------- MODULE WatchConsole ----------------------------
(***************************************************************************)
(* The operator's console (promptlock watch) and the clients that wait for *)
(* her (promptlock exec), over the broker of LeaseContract.  The console   *)
(* is either the terminal interface, where fetches, decisions and keys are *)
(* concurrent messages to one model, or the plain prompt, which does one   *)
(* thing at a time.                                                        *)
(***************************************************************************)
EXTENDS Naturals, FiniteSets

CONSTANTS Requests, NoRequest, Modes, MaxFetches

ASSUME ConsoleAssumption == /\ Modes \subseteq {"tui", "plain"}
                            /\ MaxFetches \in Nat
                            /\ NoRequest \notin Requests

VARIABLES outcome, told     \* the broker: LeaseContract
VARIABLES client,    \* per request: where the exec command that made it stands
          mode, running,
          items,     \* the pending list the console holds
          skipped, selected,
          action,    \* the decision in flight, or NoAction
          history,   \* what the console reported as done
          asked,     \* fetches the broker has not served
          lists,     \* lists served and not yet delivered
          step,      \* the plain prompt: "list", "prompt" or "act"
          said       \* history: the decisions keyed for each request

broker == <<outcome, told>>
fetches == <<asked, lists>>
view == <<items, skipped, selected>>
cvars == <<broker, client, mode, running, view, action, history, fetches, step, said>>

Contract == INSTANCE LeaseContract WITH RequestIds <- Requests

NoAction == [req |-> NoRequest, to |-> "none", stage |-> "none"]
Decisions == {"approved", "denied"}
Pending == {r \in Requests : outcome[r] = "pending"}

Visible(list, hidden) == list \ hidden

\* The selection stays while its item is visible, else moves to the first one;
\* the broker's list is in map order, so that may be any.
Selections_Stale(list, hidden, sel) ==
  IF Visible(list, hidden) = {} THEN {NoRequest}
  ELSE IF sel # NoRequest THEN {sel} ELSE Visible(list, hidden)

Selections(list, hidden, sel) ==
  IF Visible(list, hidden) = {} THEN {NoRequest}
  ELSE IF sel \in Visible(list, hidden) THEN {sel} ELSE Visible(list, hidden)

ConsoleInit ==
  /\ Contract!Init
  /\ client = [r \in Requests |-> "idle"]
  /\ mode \in Modes /\ running = TRUE
  /\ items = {} /\ skipped = {} /\ selected = NoRequest
  /\ action = NoAction /\ history = {}
  /\ asked = 1 /\ lists = {} /\ step = "list"
  /\ said = [r \in Requests |-> {}]

-----------------------------------------------------------------------------
\* promptlock exec: request, poll, take the lease, have the command run.

\* The broker takes the request; the client may not hear of it and end.
Ask(r) ==
  /\ client[r] = "idle" /\ Contract!Serve(r, "pending")
  /\ \E next \in {"polling", "ended"} : client' = [client EXCEPT ![r] = next]
  /\ UNCHANGED <<mode, running, view, action, history, fetches, step, said>>

\* waitForApproval: the status, and the lease of an approved request.  A
\* denial, the deadline or a failed call ends the command.
WaitForApproval_AnyStatus(r) ==
  /\ client[r] = "polling"
  /\ \/ outcome[r] \in {"pending", "approved"} /\ client' = [client EXCEPT ![r] = "leased"]
     \/ client' = [client EXCEPT ![r] = "ended"]
  /\ UNCHANGED <<broker, mode, running, view, action, history, fetches, step, said>>

WaitForApproval(r) ==
  /\ client[r] = "polling"
  /\ \/ outcome[r] = "approved" /\ client' = [client EXCEPT ![r] = "leased"]
     \/ client' = [client EXCEPT ![r] = "ended"]
  /\ UNCHANGED <<broker, mode, running, view, action, history, fetches, step, said>>

RunWithLease(r) ==
  /\ client[r] = "leased"
  /\ client' = [client EXCEPT ![r] = "ran"]
  /\ UNCHANGED <<broker, mode, running, view, action, history, fetches, step, said>>

-----------------------------------------------------------------------------
\* The broker's side of the console's calls.

\* What the broker lists is what is pending now, not at delivery.
ServeList ==
  /\ asked > 0
  /\ asked' = asked - 1 /\ lists' = lists \cup {Pending}
  /\ UNCHANGED <<broker, client, mode, running, view, action, history, step, said>>

\* Only a pending request can be decided; the answer may be lost.
ServeAction ==
  /\ action.stage = "sent"
  /\ \/ /\ Contract!Serve(action.req, action.to)
        /\ \E s \in {"ok", "error"} : action' = [action EXCEPT !.stage = s]
     \/ action' = [action EXCEPT !.stage = "error"] /\ UNCHANGED broker
  /\ UNCHANGED <<client, mode, running, view, history, fetches, step, said>>

\* An agent's cancellation, or another operator's denial.
DeniedElsewhere(r) ==
  /\ outcome[r] = "pending" /\ Contract!Serve(r, "denied")
  /\ UNCHANGED <<client, mode, running, view, action, history, fetches, step, said>>

-----------------------------------------------------------------------------
\* The console.

Tui == running /\ mode = "tui"
Plain == running /\ mode = "plain"

\* The poll ticker; its fetch does not wait for earlier ones.
PollTick_WhenIdle ==
  /\ Tui /\ action = NoAction /\ asked + Cardinality(lists) < MaxFetches
  /\ asked' = asked + 1
  /\ UNCHANGED <<broker, client, mode, running, view, action, history, lists, step, said>>

PollTick ==
  /\ Tui /\ asked + Cardinality(lists) < MaxFetches
  /\ asked' = asked + 1
  /\ UNCHANGED <<broker, client, mode, running, view, action, history, lists, step, said>>

\* A skipped request is remembered while the new list names it.
pruneWatchSkipped_Forget(list) == {r \in skipped : r \notin list}
pruneWatchSkipped(list) == skipped \cap list

Apply(list) ==
  /\ items' = list /\ skipped' = pruneWatchSkipped(list)
  /\ selected' \in Selections(list, skipped', selected)
  /\ lists' = lists \ {list} /\ UNCHANGED asked

\* applyPendingItems: lists arrive in any order.
DeliverList(list) ==
  /\ Tui /\ list \in lists
  /\ Apply(list)
  /\ UNCHANGED <<broker, client, mode, running, action, history, step, said>>

\* The console ends, and with it what it held.
Gone ==
  /\ running' = FALSE
  /\ items' = {} /\ skipped' = {} /\ selected' = NoRequest
  /\ asked' = 0 /\ lists' = {}

\* A failed fetch ends the console in either mode.
ListFails ==
  /\ running /\ (mode = "plain" => step = "list")
  /\ asked + Cardinality(lists) > 0
  /\ Gone
  /\ UNCHANGED <<broker, client, mode, action, history, step, said>>

\* Keys are refused while a decision is in flight.
KeysAccepted_Always == TRUE
KeysAccepted == action = NoAction

MoveSelection ==
  /\ Tui /\ KeysAccepted
  /\ selected' \in Visible(items, skipped)
  /\ UNCHANGED <<broker, client, mode, running, items, skipped, action, history, fetches, step, said>>

Skip_Unguarded ==
  /\ skipped' = skipped \cup {selected}
  /\ \/ Tui /\ KeysAccepted /\ selected' \in Selections(items, skipped', selected) /\ UNCHANGED <<step, fetches>>
     \/ Plain /\ step = "prompt" /\ step' = "list" /\ asked' = 1 /\ UNCHANGED <<selected, lists>>
  /\ UNCHANGED <<broker, client, mode, running, items, action, history, said>>

Skip ==
  /\ selected # NoRequest
  /\ skipped' = skipped \cup {selected}
  /\ \/ Tui /\ KeysAccepted /\ selected' \in Selections(items, skipped', selected) /\ UNCHANGED <<step, fetches>>
     \/ Plain /\ step = "prompt" /\ step' = "list" /\ asked' = 1 /\ UNCHANGED <<selected, lists>>
  /\ UNCHANGED <<broker, client, mode, running, items, action, history, said>>

\* y or n sends one decision on the selected request.
Key(to) ==
  /\ selected # NoRequest
  /\ \/ Tui /\ KeysAccepted /\ UNCHANGED step
     \/ Plain /\ step = "prompt" /\ step' = "act"
  /\ action' = [req |-> selected, to |-> to, stage |-> "sent"]
  /\ said' = [said EXCEPT ![selected] = @ \cup {to}]
  /\ UNCHANGED <<broker, client, mode, running, view, history, fetches>>

Reported_Always == {"ok", "error"}
Reported == {"ok"}

\* The decision's result; a new list is fetched after a success, and by the
\* plain prompt in any case.
DeliverAction ==
  /\ action.stage \in {"ok", "error"}
  /\ history' = IF action.stage \in Reported THEN history \cup {<<action.req, action.to>>} ELSE history
  /\ action' = NoAction
  /\ \/ /\ Tui /\ UNCHANGED <<step, lists>>
        /\ asked' = IF action.stage = "ok" THEN asked + 1 ELSE asked
     \/ Plain /\ step' = "list" /\ asked' = 1 /\ UNCHANGED lists
  /\ UNCHANGED <<broker, client, mode, running, view, said>>

\* Quitting leaves requests untouched, and a decision in flight on its way.
Quit ==
  /\ \/ Tui /\ KeysAccepted
     \/ Plain /\ step = "prompt"
  /\ Gone
  /\ UNCHANGED <<broker, client, mode, action, history, step, said>>

\* The plain loop's list: prompt for the first item that is not skipped, or
\* pause and list again (or end, with --once).
PlainList(list) ==
  /\ Plain /\ step = "list" /\ list \in lists
  /\ \/ /\ items' = list /\ skipped' = pruneWatchSkipped(list)
        /\ selected' \in Selections(list, skipped', NoRequest)
        /\ lists' = {} /\ UNCHANGED running
        /\ \/ selected' # NoRequest /\ step' = "prompt" /\ UNCHANGED asked
           \/ selected' = NoRequest /\ asked' = 1 /\ UNCHANGED step
     \/ Visible(list, skipped) = {} /\ Gone /\ UNCHANGED step
  /\ UNCHANGED <<broker, client, mode, action, history, said>>

-----------------------------------------------------------------------------
ConsoleNext ==
  \/ ServeList \/ ServeAction \/ PollTick \/ ListFails \/ MoveSelection
  \/ Skip \/ DeliverAction \/ Quit
  \/ \E to \in Decisions : Key(to)
  \/ \E list \in SUBSET Requests : DeliverList(list) \/ PlainList(list)
  \/ \E r \in Requests : Ask(r) \/ WaitForApproval(r) \/ RunWithLease(r) \/ DeniedElsewhere(r)

ConsoleSpec == ConsoleInit /\ [][ConsoleNext]_cvars

\* The ticker fires, the broker answers (or the fetch fails) and each answer
\* reaches the model.  Nothing is assumed of the operator or the clients.
ConsoleFairSpec ==
  /\ ConsoleSpec
  /\ WF_cvars(PollTick) /\ WF_cvars(ServeList)
  /\ \A list \in SUBSET Requests : WF_cvars(DeliverList(list))

-----------------------------------------------------------------------------
ConsoleTypeOK ==
  /\ outcome \in [Requests -> {"absent", "pending"} \cup Decisions]
  /\ client \in [Requests -> {"idle", "polling", "leased", "ran", "ended"}]
  /\ mode \in Modes /\ running \in BOOLEAN /\ step \in {"list", "prompt", "act"}
  /\ items \subseteq Requests /\ skipped \subseteq Requests
  /\ selected \in Requests \cup {NoRequest}
  /\ action \in [req : Requests \cup {NoRequest}, to : Decisions \cup {"none"},
                 stage : {"none", "sent", "ok", "error"}]
  /\ history \subseteq Requests \X Decisions
  /\ asked \in Nat /\ lists \subseteq SUBSET Requests
  /\ said \in [Requests -> SUBSET Decisions]

\* A command runs only if the operator keyed y on its own request, and not if
\* the console reported that request denied (handleKey, executeWatchAction,
\* waitForApproval: three processes and the broker between them).
ConsentBeforeRun ==
  \A r \in Requests : client[r] = "ran" =>
    "approved" \in said[r] /\ <<r, "denied">> \notin history

\* What the console reports is what the broker did, and at most one decision is
\* ever reported per request, however stale the list it was keyed on.
HistoryTruthful ==
  \A h \in history : outcome[h[1]] = h[2] /\ h[2] \in said[h[1]]

\* Both: what runs and what is reported is what the operator decided.
ConsentTruthful == ConsentBeforeRun /\ HistoryTruthful

\* A request under decision is never hidden by a skip, so its result is about
\* an item the operator can still see or that left the queue (actionPending).
DecisionNotSkipped == action # NoAction => action.req \notin skipped

\* The item a key acts on is one of the visible ones, across list changes and
\* skips (ensureSelection, selectedWatchItem).
SelectionVisible ==
  Tui => IF Visible(items, skipped) = {} THEN selected = NoRequest
         ELSE selected \in Visible(items, skipped)

\* Both: the operator sees what her key acts on, until its result is in.
SelectionSound == ConsoleTypeOK /\ DecisionNotSkipped /\ SelectionVisible

\* "skipped requests stay hidden until they leave the queue"
\* (cmd/promptlock/watch_tui.go:366), at the plain prompt, which has one list at
\* a time.  (In the terminal interface an older list that is delivered after a
\* newer one forgets a skip.)
PlainSkippedStayHidden ==
  [][mode = "plain" /\ running' => \A r \in skipped \ skipped' : outcome[r] # "pending"]_cvars

\* In the terminal interface every pending request reaches the operator's list,
\* whatever she is doing and however many fetches overtake each other.
PendingIsShown ==
  \A r \in Requests :
    (Tui /\ outcome[r] = "pending") ~> (r \in items \/ outcome[r] # "pending" \/ ~running)
==============================================================================
