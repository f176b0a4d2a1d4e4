------------------------- MODULE WatchConsole_proofs -------------------------
(***************************************************************************)
(* Theorems about WatchConsole: a command runs only on a y that was keyed  *)
(* for it, the console reports what the broker did, a key acts on an item  *)
(* in view, and the plain prompt forgets no skip of a pending request, for *)
(* any number of requests and fetches.                                     *)
(***************************************************************************)
EXTENDS WatchConsole, TLAPS

\* What the broker has is what somebody decided, and a client acts on it.
ConsentInv ==
  /\ \A r \in Requests : outcome[r] = "approved" => "approved" \in said[r]
  /\ \A r \in Requests : client[r] \in {"leased", "ran"} => outcome[r] = "approved"

\* The decision in flight was keyed for a request in view, and its success is
\* the broker's.
ActionInv == action # NoAction =>
  /\ action.req \in Requests \ skipped /\ action.to \in Decisions
  /\ action.stage \in {"sent", "ok", "error"}
  /\ action.to \in said[action.req]
  /\ action.stage = "ok" => outcome[action.req] = action.to

\* Nothing the console holds is unknown to the broker.
KnownInv ==
  /\ \A r \in items \cup skipped : outcome[r] # "absent"
  /\ \A list \in lists : \A r \in list : outcome[r] # "absent"

\* The plain prompt has one list on its way, or prompts, or waits for a result;
\* a pending request it hides is in every list it may still get.
PlainInv == Plain =>
  /\ step # "act" => action = NoAction
  /\ step # "list" => asked = 0 /\ lists = {}
  /\ step = "list" => (asked = 1 /\ lists = {}) \/ (asked = 0 /\ \E list \in lists : lists = {list})
  /\ step = "prompt" => selected \in Visible(items, skipped)
  /\ \A list \in lists, r \in skipped : outcome[r] = "pending" => r \in list

ConsoleInv ==
  ConsoleTypeOK /\ ConsentInv /\ ActionInv /\ HistoryTruthful /\ SelectionVisible /\ KnownInv /\ PlainInv

\* Where the selection ends up: on a visible item, if there is one.
LEMMA SelectionFound ==
  ASSUME NEW list, NEW hidden, NEW sel, NEW to \in Selections(list, hidden, sel)
  PROVE  IF Visible(list, hidden) = {} THEN to = NoRequest ELSE to \in Visible(list, hidden)
BY DEF Selections

\* A request the broker decides or takes moves forward, the others stay.
LEMMA ServeMoves ==
  ASSUME ConsoleTypeOK, NEW r \in Requests, NEW to \in {"pending"} \cup Decisions, Contract!Serve(r, to)
  PROVE  /\ outcome' \in [Requests -> {"absent", "pending"} \cup Decisions] /\ outcome'[r] = to
         /\ to = "pending" => outcome[r] = "absent"
         /\ to # "pending" => outcome[r] = "pending"
         /\ \A q \in Requests : q # r => outcome'[q] = outcome[q]
         /\ \A q \in Requests : outcome[q] \in Decisions => outcome'[q] = outcome[q]
         /\ \A q \in Requests : outcome[q] # "absent" => outcome'[q] # "absent"
BY DEF ConsoleTypeOK, Contract!Serve, Contract!Advances, Contract!Decisions, Decisions

\* A console that has just been opened shows nothing yet.
LEMMA ConsoleStarts == ConsoleInit => ConsoleInv
<1> SUFFICES ASSUME ConsoleInit PROVE ConsoleInv
  OBVIOUS
<1> USE DEF ConsoleInit, Contract!Init
<1>1. ConsoleTypeOK
  BY DEF ConsoleTypeOK, NoAction, Decisions
<1>2. ConsentInv
  BY DEF ConsentInv
<1>3. ActionInv /\ HistoryTruthful /\ KnownInv
  BY DEF ActionInv, HistoryTruthful, KnownInv
<1>4. SelectionVisible
  BY DEF SelectionVisible, Visible
<1>5. PlainInv
  BY DEF PlainInv
<1> QED BY <1>1, <1>2, <1>3, <1>4, <1>5 DEF ConsoleInv

\* Ask: the broker knows one request more; nothing held it before.
LEMMA AskKeeps == ASSUME ConsoleInv, NEW r \in Requests, Ask(r) PROVE ConsoleInv'
<1> /\ client[r] = "idle" /\ Contract!Serve(r, "pending")
    /\ UNCHANGED <<mode, running, items, skipped, selected, action, history, asked, lists, step, said>>
  BY DEF Ask, view, fetches
<1>t. ConsoleTypeOK
  BY DEF ConsoleInv
<1>m. /\ outcome' \in [Requests -> {"absent", "pending"} \cup Decisions] /\ outcome'[r] = "pending"
      /\ outcome[r] = "absent"
      /\ \A q \in Requests : q # r => outcome'[q] = outcome[q]
      /\ \A q \in Requests : outcome[q] \in Decisions => outcome'[q] = outcome[q]
      /\ \A q \in Requests : outcome[q] # "absent" => outcome'[q] # "absent"
  BY <1>t, ServeMoves
<1>c. client' \in [Requests -> {"idle", "polling", "leased", "ran", "ended"}]
      /\ \A q \in Requests : client'[q] \in {"leased", "ran"} => client[q] \in {"leased", "ran"}
  BY <1>t DEF Ask, ConsoleTypeOK
<1>1. ConsoleTypeOK'
  BY <1>t, <1>m, <1>c DEF ConsoleTypeOK
<1>2. ConsentInv'
  <2>1. \A q \in Requests : outcome'[q] = "approved" => outcome[q] = "approved"
    BY <1>m
  <2> QED BY <2>1, <1>m, <1>c DEF ConsoleInv, ConsentInv, Decisions
<1>3. ActionInv'
  BY <1>m DEF ConsoleInv, ActionInv
<1>4. HistoryTruthful'
  BY <1>t, <1>m DEF ConsoleInv, HistoryTruthful, ConsoleTypeOK
<1>5. SelectionVisible' /\ KnownInv'
  <2>1. SelectionVisible'
    BY DEF ConsoleInv, SelectionVisible, Tui, Visible
  <2>2. KnownInv'
    BY <1>t, <1>m DEF ConsoleInv, KnownInv, ConsoleTypeOK
  <2> QED BY <2>1, <2>2
<1>6. PlainInv'
  <2> SUFFICES ASSUME Plain PROVE PlainInv'
    BY DEF PlainInv, Plain
  <2>1. \A list \in lists, q \in skipped : outcome'[q] = "pending" => q \in list
    <3>1. \A q \in skipped : q \in Requests /\ q # r
      BY <1>t, <1>m DEF ConsoleInv, KnownInv, ConsoleTypeOK
    <3> QED BY <3>1, <1>m DEF ConsoleInv, PlainInv
  <2> QED BY <2>1 DEF ConsoleInv, PlainInv, Visible
<1> QED BY <1>1, <1>2, <1>3, <1>4, <1>5, <1>6 DEF ConsoleInv

\* waitForApproval and the run under the lease.
LEMMA ClientKeeps ==
  ASSUME ConsoleInv, NEW r \in Requests, WaitForApproval(r) \/ RunWithLease(r)
  PROVE  ConsoleInv'
<1> UNCHANGED <<outcome, told, mode, running, items, skipped, selected, action, history, asked, lists, step, said>>
  BY DEF WaitForApproval, RunWithLease, broker, view, fetches
<1>1. /\ client' \in [Requests -> {"idle", "polling", "leased", "ran", "ended"}]
      /\ \A q \in Requests : client'[q] \in {"leased", "ran"} =>
           client[q] \in {"leased", "ran"} \/ outcome[q] = "approved"
  BY DEF ConsoleInv, ConsoleTypeOK, WaitForApproval, RunWithLease
<1>2. ConsoleTypeOK'
  BY <1>1 DEF ConsoleInv, ConsoleTypeOK
<1>3. ConsentInv'
  BY <1>1 DEF ConsoleInv, ConsentInv
<1> QED BY <1>2, <1>3 DEF ConsoleInv, ActionInv, HistoryTruthful, SelectionVisible, KnownInv, PlainInv, Plain, Tui, Visible

\* ServeList: the list names every pending request.
LEMMA ServeListKeeps == ASSUME ConsoleInv, ServeList PROVE ConsoleInv'
<1> /\ UNCHANGED <<outcome, told, client, mode, running, items, skipped, selected, action, history, step, said>>
    /\ asked > 0 /\ asked' = asked - 1 /\ lists' = lists \cup {Pending}
  BY DEF ServeList, broker, view
<1>p. /\ Pending \subseteq Requests
      /\ \A q \in Requests : outcome[q] = "pending" => q \in Pending
      /\ \A q \in Pending : outcome[q] # "absent"
  BY DEF Pending
<1>1. ConsoleTypeOK'
  BY <1>p DEF ConsoleInv, ConsoleTypeOK
<1>2. KnownInv'
  BY <1>p DEF ConsoleInv, KnownInv
<1>3. PlainInv'
  <2> SUFFICES ASSUME Plain PROVE PlainInv'
    BY DEF PlainInv, Plain
  <2>1. step = "list" /\ asked = 1 /\ lists = {}
    <3>1. step # "list" => asked = 0
      BY DEF ConsoleInv, PlainInv
    <3> QED BY <3>1 DEF ConsoleInv, PlainInv
  <2>2. asked' = 0 /\ lists' = {Pending}
    BY <2>1
  <2>3. \A q \in skipped : q \in Requests
    BY DEF ConsoleInv, ConsoleTypeOK
  <2> QED BY <2>1, <2>2, <2>3, <1>p DEF ConsoleInv, PlainInv, Visible
<1> QED BY <1>1, <1>2, <1>3 DEF ConsoleInv, ConsentInv, ActionInv, HistoryTruthful, SelectionVisible, Tui, Visible

\* A decision, the console's or another's: only a pending request takes one.
LEMMA DecisionKeeps ==
  ASSUME ConsoleInv, NEW r \in Requests, NEW to \in Decisions, Contract!Serve(r, to),
         to = "approved" => "approved" \in said[r],
         UNCHANGED <<client, mode, running, items, skipped, selected, history, asked, lists, step, said>>
  PROVE  /\ ConsoleTypeOK /\ outcome' \in [Requests -> {"absent", "pending"} \cup Decisions] /\ outcome'[r] = to
         /\ ConsentInv' /\ HistoryTruthful' /\ SelectionVisible' /\ KnownInv'
         /\ \A q \in Requests : outcome[q] \in Decisions => outcome'[q] = outcome[q]
         /\ (action' = NoAction <=> action = NoAction) => PlainInv'
<1>t. ConsoleTypeOK /\ "pending" \notin Decisions
  BY DEF ConsoleInv, Decisions
<1>m. /\ outcome' \in [Requests -> {"absent", "pending"} \cup Decisions] /\ outcome'[r] = to
      /\ outcome[r] = "pending"
      /\ \A q \in Requests : q # r => outcome'[q] = outcome[q]
      /\ \A q \in Requests : outcome[q] \in Decisions => outcome'[q] = outcome[q]
      /\ \A q \in Requests : outcome[q] # "absent" => outcome'[q] # "absent"
  BY <1>t, ServeMoves
<1>2. ConsentInv'
  BY <1>m DEF ConsoleInv, ConsentInv, Decisions
<1>3. HistoryTruthful'
  BY <1>t, <1>m DEF ConsoleInv, HistoryTruthful, ConsoleTypeOK
<1>4. SelectionVisible'
  BY DEF ConsoleInv, SelectionVisible, Tui, Visible
<1>5. KnownInv'
  BY <1>t, <1>m DEF ConsoleInv, KnownInv, ConsoleTypeOK
<1>6. (action' = NoAction <=> action = NoAction) => PlainInv'
  <2> SUFFICES ASSUME Plain, action' = NoAction <=> action = NoAction PROVE PlainInv'
    BY DEF PlainInv, Plain
  <2>1. \A list \in lists, q \in skipped : outcome'[q] = "pending" => q \in list
    <3>1. \A q \in skipped : q \in Requests
      BY <1>t DEF ConsoleTypeOK
    <3>2. \A q \in Requests : outcome'[q] = "pending" => outcome[q] = "pending"
      BY <1>t, <1>m
    <3> QED BY <3>1, <3>2 DEF ConsoleInv, PlainInv
  <2> QED BY <2>1 DEF ConsoleInv, PlainInv, Visible
<1> QED BY <1>t, <1>m, <1>2, <1>3, <1>4, <1>5, <1>6

\* ServeAction: the decision in flight takes effect, or its answer is an error.
LEMMA ServeActionKeeps == ASSUME ConsoleInv, ServeAction PROVE ConsoleInv'
<1> /\ action.stage = "sent"
    /\ UNCHANGED <<client, mode, running, items, skipped, selected, history, asked, lists, step, said>>
  BY DEF ServeAction, view, fetches
<1>0. action # NoAction /\ ConsoleTypeOK
  BY DEF NoAction, ConsoleInv
<1>a. /\ action.req \in Requests \ skipped /\ action.to \in Decisions /\ action.to \in said[action.req]
      /\ action \in [req : Requests \cup {NoRequest}, to : Decisions \cup {"none"},
                     stage : {"none", "sent", "ok", "error"}]
  BY <1>0 DEF ConsoleInv, ActionInv, ConsoleTypeOK
<1>b. ASSUME NEW s \in {"ok", "error"}, action' = [action EXCEPT !.stage = s]
      PROVE  /\ action' \in [req : Requests \cup {NoRequest}, to : Decisions \cup {"none"},
                             stage : {"none", "sent", "ok", "error"}]
             /\ action'.req = action.req /\ action'.to = action.to /\ action'.stage = s /\ action' # NoAction
  <2>1. action'.stage = s
    BY <1>a, <1>b
  <2>2. action' # NoAction
    BY <2>1 DEF NoAction
  <2> QED BY <1>a, <1>b, <2>1, <2>2
<1>1. CASE Contract!Serve(action.req, action.to) /\ \E s \in {"ok", "error"} : action' = [action EXCEPT !.stage = s]
  <2>1. PICK s \in {"ok", "error"} : action' = [action EXCEPT !.stage = s]
    BY <1>1
  <2>2. /\ action' \in [req : Requests \cup {NoRequest}, to : Decisions \cup {"none"},
                        stage : {"none", "sent", "ok", "error"}]
        /\ action'.req = action.req /\ action'.to = action.to /\ action'.stage = s /\ action' # NoAction
    BY <2>1, <1>b
  <2>3. PICK r \in Requests, to \in Decisions : r = action.req /\ to = action.to
    BY <1>a
  <2>4. Contract!Serve(r, to) /\ (to = "approved" => "approved" \in said[r])
    BY <2>3, <1>1, <1>a
  <2>5. /\ outcome' \in [Requests -> {"absent", "pending"} \cup Decisions] /\ outcome'[r] = to
        /\ ConsentInv' /\ HistoryTruthful' /\ SelectionVisible' /\ KnownInv' /\ PlainInv'
    BY <2>2, <2>4, <1>0, DecisionKeeps
  <2>6. ConsoleTypeOK'
    BY <2>2, <2>5, <1>0 DEF ConsoleTypeOK
  <2>7. ActionInv'
    BY <2>2, <2>3, <2>5, <1>a DEF ActionInv
  <2> QED BY <2>5, <2>6, <2>7 DEF ConsoleInv
<1>2. CASE action' = [action EXCEPT !.stage = "error"] /\ UNCHANGED broker
  <2> UNCHANGED outcome
    BY <1>2 DEF broker
  <2>2. /\ action' \in [req : Requests \cup {NoRequest}, to : Decisions \cup {"none"},
                        stage : {"none", "sent", "ok", "error"}]
        /\ action'.req = action.req /\ action'.to = action.to /\ action'.stage = "error" /\ action' # NoAction
    BY <1>2, <1>b
  <2>6. ConsoleTypeOK'
    BY <2>2, <1>0 DEF ConsoleTypeOK
  <2>7. ActionInv'
    BY <2>2, <1>a DEF ActionInv
  <2>8. PlainInv'
    BY <2>2, <1>0 DEF ConsoleInv, PlainInv, Plain, Visible
  <2> QED BY <2>6, <2>7, <2>8 DEF ConsoleInv, ConsentInv, HistoryTruthful, SelectionVisible, KnownInv, Tui, Visible
<1> QED BY <1>1, <1>2 DEF ServeAction

\* A cancellation or another operator's denial.
LEMMA DeniedElsewhereKeeps == ASSUME ConsoleInv, NEW r \in Requests, DeniedElsewhere(r) PROVE ConsoleInv'
<1> /\ Contract!Serve(r, "denied") /\ outcome[r] = "pending"
    /\ UNCHANGED <<client, mode, running, items, skipped, selected, action, history, asked, lists, step, said>>
  BY DEF DeniedElsewhere, view, fetches
<1>0. "denied" \in Decisions
  BY DEF Decisions
<1>1. /\ ConsoleTypeOK /\ outcome' \in [Requests -> {"absent", "pending"} \cup Decisions] /\ outcome'[r] = "denied"
      /\ ConsentInv' /\ HistoryTruthful' /\ SelectionVisible' /\ KnownInv' /\ PlainInv'
      /\ \A q \in Requests : outcome[q] \in Decisions => outcome'[q] = outcome[q]
  BY <1>0, DecisionKeeps
<1>2. ConsoleTypeOK'
  BY <1>1 DEF ConsoleTypeOK
<1>3. ActionInv'
  BY <1>1 DEF ConsoleInv, ActionInv
<1> QED BY <1>1, <1>2, <1>3 DEF ConsoleInv

\* PollTick and a failed fetch or a key that ends the console.
LEMMA PollTickKeeps == ASSUME ConsoleInv, PollTick PROVE ConsoleInv'
<1> /\ mode = "tui" /\ asked' = asked + 1
    /\ UNCHANGED <<outcome, told, client, mode, running, items, skipped, selected, action, history, lists, step, said>>
  BY DEF PollTick, Tui, broker, view
<1>1. ConsoleTypeOK'
  BY DEF ConsoleInv, ConsoleTypeOK
<1> QED BY <1>1 DEF ConsoleInv, ConsentInv, ActionInv, HistoryTruthful, SelectionVisible, KnownInv, PlainInv, Plain,
                    Tui, Visible

\* The console ends: it holds nothing any more, a decision on its way excepted.
LEMMA EndsKeep == ASSUME ConsoleInv, Gone, UNCHANGED <<broker, client, mode, action, history, said>>, step' = step
                  PROVE  ConsoleInv'
<1> /\ running' = FALSE /\ items' = {} /\ skipped' = {} /\ selected' = NoRequest /\ asked' = 0 /\ lists' = {}
    /\ UNCHANGED <<outcome, told>>
  BY DEF Gone, broker
<1>1. ConsoleTypeOK'
  BY DEF ConsoleInv, ConsoleTypeOK
<1>2. ActionInv' /\ KnownInv'
  BY DEF ConsoleInv, ActionInv, KnownInv
<1> QED BY <1>1, <1>2 DEF ConsoleInv, ConsentInv, HistoryTruthful, SelectionVisible, PlainInv, Plain, Tui

\* A list takes the place of the one before: the selection is one of its
\* visible items, and what it does not name is no longer skipped.
LEMMA ListApplied ==
  ASSUME ConsoleInv, NEW list \in lists, NEW sel,
         items' = list, skipped' = pruneWatchSkipped(list), selected' \in Selections(list, skipped', sel),
         UNCHANGED <<outcome, told, client, mode, running, action, history, said>>,
         lists' \subseteq lists, asked' \in Nat, step' \in {"list", "prompt", "act"}
  PROVE  /\ ConsoleTypeOK' /\ ConsentInv' /\ ActionInv' /\ HistoryTruthful' /\ SelectionVisible' /\ KnownInv'
         /\ skipped' \subseteq skipped
         /\ selected' # NoRequest => selected' \in Visible(items', skipped')
<1>1. IF Visible(list, skipped') = {} THEN selected' = NoRequest ELSE selected' \in Visible(list, skipped')
  BY SelectionFound
<1>2. list \subseteq Requests /\ skipped' \subseteq skipped /\ skipped' \subseteq Requests
  BY DEF ConsoleInv, ConsoleTypeOK, pruneWatchSkipped
<1>3. ConsoleTypeOK'
  BY <1>1, <1>2 DEF ConsoleInv, ConsoleTypeOK, Visible
<1>4. ActionInv'
  BY <1>2 DEF ConsoleInv, ActionInv
<1>5. SelectionVisible'
  BY <1>1 DEF SelectionVisible, Visible
<1>6. KnownInv'
  BY <1>2 DEF ConsoleInv, KnownInv
<1> QED BY <1>1, <1>2, <1>3, <1>4, <1>5, <1>6 DEF ConsoleInv, ConsentInv, HistoryTruthful

\* A list arrives at the terminal interface, perhaps after a newer one.
LEMMA DeliverListKeeps == ASSUME ConsoleInv, NEW list, DeliverList(list) PROVE ConsoleInv'
<1> /\ mode = "tui" /\ list \in lists
    /\ items' = list /\ skipped' = pruneWatchSkipped(list) /\ selected' \in Selections(list, skipped', selected)
    /\ UNCHANGED <<outcome, told, client, mode, running, action, history, said>>
    /\ lists' = lists \ {list} /\ asked' = asked /\ step' = step
  BY DEF DeliverList, Tui, Apply, broker
<1>1. asked' \in Nat /\ step' \in {"list", "prompt", "act"} /\ lists' \subseteq lists
  BY DEF ConsoleInv, ConsoleTypeOK
<1>2. /\ ConsoleTypeOK' /\ ConsentInv' /\ ActionInv' /\ HistoryTruthful' /\ SelectionVisible' /\ KnownInv'
  BY <1>1, ListApplied
<1> QED BY <1>2 DEF ConsoleInv, PlainInv, Plain

\* The plain prompt has its list: it asks about an item of it, or lists again.
LEMMA PlainListKeeps == ASSUME ConsoleInv, NEW list, PlainList(list) PROVE ConsoleInv'
<1> /\ Plain /\ step = "list" /\ list \in lists
    /\ UNCHANGED <<outcome, told, client, mode, action, history, said>>
  BY DEF PlainList, broker
<1>p. asked = 0 /\ lists = {list} /\ action = NoAction /\ Plain
  BY DEF ConsoleInv, PlainInv
<1>1. CASE Gone /\ UNCHANGED step
  BY <1>1, EndsKeep DEF broker
<1>2. CASE /\ items' = list /\ skipped' = pruneWatchSkipped(list)
           /\ selected' \in Selections(list, skipped', NoRequest)
           /\ lists' = {} /\ UNCHANGED running
           /\ \/ selected' # NoRequest /\ step' = "prompt" /\ UNCHANGED asked
              \/ selected' = NoRequest /\ asked' = 1 /\ UNCHANGED step
  <2>1. asked' \in Nat /\ step' \in {"list", "prompt", "act"} /\ lists' \subseteq lists
    BY <1>2, <1>p
  <2>2. /\ ConsoleTypeOK' /\ ConsentInv' /\ ActionInv' /\ HistoryTruthful' /\ SelectionVisible' /\ KnownInv'
        /\ selected' # NoRequest => selected' \in Visible(items', skipped')
    BY <1>2, <2>1, ListApplied
  <2>3. PlainInv'
    <3>1. CASE selected' # NoRequest /\ step' = "prompt" /\ UNCHANGED asked
      BY <1>2, <1>p, <2>2, <3>1 DEF PlainInv, Visible
    <3>2. CASE selected' = NoRequest /\ asked' = 1 /\ UNCHANGED step
      BY <1>2, <1>p, <2>2, <3>2 DEF PlainInv
    <3> QED BY <1>2, <3>1, <3>2
  <2> QED BY <2>2, <2>3 DEF ConsoleInv
<1> QED BY <1>1, <1>2 DEF PlainList

\* A key moves the selection, hides the item it is on, or decides it.
LEMMA MoveSelectionKeeps == ASSUME ConsoleInv, MoveSelection PROVE ConsoleInv'
<1> /\ mode = "tui" /\ selected' \in Visible(items, skipped)
    /\ UNCHANGED <<outcome, told, client, mode, running, items, skipped, action, history, asked, lists, step, said>>
  BY DEF MoveSelection, Tui, broker, fetches
<1>1. ConsoleTypeOK'
  BY DEF ConsoleInv, ConsoleTypeOK, Visible
<1>2. SelectionVisible'
  BY DEF SelectionVisible, Visible
<1> QED BY <1>1, <1>2 DEF ConsoleInv, ConsentInv, ActionInv, HistoryTruthful, KnownInv, PlainInv, Plain

\* Skip: the item is hidden, and no decision is in flight that could name it.
LEMMA SkipKeeps == ASSUME ConsoleInv, Skip PROVE ConsoleInv'
<1> /\ selected # NoRequest /\ skipped' = skipped \cup {selected}
    /\ UNCHANGED <<outcome, told, client, mode, running, items, action, history, said>>
  BY DEF Skip, broker
<1>s. selected \in Visible(items, skipped) /\ action = NoAction
  <2>1. CASE Tui /\ KeysAccepted
    BY <2>1 DEF KeysAccepted, ConsoleInv, SelectionVisible
  <2>2. CASE Plain /\ step = "prompt"
    BY <2>2 DEF ConsoleInv, PlainInv
  <2> QED BY <2>1, <2>2 DEF Skip
<1>k. ActionInv' /\ KnownInv' /\ ConsentInv' /\ HistoryTruthful'
  <2>1. ActionInv' /\ ConsentInv' /\ HistoryTruthful'
    BY <1>s DEF ConsoleInv, ActionInv, ConsentInv, HistoryTruthful
  <2>2. items' \cup skipped' = items \cup skipped
    BY <1>s DEF Visible
  <2>3. KnownInv'
    <3>1. lists' \subseteq lists
      BY DEF Skip, fetches
    <3> QED BY <2>2, <3>1 DEF ConsoleInv, KnownInv
  <2> QED BY <2>1, <2>3
<1>1. CASE Tui /\ selected' \in Selections(items, skipped', selected) /\ UNCHANGED <<step, fetches>>
  <2>1. IF Visible(items, skipped') = {} THEN selected' = NoRequest ELSE selected' \in Visible(items, skipped')
    BY <1>1, SelectionFound
  <2>2. ConsoleTypeOK'
    BY <1>1, <1>s, <2>1 DEF ConsoleInv, ConsoleTypeOK, Visible, fetches
  <2>3. SelectionVisible'
    BY <2>1 DEF SelectionVisible, Visible
  <2>4. PlainInv'
    BY <1>1 DEF PlainInv, Plain, Tui
  <2> QED BY <1>k, <2>2, <2>3, <2>4 DEF ConsoleInv
<1>2. CASE Plain /\ step = "prompt" /\ step' = "list" /\ asked' = 1 /\ UNCHANGED <<selected, lists>>
  <2>2. ConsoleTypeOK'
    BY <1>2, <1>s DEF ConsoleInv, ConsoleTypeOK, Visible
  <2>3. SelectionVisible'
    BY <1>2 DEF SelectionVisible, Plain, Tui
  <2>4. PlainInv'
    BY <1>2, <1>s DEF ConsoleInv, PlainInv
  <2> QED BY <1>k, <2>2, <2>3, <2>4 DEF ConsoleInv
<1> QED BY <1>1, <1>2 DEF Skip

\* y or n: the decision is on the item in view, and is remembered as hers.
LEMMA KeyKeeps == ASSUME ConsoleInv, NEW to \in Decisions, Key(to) PROVE ConsoleInv'
<1> /\ selected # NoRequest
    /\ action' = [req |-> selected, to |-> to, stage |-> "sent"]
    /\ said' = [said EXCEPT ![selected] = @ \cup {to}]
    /\ UNCHANGED <<outcome, told, client, mode, running, items, skipped, selected, history, asked, lists>>
  BY DEF Key, broker, view, fetches
<1>t. ConsoleTypeOK
  BY DEF ConsoleInv
<1>v. selected \in Visible(items, skipped)
  <2>1. CASE Tui
    BY <2>1 DEF ConsoleInv, SelectionVisible
  <2>2. CASE Plain /\ step = "prompt"
    BY <2>2 DEF ConsoleInv, PlainInv
  <2> QED BY <2>1, <2>2 DEF Key
<1>s. selected \in Requests \ skipped
  BY <1>v, <1>t DEF ConsoleTypeOK, Visible
<1>a. /\ action'.req = selected /\ action'.to = to /\ action'.stage = "sent" /\ action' # NoAction
      /\ action' \in [req : Requests \cup {NoRequest}, to : Decisions \cup {"none"},
                      stage : {"none", "sent", "ok", "error"}]
  BY <1>s DEF NoAction
<1>b. /\ said' \in [Requests -> SUBSET Decisions]
      /\ \A r \in Requests : said[r] \subseteq said'[r]
      /\ to \in said'[selected]
  BY <1>t, <1>s DEF ConsoleTypeOK
<1>1. ConsoleTypeOK'
  BY <1>t, <1>a, <1>b DEF ConsoleTypeOK, Key
<1>2. ConsentInv' /\ HistoryTruthful'
  BY <1>t, <1>b DEF ConsoleInv, ConsentInv, HistoryTruthful, ConsoleTypeOK
<1>3. ActionInv'
  BY <1>s, <1>a, <1>b DEF ActionInv
<1>4. SelectionVisible' /\ KnownInv'
  BY DEF ConsoleInv, SelectionVisible, KnownInv, Tui, Visible
<1>5. PlainInv'
  <2> SUFFICES ASSUME Plain PROVE PlainInv'
    BY DEF PlainInv, Plain
  <2>1. step = "prompt" /\ step' = "act"
    BY DEF Key, Plain, Tui
  <2> QED BY <2>1 DEF ConsoleInv, PlainInv
<1> QED BY <1>1, <1>2, <1>3, <1>4, <1>5 DEF ConsoleInv

\* DeliverAction: what is reported as done took effect, and does not change again.
LEMMA DeliverActionKeeps == ASSUME ConsoleInv, DeliverAction PROVE ConsoleInv'
<1> /\ action.stage \in {"ok", "error"} /\ action' = NoAction
    /\ UNCHANGED <<outcome, told, client, mode, running, items, skipped, selected, said>>
  BY DEF DeliverAction, broker, view
<1>t. ConsoleTypeOK
  BY DEF ConsoleInv
<1>a. /\ action # NoAction /\ action.req \in Requests /\ action.to \in Decisions /\ action.to \in said[action.req]
      /\ action.stage = "ok" => outcome[action.req] = action.to
  <2>1. action # NoAction
    BY DEF NoAction
  <2> QED BY <2>1 DEF ConsoleInv, ActionInv
<1>h. history' = history \/ (action.stage = "ok" /\ history' = history \cup {<<action.req, action.to>>})
  BY DEF DeliverAction, Reported
<1>1. ConsoleTypeOK'
  <2>1. history' \subseteq Requests \X Decisions
    BY <1>t, <1>a, <1>h DEF ConsoleTypeOK
  <2>2. asked' \in Nat /\ lists' = lists /\ step' \in {"list", "prompt", "act"}
    BY <1>t DEF ConsoleTypeOK, DeliverAction
  <2>3. NoAction \in [req : Requests \cup {NoRequest}, to : Decisions \cup {"none"},
                      stage : {"none", "sent", "ok", "error"}]
    BY DEF NoAction
  <2> QED BY <1>t, <2>1, <2>2, <2>3 DEF ConsoleTypeOK
<1>2. HistoryTruthful'
  BY <1>a, <1>h DEF ConsoleInv, HistoryTruthful
<1>3. ActionInv' /\ ConsentInv' /\ SelectionVisible' /\ KnownInv'
  BY DEF ConsoleInv, ActionInv, ConsentInv, SelectionVisible, KnownInv, Tui, Visible, DeliverAction
<1>4. PlainInv'
  <2> SUFFICES ASSUME Plain PROVE PlainInv'
    BY DEF PlainInv, Plain
  <2>1. step = "act" /\ step' = "list" /\ asked' = 1 /\ lists' = lists
    BY <1>a DEF DeliverAction, ConsoleInv, PlainInv, Plain, Tui
  <2>2. lists = {}
    BY <2>1 DEF ConsoleInv, PlainInv
  <2> QED BY <2>1, <2>2 DEF PlainInv
<1> QED BY <1>1, <1>2, <1>3, <1>4 DEF ConsoleInv

\* Every step of the console, its clients and the broker keeps the invariant.
LEMMA ConsoleStep == ConsoleInv /\ [ConsoleNext]_cvars => ConsoleInv'
<1> SUFFICES ASSUME ConsoleInv, [ConsoleNext]_cvars PROVE ConsoleInv'
  OBVIOUS
<1>1. CASE UNCHANGED cvars
  BY <1>1 DEF cvars, broker, view, fetches, ConsoleInv, ConsoleTypeOK, ConsentInv, ActionInv, HistoryTruthful,
       SelectionVisible, KnownInv, PlainInv, Plain, Tui, Visible
<1>2. CASE ListFails
  BY <1>2, EndsKeep DEF ListFails
<1>3. CASE Quit
  BY <1>3, EndsKeep DEF Quit
<1> QED BY <1>1, <1>2, <1>3, AskKeeps, ClientKeeps, ServeListKeeps, ServeActionKeeps, DeniedElsewhereKeeps,
           PollTickKeeps, MoveSelectionKeeps, SkipKeeps, KeyKeeps, DeliverActionKeeps, DeliverListKeeps,
           PlainListKeeps DEF ConsoleNext

\* What the console shows, what its keys act on and what its clients run are
\* in step with the broker in every state.
THEOREM ConsoleInvariant == ConsoleSpec => []ConsoleInv
BY ConsoleStarts, ConsoleStep, PTL DEF ConsoleSpec

\* ConsentTruthful (handleKey, executeWatchAction, waitForApproval): what runs
\* and what is reported is what the operator decided.
THEOREM ConsentTruthfulHolds == ConsoleSpec => []ConsentTruthful
<1>1. ConsoleInv => ConsentTruthful
  <2> SUFFICES ASSUME ConsoleInv PROVE ConsentBeforeRun
    BY DEF ConsoleInv, ConsentTruthful
  <2>1. \A r \in Requests : client[r] = "ran" => outcome[r] = "approved" /\ "approved" \in said[r]
    BY DEF ConsoleInv, ConsentInv
  <2>2. \A r \in Requests : <<r, "denied">> \in history => outcome[r] = "denied"
    BY DEF ConsoleInv, HistoryTruthful
  <2> QED BY <2>1, <2>2 DEF ConsentBeforeRun
<1> QED BY <1>1, ConsoleInvariant, PTL

\* SelectionSound (ensureSelection, selectedWatchItem, actionPending): the
\* operator sees what her key acts on, until its result is in.
THEOREM SelectionSoundHolds == ConsoleSpec => []SelectionSound
<1>1. ConsoleInv => SelectionSound
  BY DEF ConsoleInv, SelectionSound, ActionInv, DecisionNotSkipped
<1> QED BY <1>1, ConsoleInvariant, PTL

\* PlainSkippedStayHidden (watch_tui.go:366): the plain prompt forgets a skip
\* only when the broker no longer lists the request as pending.
THEOREM PlainSkippedStayHiddenHolds == ConsoleSpec => PlainSkippedStayHidden
<1>1. ASSUME ConsoleInv, [ConsoleNext]_cvars
      PROVE  [mode = "plain" /\ running' => \A r \in skipped \ skipped' : outcome[r] # "pending"]_cvars
  <2> SUFFICES ASSUME mode = "plain", running', NEW r \in skipped \ skipped' PROVE outcome[r] # "pending"
    OBVIOUS
  <2>0. skipped' # skipped
    OBVIOUS
  <2>1. ~(\E list \in SUBSET Requests : DeliverList(list)) /\ ~Gone
    BY DEF DeliverList, Tui, Gone
  <2>2. PICK list : PlainList(list)
    BY <1>1, <2>0, <2>1 DEF ConsoleNext, cvars, view, ServeList, ServeAction, PollTick, ListFails, MoveSelection,
       Skip, DeliverAction, Quit, Key, Ask, WaitForApproval, RunWithLease, DeniedElsewhere
  <2>3. Plain /\ list \in lists /\ skipped' = skipped \cap list
    BY <2>1, <2>2 DEF PlainList, pruneWatchSkipped
  <2> QED BY <2>3, <1>1 DEF ConsoleInv, PlainInv
<1> QED BY <1>1, ConsoleInvariant, PTL DEF ConsoleSpec, PlainSkippedStayHidden
==============================================================================
