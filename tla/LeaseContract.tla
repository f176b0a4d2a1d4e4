---------------------------- MODULE LeaseContract ----------------------------
(***************************************************************************)
(* What the broker promises about lease requests, without stores, files or *)
(* handlers: each request has one outcome that only moves forward, a reply *)
(* is sent in the instant its outcome takes effect, and a restart may      *)
(* reveal at most one change nobody was told had succeeded.                *)
(***************************************************************************)
CONSTANT RequestIds
VARIABLES outcome, told

vars == <<outcome, told>>

Decisions == {"approved", "denied"}

Advances(from, to) == \/ from = "absent" /\ to = "pending"
                      \/ from = "pending" /\ to \in Decisions

Init == outcome = [r \in RequestIds |-> "absent"] /\ told = {}

\* The caller hears of the change when it takes effect.
Serve(r, to) ==
  /\ Advances(outcome[r], to)
  /\ outcome' = [outcome EXCEPT ![r] = to]
  /\ told' = told \cup {<<to, r>>}

\* An approved lease is handed out again.
Repeat(r) ==
  /\ outcome[r] = "approved"
  /\ told' = told \cup {<<"reused", r>>}
  /\ UNCHANGED outcome

\* After a restart one request may turn out to have advanced in silence.
Restart(r, to) ==
  /\ Advances(outcome[r], to)
  /\ outcome' = [outcome EXCEPT ![r] = to]
  /\ UNCHANGED told

Next == \E r \in RequestIds :
          \/ Repeat(r)
          \/ \E to \in {"pending"} \cup Decisions : Serve(r, to) \/ Restart(r, to)

Spec == Init /\ [][Next]_vars
==============================================================================
