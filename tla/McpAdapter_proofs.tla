-------------------------- MODULE McpAdapter_proofs --------------------------
(***************************************************************************)
(* Theorems about McpAdapter: which call a key in flight belongs to, what a *)
(* cancellation or a refusal rules out, and which lease requests an        *)
(* answered call may leave behind, for any number of calls and ids.        *)
(***************************************************************************)
EXTENDS McpAdapter, TLAPS

------------------------------------------------------------------------------
(* The inductive invariant *)

\* Where a call stands before it may hold an approval, and after executeWithIntent.
Asking == {"idle", "resolve", "request", "poll", "status"}
Leaving == {"return", "cancel", "emit", "unregister", "done"}

\* A live call has a key, and the entry under it.
EntryInv ==
  /\ \A c \in Calls : Live(c) => reqKey[c] \in Keys /\ inflight[reqKey[c]] = c
  /\ \A k \in Keys : inflight[k] # NoCall => Live(inflight[k]) /\ reqKey[inflight[k]] = k

\* A command is sent off only under an approval that was seen, and by a call that
\* had not been cancelled before.
SendInv == \A c \in Calls :
  /\ pc[c] \in Asking => c \notin approved
  /\ pc[c] \in {"lease", "execute"} => c \in approved
  /\ <<c, "execute">> \in wire \/ c \in executed => c \in approved /\ c \notin early
  /\ c \in early => c \in ctxDone

\* What a call knows of its request is so: an answer on its way is an answer to
\* the question the call waits with.
KnowInv == \A c \in Calls :
  /\ c \in approved => outcome[c] = "approved"
  /\ c \in known => outcome[c] # "absent"
  /\ pc[c] \in {"poll", "status", "lease", "execute", "return", "cancel"} => c \in known
  /\ <<c, "status">> \in wire => c \in known
  /\ answer[c] # "none" => pc[c] \in Kinds
  /\ answer[c] \in {"pending", "approved", "denied"} => pc[c] = "status"
  /\ answer[c] \in {"approved", "denied"} => outcome[c] = answer[c]
  /\ answer[c] = "ok" => pc[c] # "status"
  /\ answer[c] = "ok" /\ pc[c] = "request" => outcome[c] # "absent"
  /\ answer[c] = "ok" /\ pc[c] = "cancel" => outcome[c] # "pending"

\* A result says why the call left.
ResultInv == \A c \in Calls :
  /\ result[c] = "none" <=> pc[c] \notin Leaving
  /\ result[c] = "ok" => c \in approved
  /\ result[c] = "denied" => outcome[c] = "denied"
  /\ result[c] \in {"denied", "timeout"} => c \notin approved
  /\ result[c] = "cancelled" => c \in ctxDone
  /\ result[c] = "cancelled" /\ c \in known /\ c \notin unclean
       /\ pc[c] \in {"emit", "unregister", "done"}
       => outcome[c] # "pending"

McpInv == AdapterTypeOK /\ EntryInv /\ SendInv /\ KnowInv /\ ResultInv

------------------------------------------------------------------------------
(* The steps *)

\* Keys are not the absence of one, calls are not the absence of one.
LEMMA Names ==
  /\ NoCall \notin Calls /\ NoKey \notin Keys
  /\ \A i \in Ids : RequestKey(i) \in Keys
BY AdapterAssumption DEF Keys, RequestKey

\* What is on the wire after a call sent something, or left.
LEMMA WirePairs ==
  ASSUME NEW c \in Calls
  PROVE  /\ \A d, m, k : <<d, m>> \in Sent(c, k) =>
                \/ <<d, m>> \in wire
                \/ d = c /\ m = k /\ (c \notin ctxDone \/ k = "cancel")
         /\ \A d, m : <<d, m>> \in wire \ ({c} \X Reads) => <<d, m>> \in wire
BY DEF Sent

\* A call is accepted.
LEMMA RegisterStep ==
  ASSUME McpInv, NEW c \in Calls, NEW i \in Ids, Register(c, i)
  PROVE  McpInv'
<1> USE DEF McpInv, broker, goroutine, Register, RequestKey, Sent
<1>1. AdapterTypeOK' BY Names DEF AdapterTypeOK, Kinds, Answers, Results, KnowInv
<1>2. EntryInv'
  <2> DEFINE k == RequestKey(i)
  <2>1. k \in Keys /\ inflight[k] = NoCall /\ pc[c] = "idle"
    BY Names DEF registerInFlight
  <2>2. /\ reqKey' = [reqKey EXCEPT ![c] = k] /\ inflight' = [inflight EXCEPT ![k] = c]
        /\ \A d \in Calls : d # c => pc'[d] = pc[d]
        /\ pc'[c] \in {"resolve", "emit"}
    BY DEF AdapterTypeOK
  <2> HIDE DEF k
  <2>3. /\ reqKey'[c] = k /\ \A d \in Calls : d # c => reqKey'[d] = reqKey[d]
        /\ inflight'[k] = c /\ \A j \in Keys : j # k => inflight'[j] = inflight[j]
    BY <2>1, <2>2 DEF AdapterTypeOK
  <2>4. \A d \in Calls : Live(d)' <=> d = c \/ Live(d)
    BY <2>2 DEF Live
  <2>5. ~Live(c) BY <2>1 DEF Live
  <2>6. ASSUME NEW d \in Calls, Live(d)'
        PROVE  reqKey'[d] \in Keys /\ inflight'[reqKey'[d]] = d
    BY <2>1, <2>3, <2>4, <2>6, Names DEF EntryInv
  <2>7. ASSUME NEW j \in Keys, inflight'[j] # NoCall
        PROVE  /\ inflight'[j] \in Calls /\ pc'[inflight'[j]] \notin {"idle", "done"}
               /\ reqKey'[inflight'[j]] = j
    <3>1. CASE j = k BY <2>2, <2>3, <3>1
    <3>2. CASE j # k
      <4>1. inflight'[j] = inflight[j] /\ inflight[j] \in Calls
        BY <2>3, <2>7, <3>2 DEF AdapterTypeOK
      <4>2. Live(inflight[j]) /\ reqKey[inflight[j]] = j
        BY <2>7, <4>1, Names DEF EntryInv
      <4>3. inflight[j] # c BY <2>5, <4>2
      <4> QED BY <2>2, <2>3, <4>1, <4>2, <4>3 DEF Live
    <3> QED BY <3>1, <3>2
  <2> QED BY <2>6, <2>7 DEF EntryInv, Live
<1>a. /\ \A d \in Calls : d # c => pc'[d] = pc[d]
      /\ pc[c] = "idle" /\ pc'[c] \in {"resolve", "emit"}
      /\ \A d, m : <<d, m>> \in wire' => <<d, m>> \in wire \/ m = "resolve"
  BY WirePairs DEF AdapterTypeOK
<1>3. SendInv'
  <2> USE <1>a
  <2> QED BY DEF SendInv, Asking
<1>4. KnowInv' BY <1>a DEF KnowInv, Kinds
<1>5. ResultInv' BY Names DEF ResultInv, AdapterTypeOK, KnowInv, SendInv, Leaving, Asking, Kinds
<1> QED BY <1>1, <1>2, <1>3, <1>4, <1>5

\* A cancellation arrives.
LEMMA CancelNotificationStep ==
  ASSUME McpInv, NEW i \in Ids, CancelNotification(i)
  PROVE  McpInv'
<1> USE DEF McpInv, broker, goroutine, CancelNotification, RequestKey
<1>1. AdapterTypeOK' BY Names DEF AdapterTypeOK, Kinds, Answers, Results, KnowInv
<1>2. EntryInv' BY Names DEF EntryInv, AdapterTypeOK, Live, Kinds
<1>3. SendInv' BY Names DEF SendInv, AdapterTypeOK, Asking, Kinds
<1>4. KnowInv' BY Names DEF KnowInv, AdapterTypeOK, SendInv, Kinds, Asking
<1>5. ResultInv' BY Names DEF ResultInv, AdapterTypeOK, KnowInv, SendInv, Leaving, Asking, Kinds
<1> QED BY <1>1, <1>2, <1>3, <1>4, <1>5

\* The read loop ends.
LEMMA ReturnStep ==
  ASSUME McpInv, Return
  PROVE  McpInv'
<1> USE DEF McpInv, broker, goroutine, Return
<1>1. AdapterTypeOK' BY Names DEF AdapterTypeOK, Kinds, Answers, Results, KnowInv
<1>2. EntryInv' BY Names DEF EntryInv, AdapterTypeOK, Live, Kinds
<1>3. SendInv' BY Names DEF SendInv, AdapterTypeOK, Asking, Kinds
<1>4. KnowInv' BY Names DEF KnowInv, AdapterTypeOK, SendInv, Kinds, Asking
<1>5. ResultInv' BY Names DEF ResultInv, AdapterTypeOK, KnowInv, SendInv, Leaving, Asking, Kinds
<1> QED BY <1>1, <1>2, <1>3, <1>4, <1>5

\* The process ends.
LEMMA ExitStep ==
  ASSUME McpInv, Exit
  PROVE  McpInv'
<1> USE DEF McpInv, broker, goroutine, Exit
<1>1. AdapterTypeOK' BY Names DEF AdapterTypeOK, Kinds, Answers, Results, KnowInv
<1>2. EntryInv' BY Names DEF EntryInv, AdapterTypeOK, Live, Kinds
<1>3. SendInv' BY Names DEF SendInv, AdapterTypeOK, Asking, Kinds
<1>4. KnowInv' BY Names DEF KnowInv, AdapterTypeOK, SendInv, Kinds, Asking
<1>5. ResultInv' BY Names DEF ResultInv, AdapterTypeOK, KnowInv, SendInv, Leaving, Asking, Kinds
<1> QED BY <1>1, <1>2, <1>3, <1>4, <1>5

\* An HTTP call fails.
LEMMA CallFailsStep ==
  ASSUME McpInv, NEW c \in Calls, CallFails(c)
  PROVE  McpInv'
<1> USE DEF McpInv, broker, goroutine, CallFails, GivesUp, Waiting, Leave, Failure, Reads
<1>1. AdapterTypeOK' BY Names DEF AdapterTypeOK, Kinds, Answers, Results, KnowInv
<1>2. EntryInv' BY Names DEF EntryInv, AdapterTypeOK, Live, Kinds
<1>3. SendInv' BY Names DEF SendInv, AdapterTypeOK, Asking, Kinds
<1>a. /\ \A d \in Calls : d # c => pc'[d] = pc[d] /\ answer'[d] = answer[d]
      /\ pc'[c] \in {"return", "emit"} /\ answer'[c] = "none"
      /\ pc'[c] = "return" => c \in known
      /\ \A d, m : <<d, m>> \in wire' => <<d, m>> \in wire
      /\ UNCHANGED <<outcome, known, approved>>
  <2>1. /\ \A d \in Calls : d # c => pc'[d] = pc[d] /\ answer'[d] = answer[d]
        /\ pc'[c] \in {"return", "emit"} /\ answer'[c] = "none"
        /\ pc'[c] = "return" => c \in known
    BY DEF AdapterTypeOK
  <2>2. \A d, m : <<d, m>> \in wire' => <<d, m>> \in wire
    BY WirePairs
  <2>3. UNCHANGED <<outcome, known, approved>>
    OBVIOUS
  <2> QED BY ONLY <2>1, <2>2, <2>3
<1>4. KnowInv'
  <2>1. KnowInv /\ c \in Calls
    OBVIOUS
  <2> QED BY ONLY <1>a, <2>1 DEF KnowInv, Kinds
<1>5. ResultInv'
  <2>1. ASSUME NEW d \in Calls, d # c
        PROVE  /\ result'[d] = "none" <=> pc'[d] \notin Leaving
               /\ result'[d] = "ok" => d \in approved'
               /\ result'[d] = "denied" => outcome'[d] = "denied"
               /\ result'[d] \in {"denied", "timeout"} => d \notin approved'
               /\ result'[d] = "cancelled" => d \in ctxDone'
               /\ (result'[d] = "cancelled" /\ d \in known' /\ d \notin unclean'
                    /\ pc'[d] \in {"emit", "unregister", "done"}) => outcome'[d] # "pending"
    <3>1. result'[d] = result[d] /\ ctxDone' = ctxDone /\ (d \in unclean' <=> d \in unclean)
      BY <2>1 DEF AdapterTypeOK
    <3>2. ResultInv
      OBVIOUS
    <3> QED BY ONLY <1>a, <2>1, <3>1, <3>2 DEF ResultInv
  <2>2. /\ result'[c] = "none" <=> pc'[c] \notin Leaving
        /\ result'[c] = "ok" => c \in approved'
        /\ result'[c] = "denied" => outcome'[c] = "denied"
        /\ result'[c] \in {"denied", "timeout"} => c \notin approved'
        /\ result'[c] = "cancelled" => c \in ctxDone'
        /\ (result'[c] = "cancelled" /\ c \in known' /\ c \notin unclean'
             /\ pc'[c] \in {"emit", "unregister", "done"}) => outcome'[c] # "pending"
    BY Names, <1>a DEF ResultInv, AdapterTypeOK, KnowInv, SendInv, Leaving, Asking, Kinds
  <2>3. c \in Calls OBVIOUS
  <2> QED BY ONLY <2>1, <2>2, <2>3 DEF ResultInv
<1> QED BY <1>1, <1>2, <1>3, <1>4, <1>5

\* An answer arrives.
LEMMA ReceiveStep ==
  ASSUME McpInv, NEW c \in Calls, Receive(c)
  PROVE  McpInv'
<1> USE DEF McpInv, broker, goroutine, Receive, Waiting, Call, Sent, Leave, Reads
<1>1. AdapterTypeOK' BY Names DEF AdapterTypeOK, Kinds, Answers, Results, KnowInv
<1>2. EntryInv' BY Names DEF EntryInv, AdapterTypeOK, Live, Kinds
<1>a. /\ \A d \in Calls : d # c =>
           /\ pc'[d] = pc[d] /\ answer'[d] = answer[d] /\ result'[d] = result[d]
           /\ d \in known' <=> d \in known
           /\ d \in approved' <=> d \in approved
      /\ answer'[c] = "none"
      /\ UNCHANGED <<outcome, executed, early, ctxDone, unclean>>
  BY DEF AdapterTypeOK
<1>b. /\ c \in approved' <=> (c \in approved \/ (pc[c] = "status" /\ answer[c] = "approved"))
      /\ c \in known' <=> (c \in known \/ pc[c] = "request")
  <2>1. /\ known' = IF pc[c] = "request" THEN known \cup {c} ELSE known
        /\ approved' = IF pc[c] = "status" /\ answer[c] = "approved"
                       THEN approved \cup {c} ELSE approved
    OBVIOUS
  <2> QED BY ONLY <2>1
<1>c. /\ \A d, m : <<d, m>> \in wire' =>
           <<d, m>> \in wire \/ (d = c /\ m = pc'[c] /\ c \notin ctxDone)
      /\ \/ pc[c] = "resolve" /\ pc'[c] = "request" /\ result'[c] = result[c]
         \/ pc[c] = "request" /\ pc'[c] = "poll" /\ result'[c] = result[c]
         \/ /\ pc[c] = "status" /\ answer[c] = "approved" /\ pc'[c] = "lease"
            /\ result'[c] = result[c]
         \/ /\ pc[c] = "status" /\ answer[c] = "denied" /\ result'[c] = "denied"
            /\ pc'[c] \in {"return", "emit"} /\ (pc'[c] = "return" => c \in known)
         \/ /\ pc[c] = "status" /\ answer[c] = "pending" /\ result'[c] = "timeout"
            /\ pc'[c] \in {"return", "emit"} /\ (pc'[c] = "return" => c \in known)
         \/ /\ pc[c] = "status" /\ answer[c] = "pending" /\ pc'[c] = "poll"
            /\ result'[c] = result[c]
         \/ pc[c] = "lease" /\ pc'[c] = "execute" /\ result'[c] = result[c]
         \/ /\ pc[c] = "execute" /\ result'[c] = "ok"
            /\ pc'[c] \in {"return", "emit"} /\ (pc'[c] = "return" => c \in known)
         \/ pc[c] = "cancel" /\ pc'[c] = "emit" /\ result'[c] = result[c]
  <2>1. pc \in [Calls -> Kinds \cup {"idle", "poll", "return", "emit", "unregister", "done"}]
        /\ result \in [Calls -> Results]
    BY DEF AdapterTypeOK
  <2>2. \A d, m : d # c => (<<d, m>> \in wire' => <<d, m>> \in wire)
    BY WirePairs
  <2>3. CASE pc[c] = "resolve" BY <2>1, <2>3, WirePairs
  <2>4. CASE pc[c] = "request" BY <2>1, <2>4
  <2>5. CASE pc[c] = "status" /\ answer[c] = "approved" BY <2>1, <2>5, WirePairs
  <2>6. CASE pc[c] = "status" /\ answer[c] = "denied" BY <2>1, <2>6
  <2>7. CASE pc[c] = "status" /\ answer[c] = "pending" BY <2>1, <2>7
  <2>8. CASE pc[c] = "lease" BY <2>1, <2>8, WirePairs
  <2>9. CASE pc[c] = "execute" BY <2>1, <2>9
  <2>10. CASE pc[c] = "cancel" BY <2>1, <2>10
  <2> QED BY <2>3, <2>4, <2>5, <2>6, <2>7, <2>8, <2>9, <2>10
<1>3. SendInv'
  <2>1. ASSUME NEW d \in Calls, d # c
        PROVE  /\ pc'[d] \in Asking => d \notin approved'
               /\ pc'[d] \in {"lease", "execute"} => d \in approved'
               /\ <<d, "execute">> \in wire' \/ d \in executed' =>
                    d \in approved' /\ d \notin early'
               /\ d \in early' => d \in ctxDone'
    BY <1>a, <1>c, <2>1 DEF SendInv
  <2>2. /\ pc'[c] \in Asking => c \notin approved'
        /\ pc'[c] \in {"lease", "execute"} => c \in approved'
    BY <1>b, <1>c DEF SendInv, Asking
  <2>3. /\ <<c, "execute">> \in wire' \/ c \in executed' =>
             c \in approved' /\ c \notin early'
        /\ c \in early' => c \in ctxDone'
    BY <1>a, <1>b, <1>c DEF SendInv
  <2> QED BY <2>1, <2>2, <2>3 DEF SendInv
<1>4. KnowInv'
  <2>1. /\ c \in approved' => outcome[c] = "approved"
        /\ c \in known' => outcome[c] # "absent"
    BY <1>b DEF KnowInv, AdapterTypeOK, Answers
  <2>2. pc'[c] \in {"poll", "status", "lease", "execute", "return", "cancel"} => c \in known'
    BY <1>b, <1>c DEF KnowInv
  <2>3. \A d \in Calls : <<d, "status">> \in wire' => d \in known'
    BY <1>a, <1>b, <1>c DEF KnowInv
  <2>4. ASSUME NEW d \in Calls, d # c
        PROVE  /\ d \in approved' => outcome'[d] = "approved"
               /\ d \in known' => outcome'[d] # "absent"
               /\ pc'[d] \in {"poll", "status", "lease", "execute", "return", "cancel"} => d \in known'
               /\ answer'[d] # "none" => pc'[d] \in Kinds
               /\ answer'[d] \in {"pending", "approved", "denied"} => pc'[d] = "status"
               /\ answer'[d] \in {"approved", "denied"} => outcome'[d] = answer'[d]
               /\ answer'[d] = "ok" => pc'[d] # "status"
               /\ answer'[d] = "ok" /\ pc'[d] = "request" => outcome'[d] # "absent"
               /\ answer'[d] = "ok" /\ pc'[d] = "cancel" => outcome'[d] # "pending"
    <3>1. KnowInv
      OBVIOUS
    <3> QED BY ONLY <1>a, <2>4, <3>1 DEF KnowInv
  <2>5. /\ c \in approved' => outcome'[c] = "approved"
        /\ c \in known' => outcome'[c] # "absent"
        /\ answer'[c] = "none"
    <3>1. answer[c] = "approved" => outcome[c] = "approved"
      BY DEF KnowInv
    <3>2. pc[c] = "request" => outcome[c] # "absent"
      BY DEF KnowInv, AdapterTypeOK, Answers
    <3> QED BY ONLY <1>a, <1>b, <2>1, <3>1, <3>2
  <2>6. c \in Calls OBVIOUS
  <2> QED BY ONLY <2>2, <2>3, <2>4, <2>5, <2>6 DEF KnowInv
<1>5. ResultInv'
  <2>1. c \in known' /\ pc[c] # "request" => c \in known BY <1>b
  <2>2. result'[c] = "none" <=> pc'[c] \notin Leaving
    BY <1>c DEF ResultInv, Leaving
  <2>3. pc[c] \notin Leaving \/ pc[c] = "cancel"
    BY DEF Leaving, Kinds
  <2>4. /\ result'[c] = "ok" => c \in approved'
        /\ result'[c] = "denied" => outcome[c] = "denied"
        /\ result'[c] \in {"denied", "timeout"} => c \notin approved'
        /\ result'[c] = "cancelled" => c \in ctxDone
    BY <1>b, <1>c, <2>3 DEF ResultInv, SendInv, KnowInv, Asking
  <2>5. pc[c] = "cancel" => outcome[c] # "pending"
    BY DEF KnowInv, AdapterTypeOK, Answers
  <2>6. result'[c] = "cancelled" => pc[c] = "cancel"
    BY <1>c, <2>3 DEF ResultInv
  <2> QED BY <1>a, <2>1, <2>2, <2>4, <2>5, <2>6 DEF ResultInv
<1> QED BY <1>1, <1>2, <1>3, <1>4, <1>5

\* The polling loop goes round.
LEMMA PollStep ==
  ASSUME McpInv, NEW c \in Calls, Poll(c)
  PROVE  McpInv'
<1> USE DEF McpInv, broker, goroutine, Poll, Call, Sent, Leave, Reads
<1>1. AdapterTypeOK' BY Names DEF AdapterTypeOK, Kinds, Answers, Results, KnowInv
<1>2. EntryInv' BY Names DEF EntryInv, AdapterTypeOK, Live, Kinds
<1>a. /\ \A d \in Calls : d # c => pc'[d] = pc[d]
      /\ pc[c] = "poll" /\ pc'[c] \in {"return", "emit", "status"}
      /\ pc'[c] = "return" => c \in known
      /\ \A d, m : <<d, m>> \in wire' => <<d, m>> \in wire \/ (d = c /\ m = "status")
      /\ UNCHANGED <<outcome, known, approved, answer, executed, early, ctxDone>>
  <2>1. CASE c \in ctxDone BY <2>1, WirePairs DEF AdapterTypeOK
  <2>2. CASE c \notin ctxDone BY <2>2, WirePairs DEF AdapterTypeOK
  <2> QED BY <2>1, <2>2
<1>3. SendInv' BY <1>a DEF SendInv, Asking
<1>4. KnowInv' BY <1>a DEF KnowInv, Kinds
<1>5. ResultInv' BY Names DEF ResultInv, AdapterTypeOK, KnowInv, SendInv, Leaving, Asking, Kinds
<1> QED BY <1>1, <1>2, <1>3, <1>4, <1>5

\* The approval timeout passes.
LEMMA DeadlineStep ==
  ASSUME McpInv, NEW c \in Calls, Deadline(c)
  PROVE  McpInv'
<1> USE DEF McpInv, broker, goroutine, Deadline
<1>1. AdapterTypeOK' BY Names DEF AdapterTypeOK, Kinds, Answers, Results, KnowInv
<1>2. EntryInv' BY Names DEF EntryInv, AdapterTypeOK, Live, Kinds
<1>3. SendInv' BY Names DEF SendInv, AdapterTypeOK, Asking, Kinds
<1>4. KnowInv' BY Names DEF KnowInv, AdapterTypeOK, SendInv, Kinds, Asking
<1>5. ResultInv' BY Names DEF ResultInv, AdapterTypeOK, KnowInv, SendInv, Leaving, Asking, Kinds
<1> QED BY <1>1, <1>2, <1>3, <1>4, <1>5

\* The deferred function runs.
LEMMA CleanupStep ==
  ASSUME McpInv, NEW c \in Calls, Cleanup(c)
  PROVE  McpInv'
<1> USE DEF McpInv, broker, goroutine, Cleanup, NeedsCleanup, Call, Sent
<1>1. AdapterTypeOK' BY Names DEF AdapterTypeOK, Kinds, Answers, Results, KnowInv
<1>2. EntryInv' BY Names DEF EntryInv, AdapterTypeOK, Live, Kinds
<1>a. /\ \A d \in Calls : d # c => pc'[d] = pc[d]
      /\ pc[c] = "return" /\ pc'[c] \in {"cancel", "emit"}
      /\ \A d, m : <<d, m>> \in wire' => <<d, m>> \in wire \/ m = "cancel"
      /\ UNCHANGED <<outcome, known, approved, answer, executed, early, ctxDone>>
  BY WirePairs DEF AdapterTypeOK
<1>3. SendInv' BY <1>a DEF SendInv, Asking
<1>4. KnowInv' BY <1>a DEF KnowInv, Kinds
<1>b. UNCHANGED <<result, unclean>> /\ (pc'[c] = "emit" => ~NeedsCleanup(c))
  BY DEF AdapterTypeOK
<1>5. ResultInv'
  <2>1. ASSUME NEW d \in Calls, d # c
        PROVE  result[d]' = result[d] /\ pc'[d] = pc[d] /\ d \in Calls
    BY <1>a, <1>b, <2>1
  <2>2. result[c] = "cancelled" => pc'[c] = "cancel" \/ outcome[c] = "approved"
    BY <1>a, <1>b DEF ResultInv, KnowInv
  <2> QED BY <1>a, <1>b, <2>1, <2>2 DEF ResultInv, Leaving
<1> QED BY <1>1, <1>2, <1>3, <1>4, <1>5

\* The reply goes out.
LEMMA EmitStep ==
  ASSUME McpInv, NEW c \in Calls, Emit(c)
  PROVE  McpInv'
<1> USE DEF McpInv, broker, goroutine, Emit
<1>1. AdapterTypeOK' BY Names DEF AdapterTypeOK, Kinds, Answers, Results, KnowInv
<1>2. EntryInv' BY Names DEF EntryInv, AdapterTypeOK, Live, Kinds
<1>3. SendInv' BY Names DEF SendInv, AdapterTypeOK, Asking, Kinds
<1>4. KnowInv' BY Names DEF KnowInv, AdapterTypeOK, SendInv, Kinds, Asking
<1>5. ResultInv' BY Names DEF ResultInv, AdapterTypeOK, KnowInv, SendInv, Leaving, Asking, Kinds
<1> QED BY <1>1, <1>2, <1>3, <1>4, <1>5

\* The entry is removed.
LEMMA UnregisterStep ==
  ASSUME McpInv, NEW c \in Calls, Unregister(c)
  PROVE  McpInv'
<1> USE DEF McpInv, broker, goroutine, Unregister
<1>1. AdapterTypeOK' BY Names DEF AdapterTypeOK, Kinds, Answers, Results, KnowInv
<1>2. EntryInv' BY Names DEF EntryInv, AdapterTypeOK, Live, Kinds
<1>3. SendInv' BY Names DEF SendInv, AdapterTypeOK, Asking, Kinds
<1>4. KnowInv' BY Names DEF KnowInv, AdapterTypeOK, SendInv, Kinds, Asking
<1>5. ResultInv' BY Names DEF ResultInv, AdapterTypeOK, KnowInv, SendInv, Leaving, Asking, Kinds
<1> QED BY <1>1, <1>2, <1>3, <1>4, <1>5

\* The broker refuses.
LEMMA RefuseStep ==
  ASSUME McpInv, NEW c \in Calls, NEW kind \in Kinds, Refuse(c, kind)
  PROVE  McpInv'
<1> USE DEF McpInv, broker, goroutine, Refuse, Reply
<1>1. AdapterTypeOK' BY Names DEF AdapterTypeOK, Kinds, Answers, Results, KnowInv
<1>2. EntryInv' BY Names DEF EntryInv, AdapterTypeOK, Live, Kinds
<1>3. SendInv' BY Names DEF SendInv, AdapterTypeOK, Asking, Kinds
<1>4. KnowInv' BY Names DEF KnowInv, AdapterTypeOK, SendInv, Kinds, Asking
<1>5. ResultInv' BY Names DEF ResultInv, AdapterTypeOK, KnowInv, SendInv, Leaving, Asking, Kinds
<1> QED BY <1>1, <1>2, <1>3, <1>4, <1>5

\* The broker serves.
LEMMA ServeStep ==
  ASSUME McpInv, NEW c \in Calls, NEW kind \in Kinds, Serve(c, kind)
  PROVE  McpInv'
<1> USE DEF McpInv, broker, goroutine, Serve, Reply, Contract!Serve, Contract!Advances, Contract!Decisions
<1>1. AdapterTypeOK' BY Names DEF AdapterTypeOK, Kinds, Answers, Results, KnowInv
<1>2. EntryInv' BY Names DEF EntryInv, AdapterTypeOK, Live, Kinds
<1>3. SendInv' BY Names DEF SendInv, AdapterTypeOK, Asking, Kinds
<1>a. /\ UNCHANGED <<pc, result, known, approved, ctxDone, early, unclean>>
      /\ \A d, m : <<d, m>> \in wire' => <<d, m>> \in wire
      /\ \A d \in Calls : d # c => answer'[d] = answer[d] /\ outcome'[d] = outcome[d]
      /\ pc[c] # kind => answer'[c] = answer[c]
      /\ \/ outcome'[c] = outcome[c]
         \/ outcome[c] = "absent" /\ outcome'[c] = "pending"
         \/ outcome[c] = "pending" /\ outcome'[c] = "denied"
  <2>1. \A d, m : <<d, m>> \in wire' => <<d, m>> \in wire OBVIOUS
  <2>2. /\ \A d \in Calls : d # c => answer'[d] = answer[d]
        /\ pc[c] # kind => answer'[c] = answer[c]
    BY DEF AdapterTypeOK
  <2>3. /\ \A d \in Calls : d # c => outcome'[d] = outcome[d]
        /\ \/ outcome'[c] = outcome[c]
           \/ outcome[c] = "absent" /\ outcome'[c] = "pending"
           \/ outcome[c] = "pending" /\ outcome'[c] = "denied"
    BY DEF AdapterTypeOK
  <2> QED BY <2>1, <2>2, <2>3
<1>b. pc[c] = kind =>
        /\ answer'[c] = IF kind = "status" THEN outcome[c] ELSE "ok"
        /\ kind = "status" => outcome'[c] = outcome[c] /\ <<c, "status">> \in wire
        /\ kind = "request" => outcome'[c] = "pending"
        /\ kind = "cancel" => outcome'[c] = "denied"
  BY DEF AdapterTypeOK, Kinds
<1>d. KnowInv /\ ResultInv /\ c \in Calls /\ kind \in Kinds /\ outcome[c] # "ok"
  <2>1. outcome[c] # "ok"
    BY DEF AdapterTypeOK
  <2> QED BY <2>1
<1>4. KnowInv'
  <2>1. \A d \in Calls :
          /\ d \in approved' => outcome'[d] = "approved"
          /\ d \in known' => outcome'[d] # "absent"
          /\ pc'[d] \in {"poll", "status", "lease", "execute", "return", "cancel"} => d \in known'
          /\ <<d, "status">> \in wire' => d \in known'
    BY <1>a DEF KnowInv
  <2>2. CASE pc[c] = kind
    <3>1. /\ answer'[c] # "none" => pc'[c] \in Kinds
          /\ answer'[c] = "ok" => pc'[c] # "status"
          /\ answer'[c] = "ok" /\ pc'[c] = "request" => outcome'[c] # "absent"
          /\ answer'[c] = "ok" /\ pc'[c] = "cancel" => outcome'[c] # "pending"
      BY ONLY <1>a, <1>b, <1>d, <2>2 DEF Kinds
    <3>2. /\ answer'[c] \in {"pending", "approved", "denied"} => pc'[c] = "status"
          /\ answer'[c] \in {"approved", "denied"} => outcome'[c] = answer'[c]
      BY ONLY <1>a, <1>b, <2>2
    <3>3. \A d \in Calls : d # c =>
            /\ answer'[d] = answer[d] /\ outcome'[d] = outcome[d] /\ pc'[d] = pc[d]
      BY <1>a
    <3>4. ASSUME NEW d \in Calls
          PROVE  /\ answer'[d] # "none" => pc'[d] \in Kinds
                 /\ answer'[d] \in {"pending", "approved", "denied"} => pc'[d] = "status"
                 /\ answer'[d] \in {"approved", "denied"} => outcome'[d] = answer'[d]
                 /\ answer'[d] = "ok" => pc'[d] # "status"
                 /\ answer'[d] = "ok" /\ pc'[d] = "request" => outcome'[d] # "absent"
                 /\ answer'[d] = "ok" /\ pc'[d] = "cancel" => outcome'[d] # "pending"
      <4>1. CASE d = c BY <3>1, <3>2, <4>1
      <4>2. CASE d # c
        BY ONLY <1>d, <3>3, <3>4, <4>2 DEF KnowInv
      <4> QED BY <4>1, <4>2
    <3> QED BY ONLY <2>1, <3>4 DEF KnowInv
  <2>3. CASE pc[c] # kind
    <3>1. ASSUME NEW d \in Calls
          PROVE  /\ answer'[d] = answer[d] /\ pc'[d] = pc[d]
                 /\ answer[d] \in {"approved", "denied"} => outcome'[d] = answer[d]
                 /\ answer[d] = "ok" /\ pc[d] = "request" => outcome'[d] # "absent"
                 /\ answer[d] = "ok" /\ pc[d] = "cancel" => outcome'[d] # "pending"
      <4>1. CASE d = c
        BY ONLY <1>a, <1>d, <2>3, <4>1 DEF KnowInv
      <4>2. CASE d # c
        BY ONLY <1>a, <1>d, <3>1, <4>2 DEF KnowInv
      <4> QED BY <4>1, <4>2
    <3> QED BY ONLY <1>d, <2>1, <3>1 DEF KnowInv
  <2> QED BY <2>2, <2>3
<1>5. ResultInv'
  <2>1. ASSUME NEW d \in Calls
        PROVE  /\ outcome[d] = "denied" => outcome'[d] = "denied"
               /\ d \in known /\ outcome[d] # "pending" => outcome'[d] # "pending"
    BY ONLY <1>a, <1>d, <2>1 DEF KnowInv
  <2> QED BY ONLY <1>a, <1>d, <2>1 DEF ResultInv
<1> QED BY <1>1, <1>2, <1>3, <1>4, <1>5

\* The operator decides.
LEMMA DecideStep ==
  ASSUME McpInv, NEW c \in Calls, NEW to \in {"approved", "denied"}, Decide(c, to)
  PROVE  McpInv'
<1> USE DEF McpInv, broker, goroutine, Decide, Contract!Serve, Contract!Advances, Contract!Decisions
<1>1. AdapterTypeOK' BY Names DEF AdapterTypeOK, Kinds, Answers, Results, KnowInv
<1>2. EntryInv' BY Names DEF EntryInv, AdapterTypeOK, Live, Kinds
<1>3. SendInv' BY Names DEF SendInv, AdapterTypeOK, Asking, Kinds
<1>4. KnowInv' BY Names DEF KnowInv, AdapterTypeOK, SendInv, Kinds, Asking
<1>5. ResultInv' BY Names DEF ResultInv, AdapterTypeOK, KnowInv, SendInv, Leaving, Asking, Kinds
<1> QED BY <1>1, <1>2, <1>3, <1>4, <1>5

\* Nothing happens.
LEMMA StutterStep ==
  ASSUME McpInv, UNCHANGED avars
  PROVE  McpInv'
BY DEF McpInv, avars, broker, goroutine, AdapterTypeOK, EntryInv, Live, SendInv, KnowInv,
       ResultInv

\* The invariant holds at the start.
LEMMA McpInit == AdapterInit => McpInv
<1> SUFFICES ASSUME AdapterInit PROVE McpInv OBVIOUS
<1> USE DEF AdapterInit, Contract!Init
<1>1. AdapterTypeOK BY DEF AdapterTypeOK, Results, Answers
<1>2. EntryInv BY DEF EntryInv, Live
<1>3. SendInv BY DEF SendInv
<1>4. KnowInv BY DEF KnowInv
<1>5. ResultInv BY DEF ResultInv, Leaving
<1> QED BY <1>1, <1>2, <1>3, <1>4, <1>5 DEF McpInv

------------------------------------------------------------------------------
(* The theorems *)

\* McpInv is inductive: every step of the read loop, of a call, of the broker and
\* of the operator keeps it.
THEOREM McpInvariant == AdapterSpec => []McpInv
<1>1. McpInv /\ [AdapterNext]_avars => McpInv'
  <2> SUFFICES ASSUME McpInv, [AdapterNext]_avars PROVE McpInv' OBVIOUS
  <2>1. CASE Return \/ Exit BY <2>1, ReturnStep, ExitStep
  <2>2. ASSUME NEW i \in Ids, CancelNotification(i) PROVE McpInv'
    BY <2>2, CancelNotificationStep
  <2>3. ASSUME NEW c \in Calls, NEW i \in Ids, Register(c, i) PROVE McpInv'
    BY <2>3, RegisterStep
  <2>4. ASSUME NEW c \in Calls, GoroutineStep(c) PROVE McpInv'
    BY <2>4, CallFailsStep, ReceiveStep, PollStep, CleanupStep, EmitStep, UnregisterStep
    DEF GoroutineStep
  <2>5. ASSUME NEW c \in Calls, Deadline(c) PROVE McpInv' BY <2>5, DeadlineStep
  <2>6. ASSUME NEW c \in Calls, NEW kind \in Kinds, Serve(c, kind) \/ Refuse(c, kind)
        PROVE  McpInv'
    BY <2>6, ServeStep, RefuseStep
  <2>7. ASSUME NEW c \in Calls, NEW to \in {"approved", "denied"}, Decide(c, to)
        PROVE  McpInv'
    BY <2>7, DecideStep
  <2>8. CASE UNCHANGED avars BY <2>8, StutterStep
  <2> QED
    BY <2>1, <2>2, <2>3, <2>4, <2>5, <2>6, <2>7, <2>8 DEF AdapterNext
<1> QED BY <1>1, McpInit, PTL DEF AdapterSpec

\* A live call is the one its key leads to, and no finished call is in flight: a
\* cancellation reaches the call it names, a removal takes no other call's entry
\* (main.go: registerInFlight, unregisterInFlight, and reply before removal).
THEOREM InflightExactHolds == AdapterSpec => []InflightExact
<1>1. McpInv => InflightExact BY DEF McpInv, EntryInv, InflightExact
<1> QED BY <1>1, McpInvariant, PTL

\* A call cancelled before it saw an approval never has its command run, and a
\* reply that says denied or timed out is final (main.go: executeWithIntent,
\* postAuth).
THEOREM RefusalsHoldAlways == AdapterSpec => []RefusalsHold
<1>1. McpInv => RefusalsHold
  BY DEF McpInv, AdapterTypeOK, SendInv, ResultInv, RefusalsHold,
         CancelledBeforeApprovalNeverRuns, RefusalIsFinal
<1> QED BY <1>1, McpInvariant, PTL

\* An answered call leaves a request to the operator only if it timed out on it,
\* lost an answer for it, never learnt its id, or warned that its clean-up failed
\* (main.go: executeWithIntent and its deferred clean-up).
THEOREM OrphansExplainedHolds == AdapterSpec => []OrphansExplained
<1>1. McpInv => OrphansExplained
  <2> SUFFICES ASSUME McpInv, NEW c \in Calls, Answered(c), outcome[c] = "pending",
                      c \in known, c \notin unclean
               PROVE  result[c] \in {"timeout", "error"}
    BY DEF OrphansExplained
  <2>1. pc[c] \in {"unregister", "done"} BY DEF Answered
  <2>2. result[c] # "none" BY <2>1 DEF McpInv, ResultInv, Leaving
  <2>3. result[c] \in Results BY DEF McpInv, AdapterTypeOK
  <2>4. result[c] \notin {"ok", "denied", "cancelled"}
    BY <2>1 DEF McpInv, ResultInv, KnowInv
  <2> QED BY <2>2, <2>3, <2>4 DEF Results
<1> QED BY <1>1, McpInvariant, PTL
==============================================================================
