------------------------ MODULE RequestLifecycleProofs ------------------------
(***************************************************************************)
(* The life of requests, for any requests, nodes, retries and environment. *)
(* The inductive invariant says where a request stands by its label: what  *)
(* it has tried is what has failed, and the node it is with; it holds a    *)
(* slot or goes on only with a key the gate let through; and whom it names *)
(* at the end it was sent through, unless it ran out of time.              *)
(***************************************************************************)
EXTENDS RequestLifecycle, FiniteSetTheorems, TLAPS

Out == {"connect", "exchange", "fetch"}  \* the request is with a node

\* A request that has not passed the filter has touched nothing.
Untouched(r) ==
  pc[r] = "filter" =>
    /\ tried[r] = {} /\ failed[r] = {} /\ current[r] = {} /\ retries[r] = 0
    /\ r \notin owners \cup returned

\* Each node that was tried has failed, but for the one the request is with; each
\* failure was counted, and the last one alone may go uncounted.
Attempts(r) ==
  /\ IsFiniteSet(failed[r]) /\ IsFiniteSet(tried[r])
  /\ Cardinality(tried[r]) <= MaxRetries + 1
  /\ pc[r] = "peer" => tried[r] = failed[r] /\ Cardinality(failed[r]) = retries[r]
  /\ pc[r] \in Out =>
       /\ Cardinality(failed[r]) = retries[r]
       /\ \E n \in Nodes \ failed[r] : current[r] = {n} /\ tried[r] = failed[r] \cup {n}

\* The key of a request lets it pass.
KeyFits(r) ==
  /\ config.apiKey # "unset" => config.apiKey = "own" /\ req[r].key = "own"
  /\ config.gate => req[r].key # "none"

PassedWithKey(r) ==
  pc[r] \in Out \cup {"peer"} \/ tried[r] # {} \/ r \in owners \cup returned => KeyFits(r)

\* The node a request names it was sent through, or it has run out of time.
NamesTried(r) == current[r] \subseteq tried[r] \/ (pc[r] \in {"logging", "done"} /\ status[r] = 503)

EventsTyped == \A e \in events : e.out \subseteq Nodes

ByRequest(r) == Untouched(r) /\ Attempts(r) /\ PassedWithKey(r) /\ NamesTried(r)

IInv ==
  /\ TypeOK /\ EventsTyped
  /\ \A r \in Requests : ByRequest(r)
  /\ CredentialsStayOffFree
  /\ InnocentUntilTried

-----------------------------------------------------------------------------
\* Types

LEMMA InitIInv == Init => IInv
<1>. SUFFICES ASSUME Init PROVE IInv
  OBVIOUS
<1>1. TypeOK
  BY NodeSets, Numbers DEF Init, TypeOK, Slots!Init, Labels, Origins
<1>2. EventsTyped /\ CredentialsStayOffFree /\ InnocentUntilTried
  BY DEF Init, EventsTyped, CredentialsStayOffFree, InnocentUntilTried
<1>3. ASSUME NEW r \in Requests PROVE ByRequest(r)
  BY <1>3, FS_EmptySet, Numbers
     DEF Init, Slots!Init, ByRequest, Untouched, Attempts, PassedWithKey, NamesTried, Out
<1>. QED
  BY <1>1, <1>2, <1>3 DEF IInv

\* Statuses that a request may end with.
Statuses == {0, 400, 402, 403, 429, 502, 503} \cup Answers

LEMMA RespondType ==
  ASSUME TypeOK, NEW r \in Requests, NEW from, NEW code \in Statuses, NEW who \in Origins,
         Respond(r, from, code, who)
  PROVE  /\ pc' \in [Requests -> Labels]
         /\ status' \in [Requests -> Statuses]
         /\ origin' \in [Requests -> Origins]
BY DEF TypeOK, Respond, Goto, Labels, Statuses

LEMMA CountFailureType ==
  ASSUME TypeOK, NEW r \in Requests, CountFailure(r)
  PROVE  failed' \in [Requests -> SUBSET Nodes] /\ retries' \in [Requests -> 0..MaxRetries]
BY Numbers DEF TypeOK, CountFailure

LEMMA TypeStep == ASSUME TypeOK, EventsTyped, [Next]_vars PROVE TypeOK'
<1>. USE DEF Statuses, Origins
<1>1. CASE UNCHANGED vars
  BY <1>1 DEF TypeOK, vars, slots, context, outcome, breaker
<1>2. ASSUME NEW r \in Requests, Step(r), UNCHANGED config
      PROVE  TypeOK'
  <2>. USE <1>2 DEF slots, context, outcome, breaker
  <2>1. CASE RejectHead(r)
    BY <2>1, RespondType DEF RejectHead, TypeOK
  <2>2. CASE RejectKey(r)
    BY <2>2, RespondType DEF RejectKey, TypeOK
  <2>3. CASE RejectTenant(r)
    BY <2>3, RespondType DEF RejectTenant, TypeOK, Slots!Refuse, AuthStatus
  <2>4. CASE Admit(r)
    <3>1. /\ pc' \in [Requests -> Labels] /\ status' \in [Requests -> Statuses]
          /\ origin' \in [Requests -> Origins]
      BY <2>4, RespondType DEF Admit, TypeOK, Goto, Labels
    <3>. QED
      BY <2>4, <3>1 DEF Admit, TypeOK, Slots!Acquire
  <2>5. CASE NoNode(r) \/ GuardNode(r)
    BY <2>5, RespondType DEF NoNode, GuardNode, TypeOK
  <2>6. CASE TakeNode(r)
    BY <2>6 DEF TakeNode, TypeOK, Goto, Labels, Matching
  <2>7. CASE Connect(r)
    BY <2>7 DEF Connect, TypeOK, Goto, Labels
  <2>8. CASE FailToConnect(r)
    <3>1. /\ pc' \in [Requests -> Labels] /\ status' \in [Requests -> Statuses]
          /\ origin' \in [Requests -> Origins]
      BY <2>8, RespondType DEF FailToConnect, TypeOK, Goto, Labels
    <3>. QED
      BY <2>8, <3>1, CountFailureType DEF FailToConnect, TypeOK
  <2>9. CASE Answer(r)
    <3>1. PICK code \in Answers : Respond(r, "exchange", code, "upstream")
      BY <2>9 DEF Answer
    <3>2. code \in Statuses
      OBVIOUS
    <3>3. /\ pc' \in [Requests -> Labels] /\ status' \in [Requests -> Statuses]
          /\ origin' \in [Requests -> Origins]
      BY <3>1, <3>2, RespondType
    <3>. QED
      BY <2>9, <3>3 DEF Answer, TypeOK
  <2>10. CASE RefuseSocks(r)
    BY <2>10, RespondType DEF RefuseSocks, TypeOK
  <2>11. CASE RunOut(r)
    <3>1. current' \in [Requests -> {{}} \cup {{n} : n \in Nodes}]
      <4>1. CASE UNCHANGED current
        BY <4>1 DEF TypeOK
      <4>2. CASE \E n \in Matching(r) : current' = [current EXCEPT ![r] = {n}]
        BY <4>2 DEF TypeOK, Matching
      <4>. QED
        BY <2>11, <4>1, <4>2 DEF RunOut
    <3>2. Respond(r, "peer", 503, "gateway")
      BY <2>11 DEF RunOut
    <3>. QED
      BY <2>11, <3>1, <3>2, RespondType DEF RunOut, TypeOK
  <2>12. CASE FetchAnswer(r)
    <3>1. PICK code \in Answers : WriteBridgeResponse(r, code)
      BY <2>12 DEF FetchAnswer
    <3>2. code \in Statuses /\ 0 \in Statuses
      OBVIOUS
    <3>3. /\ pc' \in [Requests -> Labels] /\ status' \in [Requests -> Statuses]
          /\ origin' \in [Requests -> Origins]
      BY <3>1, <3>2, RespondType DEF WriteBridgeResponse
    <3>. QED
      BY <2>12, <3>3 DEF FetchAnswer, TypeOK
  <2>13. CASE FetchFail(r)
    <3>1. /\ pc' \in [Requests -> Labels] /\ status' \in [Requests -> Statuses]
          /\ origin' \in [Requests -> Origins]
      BY <2>13, RespondType DEF FetchFail, TypeOK, Goto, Labels
    <3>. QED
      BY <2>13, <3>1, CountFailureType DEF FetchFail, TypeOK
  <2>14. CASE Logging(r)
    <3>1. arms' \in [Nodes -> SUBSET Rewards]
      BY <2>14 DEF Logging, Taught, Reward, Rewards, TypeOK
    <3>2. owners' \subseteq Requests /\ refused' \subseteq Requests /\ returned' \subseteq Requests
      BY <2>14 DEF Logging, Slots!Release, TypeOK
    <3>. QED
      BY <2>14, <3>1, <3>2 DEF Logging, Goto, Labels, TypeOK
  <2>. QED
    BY <2>1, <2>2, <2>3, <2>4, <2>5, <2>6, <2>7, <2>8, <2>9, <2>10, <2>11, <2>12, <2>13, <2>14
       DEF Step
<1>3. ASSUME NEW e \in events, Consume(e), UNCHANGED config PROVE TypeOK'
  BY <1>3 DEF Consume, EventsTyped, TypeOK, slots, context, outcome
<1>4. ASSUME NEW n \in Nodes, Expire(n), UNCHANGED config PROVE TypeOK'
  BY <1>4 DEF Expire, TypeOK, slots, context, outcome
<1>. QED
  BY <1>1, <1>2, <1>3, <1>4 DEF Next

-----------------------------------------------------------------------------
\* Requests

\* A step of one request leaves what the others have alone.
LEMMA OthersKeep ==
  ASSUME TypeOK, NEW r \in Requests, Step(r), NEW q \in Requests, q # r
  PROVE  /\ pc'[q] = pc[q] /\ req' = req
         /\ current'[q] = current[q] /\ failed'[q] = failed[q] /\ retries'[q] = retries[q]
         /\ status'[q] = status[q] /\ tried'[q] = tried[q]
         /\ q \in owners' \cup returned' => q \in owners \cup returned
<1>. USE DEF TypeOK, Goto, Respond, CountFailure, slots, context, outcome, breaker
<1>1. CASE RejectHead(r) \/ RejectKey(r) \/ RejectTenant(r) \/ Admit(r)
  BY <1>1 DEF RejectHead, RejectKey, RejectTenant, Admit, Slots!Refuse, Slots!Acquire
<1>2. CASE NoNode(r) \/ GuardNode(r) \/ TakeNode(r)
  BY <1>2 DEF NoNode, GuardNode, TakeNode
<1>3. CASE Connect(r) \/ FailToConnect(r) \/ Answer(r)
  BY <1>3 DEF Connect, FailToConnect, Answer
<1>4. CASE RefuseSocks(r) \/ RunOut(r)
  BY <1>4 DEF RefuseSocks, RunOut
<1>5. CASE FetchAnswer(r) \/ FetchFail(r)
  BY <1>5 DEF FetchAnswer, FetchFail, WriteBridgeResponse
<1>6. CASE Logging(r)
  BY <1>6 DEF Logging, Slots!Release
<1>. QED
  BY <1>1, <1>2, <1>3, <1>4, <1>5, <1>6 DEF Step

\* So that what holds of them goes on to hold.
LEMMA OthersStep ==
  ASSUME TypeOK, NEW r \in Requests, Step(r), UNCHANGED config,
         NEW q \in Requests, q # r, ByRequest(q)
  PROVE  ByRequest(q)'
BY OthersKeep DEF ByRequest, Untouched, Attempts, PassedWithKey, KeyFits, NamesTried

\* The gate lets a request with a tenant pass by its key only.
LEMMA TenantHasKey ==
  ASSUME NEW r \in Requests, HasTenant(r)
  PROVE  KeyFits(r)
BY DEF HasTenant, KeyFits, MissingKey, PresentedKey, KnownKeys, Resolved

\* A response without more.
LEMMA RespondStep ==
  ASSUME TypeOK, NEW r \in Requests, ByRequest(r), NEW from, NEW code, NEW who,
         Respond(r, from, code, who), UNCHANGED <<config, req, context, tried>>,
         r \in owners' \cup returned' => r \in owners \cup returned,
         current[r] \subseteq tried[r]
  PROVE  ByRequest(r)'
BY DEF TypeOK, ByRequest, Untouched, Attempts, PassedWithKey, KeyFits, NamesTried, Out,
       Respond, Goto, context

\* A node that has failed joins the others that have.
LEMMA FailureStep ==
  ASSUME TypeOK, NEW r \in Requests, ByRequest(r), pc[r] \in Out, CountFailure(r)
  PROVE  /\ failed'[r] = tried[r] /\ IsFiniteSet(failed'[r])
         /\ retries[r] < MaxRetries => Cardinality(failed'[r]) = retries'[r]
<1>1. PICK n \in Nodes \ failed[r] : current[r] = {n} /\ tried[r] = failed[r] \cup {n}
  BY DEF ByRequest, Attempts
<1>2. /\ IsFiniteSet(tried[r]) /\ IsFiniteSet(failed[r])
      /\ Cardinality(failed[r]) = retries[r] /\ retries[r] \in 0..MaxRetries
  BY DEF ByRequest, Attempts, TypeOK
<1>3. Cardinality(tried[r]) = Cardinality(failed[r]) + 1
  BY <1>1, <1>2, FS_AddElement
<1>4. failed'[r] = tried[r]
  BY <1>1 DEF CountFailure, TypeOK
<1>5. retries[r] < MaxRetries => retries'[r] = retries[r] + 1
  BY DEF CountFailure, TypeOK
<1>. QED
  BY <1>2, <1>3, <1>4, <1>5

\* A node that is taken has not been tried, and adds one attempt to the budget.
LEMMA TakeStep ==
  ASSUME TypeOK, NEW r \in Requests, ByRequest(r), TakeNode(r), UNCHANGED config
  PROVE  ByRequest(r)'
<1>1. PICK n \in Matching(r) :
        current' = [current EXCEPT ![r] = {n}] /\ tried' = [tried EXCEPT ![r] = @ \cup {n}]
  BY DEF TakeNode
<1>2. n \in Nodes \ failed[r]
  BY DEF Matching
<1>3. pc[r] = "peer" /\ pc'[r] \in Out /\ failed'[r] = failed[r] /\ retries'[r] = retries[r]
  BY DEF TakeNode, Goto, TypeOK, Out
<1>4. tried[r] = failed[r] /\ Cardinality(failed[r]) = retries[r] /\ IsFiniteSet(failed[r])
  BY <1>3 DEF ByRequest, Attempts
<1>5. current'[r] = {n} /\ tried'[r] = failed[r] \cup {n}
  BY <1>1, <1>4 DEF TypeOK
<1>6. IsFiniteSet(tried'[r]) /\ Cardinality(tried'[r]) = retries[r] + 1
  BY <1>2, <1>4, <1>5, FS_AddElement
<1>7. retries[r] \in 0..MaxRetries
  BY DEF TypeOK
<1>8. Attempts(r)'
  BY <1>2, <1>3, <1>4, <1>5, <1>6, <1>7, Numbers DEF Attempts, Out
<1>9. PassedWithKey(r)'
  BY <1>3 DEF ByRequest, PassedWithKey, KeyFits, TakeNode, slots
<1>. QED
  BY <1>3, <1>5, <1>8, <1>9 DEF ByRequest, Untouched, NamesTried, Out

\* Every step of a request keeps its own part of the invariant.
LEMMA OwnStep ==
  ASSUME TypeOK, NEW r \in Requests, ByRequest(r), Step(r), UNCHANGED config
  PROVE  ByRequest(r)'
<1>. DEFINE Same == r \in owners' \cup returned' => r \in owners \cup returned
<1>0. pc[r] \notin {"logging", "done"} => current[r] \subseteq tried[r]
  BY DEF ByRequest, NamesTried
<1>1. CASE RejectHead(r) \/ RejectKey(r) \/ RejectTenant(r)
  <2>1. PICK code : Respond(r, "filter", code, "gateway")
    BY <1>1 DEF RejectHead, RejectKey, RejectTenant
  <2>2. UNCHANGED <<config, req, context, tried>> /\ Same /\ pc[r] = "filter"
    BY <1>1, <2>1 DEF RejectHead, RejectKey, RejectTenant, Slots!Refuse, slots, Respond, Goto
  <2>. QED
    BY <1>0, <2>1, <2>2, RespondStep
<1>2. CASE Admit(r)
  <2>1. /\ KeyFits(r)' /\ pc[r] = "filter" /\ pc'[r] \in {"logging", "peer"}
        /\ UNCHANGED <<failed, tried, current, retries>>
    BY <1>2, TenantHasKey DEF Admit, KeyFits, Respond, Goto, context, TypeOK
  <2>2. failed[r] = {} /\ tried[r] = {} /\ current[r] = {} /\ retries[r] = 0
    BY <2>1 DEF ByRequest, Untouched
  <2>. QED
    BY <2>1, <2>2, FS_EmptySet, Numbers
       DEF ByRequest, Untouched, Attempts, PassedWithKey, NamesTried, Out
<1>3. CASE NoNode(r) \/ GuardNode(r) \/ RefuseSocks(r)
  <2>1. PICK code, who : Respond(r, "peer", code, who)
    BY <1>3 DEF NoNode, GuardNode, RefuseSocks
  <2>2. UNCHANGED <<config, req, context, tried>> /\ Same /\ pc[r] = "peer"
    BY <1>3, <2>1 DEF NoNode, GuardNode, RefuseSocks, slots, Respond, Goto
  <2>. QED
    BY <1>0, <2>1, <2>2, RespondStep
<1>4. CASE TakeNode(r)
  BY <1>4, TakeStep
<1>5. CASE Connect(r)
  BY <1>5 DEF Connect, Goto, TypeOK, ByRequest, Untouched, Attempts, PassedWithKey, KeyFits,
              NamesTried, Out, slots, context, outcome
<1>6. CASE Answer(r)
  <2>1. PICK code : Respond(r, "exchange", code, "upstream")
    BY <1>6 DEF Answer
  <2>2. UNCHANGED <<config, req, context, tried>> /\ Same /\ pc[r] = "exchange"
    BY <1>6, <2>1 DEF Answer, slots, Respond, Goto
  <2>. QED
    BY <1>0, <2>1, <2>2, RespondStep
<1>7. CASE FetchAnswer(r)
  <2>1. PICK code, who : Respond(r, "fetch", code, who)
    BY <1>7 DEF FetchAnswer, WriteBridgeResponse
  <2>2. UNCHANGED <<config, req, context, tried>> /\ Same /\ pc[r] = "fetch"
    BY <1>7, <2>1 DEF FetchAnswer, slots, Respond, Goto
  <2>. QED
    BY <1>0, <2>1, <2>2, RespondStep
<1>8. CASE RunOut(r)
  <2>1. /\ pc[r] = "peer" /\ pc'[r] = "logging" /\ status'[r] = 503
        /\ UNCHANGED <<config, owners, returned, req, failed, retries, tried>>
    BY <1>8 DEF RunOut, Respond, Goto, TypeOK, slots
  <2>. QED
    BY <2>1 DEF ByRequest, Untouched, Attempts, PassedWithKey, KeyFits, NamesTried, Out
<1>9. CASE FailToConnect(r) \/ FetchFail(r)
  <2>1. /\ pc[r] \in Out /\ CountFailure(r)
        /\ pc'[r] = "logging" \/ (pc'[r] = "peer" /\ retries[r] < MaxRetries)
        /\ UNCHANGED <<config, owners, returned, req, current, tried>>
    BY <1>9 DEF FailToConnect, FetchFail, Respond, Goto, TypeOK, Out, slots
  <2>2. /\ failed'[r] = tried[r] /\ IsFiniteSet(failed'[r])
        /\ retries[r] < MaxRetries => Cardinality(failed'[r]) = retries'[r]
    BY <2>1, FailureStep
  <2>3. current[r] \subseteq tried[r]
    BY <1>0, <2>1 DEF Out
  <2>. QED
    BY <2>1, <2>2, <2>3
       DEF ByRequest, Untouched, Attempts, PassedWithKey, KeyFits, NamesTried, Out
<1>10. CASE Logging(r)
  <2>1. /\ pc[r] = "logging" /\ pc'[r] = "done" /\ Same
        /\ UNCHANGED <<config, req, current, failed, retries, tried, status>>
    BY <1>10 DEF Logging, Goto, TypeOK, context, outcome, slots, Slots!Release
  <2>. QED
    BY <2>1 DEF ByRequest, Untouched, Attempts, PassedWithKey, KeyFits, NamesTried, Out
<1>. QED
  BY <1>1, <1>2, <1>3, <1>4, <1>5, <1>6, <1>7, <1>8, <1>9, <1>10 DEF Step

-----------------------------------------------------------------------------
\* Nodes

\* What has been tried stays tried.
LEMMA SentGrows ==
  ASSUME TypeOK, NEW r \in Requests, Step(r)
  PROVE  Sent \subseteq Sent' /\ \A q \in Requests : tried[q] \subseteq tried'[q]
<1>1. ASSUME NEW q \in Requests PROVE tried[q] \subseteq tried'[q]
  <2>1. CASE q # r
    BY <2>1, OthersKeep
  <2>2. CASE TakeNode(r)
    BY <2>2 DEF TakeNode, TypeOK
  <2>3. CASE ~TakeNode(r)
    BY <2>3 DEF Step, RejectHead, RejectKey, RejectTenant, Admit, NoNode, GuardNode, Connect,
                FailToConnect, Answer, RefuseSocks, RunOut, FetchAnswer, FetchFail, Logging
  <2>. QED
    BY <2>1, <2>2, <2>3
<1>. QED
  BY <1>1 DEF Sent

\* What is logged of a request holds a ban only against a node it was sent through,
\* and teaches the others no more than a failure.
LEMMA LoggedFairly ==
  ASSUME TypeOK, NEW r \in Requests, ByRequest(r), InnocentUntilTried, EventsTyped, Logging(r)
  PROVE  InnocentUntilTried' /\ EventsTyped'
<1>1. pc[r] = "logging" /\ Sent' = Sent /\ quarantined' = quarantined
  BY DEF Logging, Goto, Sent
<1>2. current[r] \subseteq Sent \/ status[r] = 503
  BY <1>1 DEF ByRequest, NamesTried, Sent
<1>3. Reward(503) = "low" /\ 503 \notin Banned
  BY DEF Reward, Banned
<1>4. ASSUME NEW n \in Nodes \ Sent PROVE arms'[n] \subseteq {"low"}
  <2>1. arms[n] \subseteq {"low"}
    BY <1>4 DEF InnocentUntilTried
  <2>2. CASE n \in current[r]
    <3>1. arms'[n] = arms[n] \cup {Reward(503)}
      BY <1>2, <1>4, <2>2 DEF Logging, Taught
    <3>. QED
      BY <1>3, <2>1, <3>1
  <2>3. CASE n \notin current[r]
    BY <2>1, <2>3 DEF Logging, Taught
  <2>. QED
    BY <2>2, <2>3
<1>5. current[r] \subseteq Nodes
  BY DEF TypeOK
<1>6. ASSUME NEW e \in events'
      PROVE  e.out \subseteq Nodes /\ (e.status \in Banned => e.out \subseteq Sent)
  <2>1. CASE e \in events
    BY <2>1 DEF InnocentUntilTried, EventsTyped
  <2>2. CASE e = [out |-> current[r], status |-> status[r], origin |-> origin[r]]
    BY <1>2, <1>3, <1>5, <2>2
  <2>. QED
    BY <1>6, <2>1, <2>2 DEF Logging
<1>. QED
  BY <1>1, <1>4, <1>6 DEF InnocentUntilTried, EventsTyped

\* The steps of a request keep what is said of all of them.
LEMMA NodesStep ==
  ASSUME IInv, NEW r \in Requests, Step(r)
  PROVE  CredentialsStayOffFree' /\ InnocentUntilTried' /\ EventsTyped'
<1>1. TypeOK /\ ByRequest(r) /\ InnocentUntilTried /\ EventsTyped /\ CredentialsStayOffFree
  BY DEF IInv
<1>2. CredentialsStayOffFree'
  <2>1. req' = req
    BY DEF Step, RejectHead, RejectKey, RejectTenant, Admit, NoNode, GuardNode, TakeNode, Connect,
           FailToConnect, Answer, RefuseSocks, RunOut, FetchAnswer, FetchFail, Logging
  <2>2. CASE TakeNode(r)
    <3>1. PICK n : tried' = [tried EXCEPT ![r] = @ \cup {n}] /\ ~Exposes(r, n)
      BY <2>2 DEF TakeNode
    <3>. QED
      BY <1>1, <2>1, <3>1 DEF CredentialsStayOffFree, Exposes, TypeOK
  <2>3. CASE ~TakeNode(r)
    <3>1. tried' = tried
      BY <2>3 DEF Step, RejectHead, RejectKey, RejectTenant, Admit, NoNode, GuardNode, Connect,
                  FailToConnect, Answer, RefuseSocks, RunOut, FetchAnswer, FetchFail, Logging
    <3>. QED
      BY <1>1, <2>1, <3>1 DEF CredentialsStayOffFree
  <2>. QED
    BY <2>2, <2>3
<1>3. CASE Logging(r)
  BY <1>1, <1>2, <1>3, LoggedFairly
<1>4. CASE ~Logging(r)
  <2>1. UNCHANGED <<events, quarantined, arms>>
    BY <1>4 DEF Step, RejectHead, RejectKey, RejectTenant, Admit, NoNode, GuardNode, TakeNode,
                Connect, FailToConnect, Answer, RefuseSocks, RunOut, FetchAnswer, FetchFail, breaker
  <2>. QED
    BY <1>1, <1>2, <2>1, SentGrows DEF InnocentUntilTried, EventsTyped
<1>. QED
  BY <1>3, <1>4

LEMMA StepIInv == ASSUME IInv, [Next]_vars PROVE IInv'
<1>1. TypeOK'
  BY TypeStep DEF IInv
<1>2. CASE UNCHANGED vars
  BY <1>1, <1>2 DEF IInv, vars, slots, context, outcome, breaker, EventsTyped, ByRequest, Untouched,
                    Attempts, PassedWithKey, KeyFits, NamesTried, CredentialsStayOffFree,
                    InnocentUntilTried, Sent
<1>3. ASSUME NEW r \in Requests, Step(r), UNCHANGED config PROVE IInv'
  <2>1. ASSUME NEW q \in Requests PROVE ByRequest(q)'
    BY <1>3, <2>1, OthersStep, OwnStep DEF IInv
  <2>. QED
    BY <1>1, <1>3, <2>1, NodesStep DEF IInv
<1>4. ASSUME UNCHANGED <<config, slots, pc, req, context, outcome, tried>>
      PROVE  (\A r \in Requests : ByRequest(r)') /\ CredentialsStayOffFree' /\ Sent' = Sent
  BY <1>4 DEF IInv, slots, context, outcome, ByRequest, Untouched, Attempts, PassedWithKey, KeyFits,
              NamesTried, CredentialsStayOffFree, Sent
<1>5. ASSUME NEW e \in events, Consume(e), UNCHANGED config PROVE IInv'
  BY <1>1, <1>4, <1>5 DEF IInv, Consume, InnocentUntilTried, EventsTyped
<1>6. ASSUME NEW n \in Nodes, Expire(n), UNCHANGED config PROVE IInv'
  BY <1>1, <1>4, <1>6 DEF IInv, Expire, InnocentUntilTried, EventsTyped
<1>. QED
  BY <1>2, <1>3, <1>5, <1>6 DEF Next

LEMMA LifecycleInvariant == Spec => []IInv
BY InitIInv, StepIInv, PTL DEF Spec

-----------------------------------------------------------------------------
\* What follows

\* A request with credentials is never sent through a free node, however many
\* attempts it makes and whatever is quarantined meanwhile: both paths out ask the
\* guard before each of them.
THEOREM CredentialsSafe == Spec => []CredentialsStayOffFree
<1>1. IInv => CredentialsStayOffFree
  BY DEF IInv
<1>. QED
  BY <1>1, LifecycleInvariant, PTL

\* No request makes more attempts than max_retries allows, and none at a node it has
\* failed on, for any number of retries.
THEOREM AttemptsBounded == Spec => []RetryBudget
<1>1. IInv => RetryBudget
  <2>. SUFFICES ASSUME IInv, NEW r \in Requests
                PROVE  /\ Cardinality(tried[r]) <= MaxRetries + 1
                       /\ pc[r] \in Out => current[r] \cap failed[r] = {}
    BY DEF RetryBudget, Out
  <2>. QED
    BY DEF IInv, ByRequest, Attempts
<1>. QED
  BY <1>1, LifecycleInvariant, PTL

\* A node is quarantined, or its arm praised, only for a request that was sent
\* through it.
THEOREM BlameIsGrounded == Spec => []InnocentUntilTried
<1>1. IInv => InnocentUntilTried
  BY DEF IInv
<1>. QED
  BY <1>1, LifecycleInvariant, PTL

\* Only the configured key is served, in every environment.
THEOREM KeysChecked == Spec => []OnlyConfiguredKey
<1>1. IInv => OnlyConfiguredKey
  BY DEF IInv, ByRequest, PassedWithKey, KeyFits, OnlyConfiguredKey
<1>. QED
  BY <1>1, LifecycleInvariant, PTL

\* Every request acquires, is refused or releases as the ledger of slots has it: a
\* slot that was taken is given back by its own request, once.
THEOREM RequestsImplementLedger == Spec => Slots!Spec
<1>1. Init => Slots!Init
  BY DEF Init
<1>2. [Next]_vars => [Slots!Next]_(Slots!vars)
  <2>1. ASSUME UNCHANGED slots PROVE [Slots!Next]_(Slots!vars)
    BY <2>1 DEF slots, Slots!vars
  <2>2. ASSUME NEW r \in Requests, Step(r) PROVE [Slots!Next]_(Slots!vars)
    <3>1. CASE RejectTenant(r) \/ Admit(r)
      BY <3>1 DEF RejectTenant, Admit, Slots!Next
    <3>2. CASE Logging(r)
      <4>1. Slots!Release(r) \/ UNCHANGED slots
        BY <3>2 DEF Logging
      <4>. QED
        BY <2>1, <4>1 DEF Slots!Next
    <3>3. CASE ~(RejectTenant(r) \/ Admit(r) \/ Logging(r))
      <4>1. UNCHANGED slots
        BY <2>2, <3>3 DEF Step, RejectHead, RejectKey, NoNode, GuardNode, TakeNode, Connect,
             FailToConnect, Answer, RefuseSocks, RunOut, FetchAnswer, FetchFail
      <4>. QED
        BY <2>1, <4>1
    <3>. QED
      BY <3>1, <3>2, <3>3
  <2>3. ASSUME NEW e \in events, Consume(e) PROVE UNCHANGED slots
    BY <2>3 DEF Consume
  <2>4. ASSUME NEW n \in Nodes, Expire(n) PROVE UNCHANGED slots
    BY <2>4 DEF Expire
  <2>5. CASE UNCHANGED vars
    BY <2>1, <2>5 DEF vars
  <2>6. CASE Next
    BY <2>1, <2>2, <2>3, <2>4, <2>6 DEF Next
  <2>. QED
    BY <2>5, <2>6
<1>. QED
  BY <1>1, <1>2, PTL DEF Spec, Slots!Spec
=============================================================================
