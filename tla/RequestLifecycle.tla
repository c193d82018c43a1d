-------------------------- MODULE RequestLifecycle --------------------------
(***************************************************************************)
(* A request through the phases of gateway.rs: request_filter, then for    *)
(* http upstream_peer / connect / fail_to_connect with retries, for socks  *)
(* the loop of serve_via_socks, and for every request, however it ends,    *)
(* logging: the slot is returned and the outcome goes, through telemetry,  *)
(* to the circuit breaker that quarantines the node named in it.           *)
(*                                                                         *)
(* The tenant's gate is the abstract SlotLedger (implemented by TenantGate)*)
(* whose actions this module takes.  All requests go to one domain.  The   *)
(* bus may lose an event; EventBus has the rest of its life.  Which        *)
(* matching node is taken is free (StickySelect, Selection).  Bytes are    *)
(* left out (TenantGate bills them).  The proxy framework answers a        *)
(* connection failure that is not retried with 502.                        *)
(***************************************************************************)
EXTENDS Naturals, FiniteSets

CONSTANTS Requests, MaxConc,
          Nodes,
          Free, Socks,  \* the nodes of tier free, and those that speak socks
          MaxRetries,   \* ctx.max_retries
          Kinds,        \* the requests that arrive
          Answers,      \* statuses upstreams answer
          Configs       \* the environments the gateway is started with

\* A request: what its headers and its Basic user name ask for, whether it
\* carries Authorization or Cookie, whether it has a Host, and its API key.
Directives == [tier : {"any", "free", "paid"}, proto : {"any", "http", "socks"}]
AllKinds == [head : Directives, user : Directives, creds : BOOLEAN, host : BOOLEAN,
             key : {"none", "default", "own", "other"}]

\* The environment: API_KEY, unset, a key of the operator's own, blank, or the
\* public default key; and REQUIRE_API_KEY, on unless it is 0.
AllConfigs == [apiKey : {"unset", "own", "blank", "default"}, gate : BOOLEAN]

ASSUME KindTypes == Kinds \subseteq AllKinds /\ Configs \subseteq AllConfigs
ASSUME NodeSets  == Free \subseteq Nodes /\ Socks \subseteq Nodes
ASSUME Numbers   == MaxRetries \in Nat /\ Answers \subseteq Nat

VARIABLES config,   \* the environment at startup
          owners, refused, returned, \* the tenant's slots
          pc, req,
          current,  \* ctx.current_node, a set of at most one node
          failed,   \* ctx.failed_addrs
          retries,  \* ctx.retry_count
          status,   \* of the response written, 0 if none
          origin,   \* who made that response
          tried,    \* per request: the nodes it has been sent to
          events,   \* telemetry not yet consumed
          quarantined,
          arms      \* per node: the rewards its arm in the bandit has been taught

slots == <<owners, refused, returned>>
context == <<current, failed, retries>>
outcome == <<status, origin>>
breaker == <<events, quarantined, arms>>
vars == <<config, slots, pc, req, context, outcome, tried, breaker>>

Slots == INSTANCE SlotLedger

Banned == {429, 403, 502, 504}   \* quarantine_ttl_for_status
Origins == {"gateway", "guard", "connect", "upstream"}
Rewards == {"high", "low", "zero"}
Labels == {"filter", "peer", "connect", "exchange", "fetch", "logging", "done"}

Init ==
  /\ config \in Configs
  /\ Slots!Init
  /\ pc = [r \in Requests |-> "filter"]
  /\ req \in [Requests -> Kinds]
  /\ current = [r \in Requests |-> {}]
  /\ failed = [r \in Requests |-> {}]
  /\ retries = [r \in Requests |-> 0]
  /\ status = [r \in Requests |-> 0]
  /\ origin = [r \in Requests |-> "gateway"]
  /\ tried = [r \in Requests |-> {}]
  /\ events = {}
  /\ quarantined = {}
  /\ arms = [n \in Nodes |-> {}]

\* parse_routing_spec: the tier of the user name wins, and the protocol of the
\* header (http if there is none).
Tier(r) == IF req[r].user.tier # "any" THEN req[r].user.tier ELSE req[r].head.tier
Proto(r) == IF req[r].head.proto # "any" THEN req[r].head.proto ELSE req[r].user.proto

\* proxy_upstream_filter
ViaSocks(r) == Proto(r) = "socks"

Goto(r, from, to) == pc[r] = from /\ pc' = [pc EXCEPT ![r] = to]

\* The request ends with this response, written by `who`.
Respond(r, from, code, who) ==
  /\ Goto(r, from, "logging")
  /\ status' = [status EXCEPT ![r] = code]
  /\ origin' = [origin EXCEPT ![r] = who]

-----------------------------------------------------------------------------
\* request_filter

\* Mutant: a key that is as good as none is taken for none.
ResolvedLeniently == IF config.apiKey = "own" THEN {"own"} ELSE {"default"}

\* resolve_api_key: no key for a setting that is an error.
Resolved == CASE config.apiKey = "unset" -> {"default"}
              [] config.apiKey = "own" -> {"own"}
              [] OTHER -> {}

\* The tenants registered at startup: the default tenant, under that key.
KnownKeys == Resolved

\* A request without a key is one of the default tenant when the gate is off.
PresentedKey(r) == IF req[r].key = "none" THEN "default" ELSE req[r].key

\* should_reject_missing_api_key
MissingKey(r) == config.gate /\ req[r].key = "none"

\* 400 without Host; 403 without key, or with a key of no tenant: no slot is taken.
RejectHead(r) ==
  /\ ~req[r].host
  /\ Respond(r, "filter", 400, "gateway")
  /\ UNCHANGED <<slots, req, context, tried, breaker>>

RejectKey(r) ==
  /\ req[r].host
  /\ MissingKey(r) \/ PresentedKey(r) \notin KnownKeys
  /\ Respond(r, "filter", 403, "gateway")
  /\ UNCHANGED <<slots, req, context, tried, breaker>>

HasTenant(r) == req[r].host /\ ~MissingKey(r) /\ PresentedKey(r) \in KnownKeys

\* status_for_auth_error
AuthStatus(cause) == CASE cause \in {"rate", "concurrency"} -> 429
                       [] cause = "balance" -> 402
                       [] cause = "disabled" -> 403

\* authenticate_and_throttle says no.
RejectTenant(r) ==
  /\ HasTenant(r)
  /\ Slots!Refuse(r)
  /\ \E cause \in {"rate", "concurrency", "balance", "disabled"} :
       Respond(r, "filter", AuthStatus(cause), "gateway")
  /\ UNCHANGED <<req, context, tried, breaker>>

FreeTierWithCredentials(r) == Tier(r) = "free" /\ req[r].creds

\* It says yes.  A request that asks for a free exit and carries credentials is
\* turned away here, with its slot.
Admit(r) ==
  /\ HasTenant(r)
  /\ Slots!Acquire(r)
  /\ IF FreeTierWithCredentials(r)
     THEN Respond(r, "filter", 403, "gateway")
     ELSE Goto(r, "filter", "peer") /\ UNCHANGED <<status, origin>>
  /\ UNCHANGED <<req, context, tried, breaker>>

-----------------------------------------------------------------------------
\* Selection: upstream_peer for http, one turn of serve_via_socks for socks

\* Mutant: a retry may draw the node it has just failed on.
MatchingAgain(r) ==
  {n \in Nodes \ quarantined :
     /\ (n \in Socks) = ViaSocks(r)
     /\ Tier(r) # "any" => (n \in Free) = (Tier(r) = "free")}

Matching(r) ==
  {n \in Nodes \ (failed[r] \cup quarantined) :
     /\ (n \in Socks) = ViaSocks(r)
     /\ Tier(r) # "any" => (n \in Free) = (Tier(r) = "free")}

\* Mutant: only a request that names a tier is guarded.
ExposesIfNamed(r, n) == n \in Free /\ req[r].creds /\ Tier(r) # "any"

\* free_node_exits_with_credentials
Exposes(r, n) == n \in Free /\ req[r].creds

NoNode(r) ==
  /\ Matching(r) = {}
  /\ Respond(r, "peer", 503, "gateway")
  /\ UNCHANGED <<slots, req, context, tried, breaker>>

\* Mutant: the guard names the node it turned down as the current one.
GuardNodeBlames(r) ==
  /\ \E n \in Matching(r) : Exposes(r, n) /\ current' = [current EXCEPT ![r] = {n}]
  /\ Respond(r, "peer", 403, "guard")
  /\ UNCHANGED <<slots, req, failed, retries, tried, breaker>>

\* The guard on the node that was drawn.  current_node is not written, so it
\* still names the node of an earlier attempt, if there was one.
GuardNode(r) ==
  /\ \E n \in Matching(r) : Exposes(r, n)
  /\ Respond(r, "peer", 403, "guard")
  /\ UNCHANGED <<slots, req, context, tried, breaker>>

\* Out to the node.
TakeNode(r) ==
  /\ Goto(r, "peer", IF ViaSocks(r) THEN "fetch" ELSE "connect")
  /\ \E n \in Matching(r) :
       /\ ~Exposes(r, n)
       /\ current' = [current EXCEPT ![r] = {n}]
       /\ tried' = [tried EXCEPT ![r] = @ \cup {n}]
  /\ UNCHANGED <<slots, req, failed, retries, outcome, breaker>>

\* record_failed_addr and the retry count.
CountFailure(r) ==
  /\ failed' = [failed EXCEPT ![r] = @ \cup current[r]]
  /\ retries' = [retries EXCEPT ![r] = IF @ < MaxRetries THEN @ + 1 ELSE @]

-----------------------------------------------------------------------------
\* http: connection, fail_to_connect, the response

Connect(r) ==
  /\ Goto(r, "connect", "exchange")
  /\ UNCHANGED <<slots, req, context, outcome, tried, breaker>>

FailToConnect(r) ==
  /\ CountFailure(r)
  /\ \/ /\ retries[r] < MaxRetries
        /\ Goto(r, "connect", "peer")
        /\ UNCHANGED <<status, origin>>
     \/ /\ retries[r] = MaxRetries
        /\ Respond(r, "connect", 502, "connect")
  /\ UNCHANGED <<slots, req, current, tried, breaker>>

\* A response, whole or broken off.
Answer(r) ==
  /\ \E code \in Answers : Respond(r, "exchange", code, "upstream")
  /\ UNCHANGED <<slots, req, context, tried, breaker>>

-----------------------------------------------------------------------------
\* socks: serve_via_socks

\* The bridge is offline, or the request has no target or no readable body: this
\* is found before the first turn of the loop.
RefuseSocks(r) ==
  /\ ViaSocks(r) /\ tried[r] = {}
  /\ \E code \in {400, 503} : Respond(r, "peer", code, "gateway")
  /\ UNCHANGED <<slots, req, context, tried, breaker>>

\* The overall deadline passes before a later turn, or between its draw, which
\* is already in current_node, and the fetch.
RunOut(r) ==
  /\ ViaSocks(r) /\ failed[r] # {}
  /\ Respond(r, "peer", 503, "gateway")
  /\ \/ UNCHANGED current
     \/ \E n \in Matching(r) : ~Exposes(r, n) /\ current' = [current EXCEPT ![r] = {n}]
  /\ UNCHANGED <<slots, req, failed, retries, tried, breaker>>

\* write_bridge_response: the client may be gone before the head is written.
WriteBridgeResponse(r, code) == Respond(r, "fetch", code, "upstream") \/ Respond(r, "fetch", 0, "gateway")

FetchAnswer(r) ==
  /\ \E code \in Answers : WriteBridgeResponse(r, code)
  /\ UNCHANGED <<slots, req, context, tried, breaker>>

\* bridge.fetch answers as a whole or fails.  The last turn, or one cut off by the
\* overall deadline, is answered 503.
FetchFail(r) ==
  /\ CountFailure(r)
  /\ \/ /\ retries[r] < MaxRetries
        /\ Goto(r, "fetch", "peer")
        /\ UNCHANGED <<status, origin>>
     \/ Respond(r, "fetch", 503, "gateway")
  /\ UNCHANGED <<slots, req, current, tried, breaker>>

-----------------------------------------------------------------------------
\* logging: the slot, if one was taken, and the event, unless the bus is full

\* Mutant: a request without a node is logged without giving its slot back.
LoggingEarlyReturn(r) ==
  /\ Goto(r, "logging", "done")
  /\ IF r \in owners /\ current[r] # {} THEN Slots!Release(r) ELSE UNCHANGED slots
  /\ UNCHANGED <<req, context, outcome, tried, breaker>>

\* compute_reward: the latency only tells high rewards apart, and a request that
\* got no response at all is worth something.
Reward(code) == CASE code \in 200..299 -> "high" [] code \in {403, 429} -> "zero" [] OTHER -> "low"

\* The arm of the current node, if there is one, is updated: of the nodes a request
\* was sent to, only the last one learns of it.
Taught(r) == [n \in Nodes |-> IF n \in current[r] THEN arms[n] \cup {Reward(status[r])} ELSE arms[n]]

Logging(r) ==
  /\ Goto(r, "logging", "done")
  /\ arms' = Taught(r)
  /\ IF r \in owners THEN Slots!Release(r) ELSE UNCHANGED slots
  /\ \/ events' = events \cup {[out |-> current[r], status |-> status[r],
                                origin |-> origin[r]]}
     \/ UNCHANGED events
  /\ UNCHANGED <<req, context, outcome, tried, quarantined>>

\* The breaker: a status on the list quarantines the node, if there is one.
Consume(e) ==
  /\ e \in events
  /\ events' = events \ {e}
  /\ quarantined' = IF e.status \in Banned THEN quarantined \cup e.out ELSE quarantined
  /\ UNCHANGED <<slots, pc, req, context, outcome, tried, arms>>

Expire(n) ==
  /\ n \in quarantined
  /\ quarantined' = quarantined \ {n}
  /\ UNCHANGED <<slots, pc, req, context, outcome, tried, events, arms>>

Step(r) ==
  \/ RejectHead(r) \/ RejectKey(r) \/ RejectTenant(r) \/ Admit(r)
  \/ NoNode(r) \/ GuardNode(r) \/ TakeNode(r)
  \/ Connect(r) \/ FailToConnect(r) \/ Answer(r)
  \/ RefuseSocks(r) \/ RunOut(r) \/ FetchAnswer(r) \/ FetchFail(r)
  \/ Logging(r)

Next ==
  /\ \/ \E r \in Requests : Step(r)
     \/ \E e \in events : Consume(e)
     \/ \E n \in Nodes : Expire(n)
  /\ UNCHANGED config

Spec == Init /\ [][Next]_vars

\* Connections and fetches end, by their timeouts, and logging always runs.
FairSpec == Spec /\ \A r \in Requests : WF_vars(Step(r) /\ UNCHANGED config)

-----------------------------------------------------------------------------
\* Properties

\* Every variable keeps its type; at most one node is current.
TypeOK ==
  /\ owners \subseteq Requests /\ refused \subseteq Requests /\ returned \subseteq Requests
  /\ pc \in [Requests -> Labels]
  /\ config \in Configs /\ req \in [Requests -> Kinds]
  /\ current \in [Requests -> {{}} \cup {{n} : n \in Nodes}]
  /\ failed \in [Requests -> SUBSET Nodes]
  /\ retries \in [Requests -> 0..MaxRetries]
  /\ status \in [Requests -> {0, 400, 402, 403, 429, 502, 503} \cup Answers]
  /\ origin \in [Requests -> Origins]
  /\ tried \in [Requests -> SUBSET Nodes]
  /\ quarantined \subseteq Nodes /\ arms \in [Nodes -> SUBSET Rewards]

\* A request with credentials is never sent through a free node, whatever tier
\* it asked for, on either path, on any attempt.
CredentialsStayOffFree ==
  \A r \in Requests : req[r].creds => tried[r] \cap Free = {}

\* No request is sent to more nodes than max_retries allows, or to one twice:
\* quarantine and its end do not bring a failed node back.
RetryBudget ==
  \A r \in Requests :
    /\ Cardinality(tried[r]) <= MaxRetries + 1
    /\ pc[r] \in {"connect", "exchange", "fetch"} => current[r] \cap failed[r] = {}

\* A node is only quarantined, or taught a high reward or none at all, for what a
\* request met that was sent through it: a request turned away early, or one that
\* ran out of time with a node in hand, takes none out.  (The latter teaches the
\* node it never reached the reward of a failure.)
Sent == UNION {tried[r] : r \in Requests}
InnocentUntilTried ==
  /\ quarantined \subseteq Sent
  /\ \A n \in Nodes \ Sent : arms[n] \subseteq {"low"}
  /\ \A e \in events : e.status \in Banned => e.out \subseteq Sent

\* Who is served has the key the operator configured.  With a key of the operator's
\* the public one is dead, also for requests without a key that the open gate lets
\* through under it, and a setting that is an error serves nobody.
OnlyConfiguredKey ==
  \A r \in Requests :
    tried[r] # {} \/ r \in owners \cup returned =>
      /\ config.apiKey # "unset" => config.apiKey = "own" /\ req[r].key = "own"
      /\ config.gate => req[r].key # "none"

\* Every slot a request took is returned exactly once, on all of the paths out.
ImplementsLedger == Slots!FairSpec

\* "Upstream 429, 403, 502, 504: quarantine", and the guard's own 403 leaves no
\* node to attribute it to: it quarantines nobody.
GuardBlamesNobody ==
  \A e \in events : e.origin = "guard" /\ e.status \in Banned => e.out = {}

\* "headers (preferred)": a request whose header names a tier is sent to nodes
\* of that tier.
HeaderPreferred ==
  \A r \in Requests, n \in Nodes :
    n \in tried[r] /\ req[r].head.tier # "any" => (n \in Free) = (req[r].head.tier = "free")

\* "otherwise logging would take the node of the turn before for this one's (wrong
\* attribution)": no arm learns of a request that was not sent through its node.
ArmsLearnOfTheirOwn == \A n \in Nodes : arms[n] # {} => n \in Sent

\* "connect failures never quarantine": the error answered when the retries of
\* a connection are used up is held against no node.
ConnectFailureBlamesNobody ==
  \A e \in events : e.origin = "connect" /\ e.status \in Banned => e.out = {}
=============================================================================
