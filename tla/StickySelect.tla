---------------------------- MODULE StickySelect ----------------------------
(***************************************************************************)
(* Selection of a node for a request with a session, router.rs's           *)
(* select_node_excluding: the pool and its bucket index, published one     *)
(* after the other by writers that hold write_lock and read by requests    *)
(* without a lock; the table that binds a session to the node it was given *)
(* as that node was then; the sweep that forgets old bindings.             *)
(*                                                                         *)
(* Weights are 0 or 1 (out or in): the weighted draw is a choice among the *)
(* eligible.  All nodes have one tier and speak http.  Quarantine, of the  *)
(* requests' one domain, is a set of addresses that changes freely (module *)
(* Quarantine); an http node has no exit ip of its own.  Horizon bounds    *)
(* the clock.                                                              *)
(***************************************************************************)
EXTENDS Naturals, FiniteSets

CONSTANTS Addresses, Countries,
          Fold,        \* Fold[c]: c in one case
          Registered,  \* the nodes writers publish
          Sessions,
          MaxSessions, \* SESSION_MAX_ENTRIES
          SessionTtl,  \* SESSION_TTL_SECS
          Selectors,   \* tasks that select
          Horizon

None == "none"
PoolNodes == [addr : Addresses, country : Countries, weight : {0, 1}]

\* What a request asks for.  It is exact when it names tier, country and proto;
\* excluded holds the addresses its earlier attempts failed on.
Specs == {s \in [session : Sessions, country : Countries \cup {None},
                 exact : BOOLEAN, excluded : SUBSET Addresses] :
            s.exact => s.country # None}

ASSUME NodeTypes == Registered \subseteq PoolNodes
ASSUME FoldType  == Fold \in [Countries -> Countries]
ASSUME TimeTypes == SessionTtl \in Nat \ {0} /\ Horizon \in Nat

VARIABLES now,
          pools,      \* the pool: a set of nodes, one per address
          buckets,    \* the nodes the bucket index holds
          locked,     \* write_lock: a writer has stored pools, not yet buckets
          quarantined,\* addresses in quarantine
          sessions,   \* session_store: [a set of sessions -> [node, born]]
          access,     \* per request: its next access
          ctx,        \* per request: spec, and `now` of the selection
          pick,       \* per request: the node drawn or answered, or no node
          gone, ill   \* per request: the addresses out of the pool (both
                      \* halves of it), in quarantine, ever since it began
published == <<pools, buckets, locked>>
request == <<access, ctx, pick>>
ghosts == <<gone, ill>>
stickyVars == <<now, published, quarantined, sessions, request, ghosts>>

Labels == {"idle", "sticky", "draw", "admit", "bind"}
Idle == [spec |-> CHOOSE s \in Specs : TRUE, at |-> 0]
Bound == DOMAIN sessions

At(set, a) == {n \in set : n.addr = a}
Usable(set, a) == \E n \in At(set, a) : n.weight > 0
Out(a) == ~Usable(pools, a) /\ ~Usable(buckets, a)
Index(set) == {n \in set : n.weight > 0}
OnePerAddr(set) == \A m, n \in set : m.addr = n.addr => m = n

StickyInit ==
  /\ now = 0
  /\ pools \in {set \in SUBSET Registered : OnePerAddr(set)}
  /\ buckets = Index(pools)
  /\ locked = FALSE
  /\ quarantined = {}
  /\ sessions = [s \in {} |-> 0]
  /\ access = [r \in Selectors |-> "idle"]
  /\ ctx = [r \in Selectors |-> Idle]
  /\ pick = [r \in Selectors |-> {}]
  /\ gone = [r \in Selectors |-> {}]
  /\ ill = [r \in Selectors |-> {}]

-----------------------------------------------------------------------------
\* Writers

\* store_nodes: first the pool, then the indexes built from it.
StorePools(next) ==
  /\ ~locked
  /\ locked' = TRUE
  /\ pools' = next
  /\ gone' = [r \in Selectors |-> {a \in gone[r] : ~Usable(next, a)}]
  /\ UNCHANGED <<now, buckets, quarantined, sessions, request, ill>>

\* Mutant: the indexes are not built again.
StoreNoIndexes ==
  /\ locked
  /\ locked' = FALSE
  /\ UNCHANGED <<now, pools, buckets, quarantined, sessions, request, ghosts>>

StoreIndexes ==
  /\ locked
  /\ locked' = FALSE
  /\ buckets' = Index(pools)
  /\ UNCHANGED <<now, pools, quarantined, sessions, request, ghosts>>

StoreAdded(n) == At(pools, n.addr) = {} /\ StorePools(pools \cup {n})

StoreRemoved(n) == n \in pools /\ StorePools(pools \ {n})

\* adjust_vendor_weight and its like, and the merge of the free pool: a node of
\* the same address replaces the one that is there.
ReplaceNode(m, n) ==
  /\ m \in pools /\ m # n /\ m.addr = n.addr
  /\ StorePools((pools \ {m}) \cup {n})

SetQuarantine(a) ==
  /\ quarantined' = quarantined \cup {a}
  /\ UNCHANGED <<now, published, sessions, request, ghosts>>

LiftQuarantine(a) ==
  /\ quarantined' = quarantined \ {a}
  /\ ill' = [r \in Selectors |-> ill[r] \ {a}]
  /\ UNCHANGED <<now, published, sessions, request, gone>>

-----------------------------------------------------------------------------
\* select_node_excluding

Goto(r, from, to) == access[r] = from /\ access' = [access EXCEPT ![r] = to]
Forget(r) == ctx' = [ctx EXCEPT ![r] = Idle]

CountryOk(n, s) == s.country # None => Fold[n.country] = Fold[s.country]
Matches(n, s) == /\ n.weight > 0
                 /\ CountryOk(n, s)
                 /\ n.addr \notin quarantined
                 /\ n.addr \notin s.excluded

Begin(r) ==
  /\ Goto(r, "idle", "sticky")
  /\ \E s \in Specs : ctx' = [ctx EXCEPT ![r] = [spec |-> s, at |-> now]]
  /\ pick' = [pick EXCEPT ![r] = {}]
  /\ gone' = [gone EXCEPT ![r] = {a \in Addresses : Out(a)}]
  /\ ill' = [ill EXCEPT ![r] = quarantined]
  /\ UNCHANGED <<now, published, quarantined, sessions>>

\* Age of a binding at the time of the selection; it may be younger than that.
Expired(b, at) == at >= b.born /\ at - b.born >= SessionTtl

\* Mutant: a binding is answered without a look at the pool.
StickyHitUnchecked(r) ==
  LET s == ctx[r].spec
  IN  /\ s.session \in Bound
      /\ LET b == sessions[s.session] IN
           /\ ~Expired(b, ctx[r].at)
           /\ CountryOk(b.node, s)
           /\ b.node.addr \notin quarantined \cup s.excluded

\* The bound node as it was, if the pool still has its address in use.
StickyHit(r) ==
  LET s == ctx[r].spec
  IN  /\ s.session \in Bound
      /\ LET b == sessions[s.session] IN
           /\ ~Expired(b, ctx[r].at)
           /\ Usable(pools, b.node.addr)
           /\ CountryOk(b.node, s)
           /\ b.node.addr \notin quarantined \cup s.excluded

AnswerBound(r) ==
  /\ Goto(r, "sticky", "idle")
  /\ StickyHit(r)
  /\ pick' = [pick EXCEPT ![r] = {sessions[ctx[r].spec.session].node}]
  /\ Forget(r)
  /\ UNCHANGED <<now, published, quarantined, sessions, ghosts>>

MissSticky(r) ==
  /\ Goto(r, "sticky", "draw")
  /\ ~StickyHit(r)
  /\ UNCHANGED <<now, published, quarantined, sessions, ctx, pick, ghosts>>

\* An exact request only looks into the bucket of that very country.
Eligible(s) ==
  IF s.exact THEN {n \in buckets : n.country = s.country /\ Matches(n, s)}
             ELSE {n \in pools : Matches(n, s)}

Draw(r) ==
  /\ Goto(r, "draw", "admit")
  /\ \E n \in Eligible(ctx[r].spec) : pick' = [pick EXCEPT ![r] = {n}]
  /\ UNCHANGED <<now, published, quarantined, sessions, ctx, ghosts>>

AnswerNone(r) ==
  /\ Goto(r, "draw", "idle")
  /\ Eligible(ctx[r].spec) = {}
  /\ Forget(r)
  /\ UNCHANGED <<now, published, quarantined, sessions, pick, ghosts>>

\* session_sticky_allowed, then the insert: two accesses.
StickyAllowed(s) == Cardinality(Bound) < MaxSessions \/ s \in Bound

AdmitSession(r) ==
  /\ \/ StickyAllowed(ctx[r].spec.session) /\ Goto(r, "admit", "bind") /\ UNCHANGED ctx
     \/ ~StickyAllowed(ctx[r].spec.session) /\ Goto(r, "admit", "idle") /\ Forget(r)
  /\ UNCHANGED <<now, published, quarantined, sessions, pick, ghosts>>

BindSession(r) ==
  /\ Goto(r, "bind", "idle")
  /\ LET key == ctx[r].spec.session
         binding == [node |-> CHOOSE n \in pick[r] : TRUE, born |-> ctx[r].at]
     IN  sessions' = [s \in Bound \cup {key} |-> IF s = key THEN binding ELSE sessions[s]]
  /\ Forget(r)
  /\ UNCHANGED <<now, published, quarantined, pick, ghosts>>

-----------------------------------------------------------------------------
\* The session half of sweep_expired_at, one entry at a time, and time.
SweepSession(s) ==
  /\ s \in Bound
  /\ Expired(sessions[s], now)
  /\ sessions' = [x \in Bound \ {s} |-> sessions[x]]
  /\ UNCHANGED <<now, published, quarantined, request, ghosts>>

Tick ==
  /\ now < Horizon
  /\ now' = now + 1
  /\ UNCHANGED <<published, quarantined, sessions, request, ghosts>>

Write ==
  \/ \E n \in Registered : StoreAdded(n) \/ StoreRemoved(n)
  \/ \E m, n \in Registered : ReplaceNode(m, n)
  \/ StoreIndexes
  \/ \E a \in Addresses : SetQuarantine(a) \/ LiftQuarantine(a)

Select(r) ==
  \/ Begin(r) \/ AnswerBound(r) \/ MissSticky(r) \/ Draw(r)
  \/ AnswerNone(r) \/ AdmitSession(r) \/ BindSession(r)

StickyNext ==
  \/ Write
  \/ \E r \in Selectors : Select(r)
  \/ \E s \in Sessions : SweepSession(s)
  \/ Tick

StickySpec == StickyInit /\ [][StickyNext]_stickyVars

-----------------------------------------------------------------------------
\* Properties

\* Every variable keeps its type, and the pool keeps one node per address.
StickyTypeOK ==
  /\ now \in 0..Horizon
  /\ pools \subseteq Registered /\ OnePerAddr(pools)
  /\ buckets \subseteq Registered
  /\ locked \in BOOLEAN
  /\ quarantined \subseteq Addresses
  /\ Bound \subseteq Sessions
  /\ \A s \in Bound : sessions[s] \in [node : Registered, born : 0..Horizon]
  /\ access \in [Selectors -> Labels]
  /\ ctx \in [Selectors -> [spec : Specs, at : 0..Horizon]]
  /\ pick \in [Selectors -> SUBSET Registered]
  /\ gone \in [Selectors -> SUBSET Addresses] /\ ill \in [Selectors -> SUBSET Addresses]

\* A change of the pool, once made, is seen by every selection that begins
\* after it, by the sticky path, the bucket path and the scan alike: none
\* answers an address that was out, or in quarantine, all along.
NoOutdatedAnswer ==
  \A r \in Selectors : \A n \in pick[r] : n.addr \notin gone[r] \cup ill[r]

\* "The bucket path has the meaning of the full scan": outside a write, an exact
\* request is refused only when no node of the pool would match it.
BucketAgreesWithScan ==
  [][\A r \in Selectors :
       /\ access[r] = "draw" /\ access'[r] = "idle" /\ ~locked
       => \A n \in pools : ~Matches(n, ctx[r].spec)]_stickyVars

\* "A sticky hit is checked against country; another constraint moves the
\* session": the node a session answers is, in the pool, in the country asked.
StickyFitsCountry ==
  [][\A r \in Selectors :
       access[r] = "sticky" /\ access'[r] = "idle" =>
         \A n \in pick'[r] : \A m \in At(pools, n.addr) : CountryOk(m, ctx[r].spec)]_stickyVars
=============================================================================
