----------------------------- MODULE Selection ------------------------------
(***************************************************************************)
(* What a request without session leaves behind when it selects a node      *)
(* (gateway.rs, socks_bridge.rs): the tier of the node in the window of the *)
(* exploration quota, a bandit arm for every candidate, and a client of the *)
(* SOCKS bridge.  The quota makes a tier that has candidates but is not in  *)
(* the window the next one to be taken; arms and clients are tables by      *)
(* address, which the sweep clears of what is gone or idle.                 *)
(*                                                                          *)
(* A request looks at pool and window, later takes a node and appends its   *)
(* tier, and is answered later still: requests interleave with each other,  *)
(* with the sweep, and with changes of the pool.  Only first attempts are   *)
(* here (retries leave the window alone), and all go through the bridge (a  *)
(* plain http request makes no client).  The bandit's score is a free       *)
(* choice.  An address is in the pool once: see NodeRegistry for when not.  *)
(***************************************************************************)
EXTENDS Naturals, Sequences, SequencesExt, FiniteSets

CONSTANTS Nodes,       \* what may be in the pool: [addr, tier, login]
          Window,      \* TIER_QUOTA_WINDOW
          Requests,
          IdleTtl,     \* BRIDGE_IDLE_TTL, in sweeps
          MaxMissed    \* bound of the counters

ASSUME NodesFinite == IsFiniteSet(Nodes)
ASSUME RequestsFinite == IsFiniteSet(Requests)
ASSUME BoundsPos == Window \in Nat \ {0} /\ IdleTtl \in Nat \ {0}

VARIABLES pool,
          window,        \* tier_quota_window
          pc,
          allowed,       \* per request: the tiers it may take
          chosen,        \* per request: the node it has taken, while it is under way
          arms,          \* bandit_arms: address -> the tier its arm was made for
          clients,       \* the bridge's clients: address -> login and idle time
          sweep, alive,  \* the step of the sweep; the addresses it has read
          missed         \* per tier: selections appended since its last one, or
                         \* since it and another tier have had candidates
tables == <<arms, clients>>
vars == <<pool, window, pc, allowed, chosen, tables, sweep, alive, missed>>

Tiers == {n.tier : n \in Nodes}
Addrs == {n.addr : n \in Nodes}
AddrsOf(set) == {n.addr : n \in set}
InTier(t) == {n \in pool : n.tier = t}
offered == {n.tier : n \in pool}
Put(table, a, value) == [b \in DOMAIN table \cup {a} |-> IF b = a THEN value ELSE table[b]]
Only(table, set) == [b \in DOMAIN table \cap set |-> table[b]]
Empty == [a \in {} |-> {}]

Init ==
  /\ pool \in {set \in SUBSET Nodes : AddrsOf(set) = Addrs /\ Cardinality(set) = Cardinality(Addrs)}
  /\ window = <<>>
  /\ pc = [r \in Requests |-> "idle"]
  /\ allowed = [r \in Requests |-> {}] /\ chosen = [r \in Requests |-> {}]
  /\ arms = Empty /\ clients = Empty
  /\ sweep = "rest" /\ alive = {}
  /\ missed = [t \in Tiers |-> 0]

-----------------------------------------------------------------------------
\* Requests

Absent == offered \ ToSet(window)

\* Of several absent tiers, one with the fewest candidates.
Fewest(set) == {t \in set : \A u \in set : Cardinality(InTier(t)) <= Cardinality(InTier(u))}

\* tier_quota_forced_tier: nothing is forced when one tier has all candidates
\* or no tier is absent.
Forced == Cardinality(offered) > 1 /\ Absent # {}

CheckQuota(r) ==
  /\ pc[r] = "idle"
  /\ pc' = [pc EXCEPT ![r] = "select"]
  /\ \/ Forced /\ \E t \in Fewest(Absent) : allowed' = [allowed EXCEPT ![r] = {t}]
     \/ ~Forced /\ allowed' = [allowed EXCEPT ![r] = Tiers]
  /\ UNCHANGED <<pool, window, chosen, tables, sweep, alive, missed>>

\* arm_for: the arm of this address, whatever node it was made for.
ArmsFor(set) ==
  [a \in DOMAIN arms \cup AddrsOf(set) |->
     IF a \in DOMAIN arms THEN arms[a] ELSE (CHOOSE n \in set : n.addr = a).tier]

\* Mutant: a full window takes nothing in.
PushedUntilFull(t) == IF Len(window) < Window THEN Append(window, t) ELSE window

\* The window with t appended, and cut to its length.
Pushed(t) == LET longer == Append(window, t) IN
             IF Len(longer) > Window THEN Tail(longer) ELSE longer

Candidates(r) == {n \in pool : n.tier \in allowed[r]}

\* Every candidate is scored by its arm; the best one's tier into the window.
SelectAndPush(r) ==
  /\ pc[r] = "select"
  /\ pc' = [pc EXCEPT ![r] = "sent"] /\ allowed' = [allowed EXCEPT ![r] = {}]
  /\ arms' = ArmsFor(Candidates(r))
  /\ \E n \in Candidates(r) :
       /\ chosen' = [chosen EXCEPT ![r] = {n}]
       /\ window' = Pushed(n.tier)
       /\ \A u \in offered \ {n.tier} : missed[u] < MaxMissed
       /\ missed' = [u \in Tiers |->
                       IF u = n.tier \/ u \notin offered THEN 0 ELSE missed[u] + 1]
  /\ UNCHANGED <<pool, clients, sweep, alive>>

\* No candidate in what is allowed: the request gets 503.
SelectNone(r) ==
  /\ pc[r] = "select" /\ Candidates(r) = {}
  /\ pc' = [pc EXCEPT ![r] = "idle"] /\ allowed' = [allowed EXCEPT ![r] = {}]
  /\ UNCHANGED <<pool, window, chosen, tables, sweep, alive, missed>>

\* client_for: the client of this address, whatever login it was made with.
ClientFor(n) ==
  Put(clients, n.addr,
      [login |-> IF n.addr \in DOMAIN clients THEN clients[n.addr].login ELSE n.login,
       idle |-> 0])

\* logging: the arm is taught, and made if it is not there any more.
Teach(n) == ArmsFor({n})

\* The request is sent through the bridge, answered and logged.
Answer(r) ==
  /\ pc[r] = "sent"
  /\ pc' = [pc EXCEPT ![r] = "idle"]
  /\ \E n \in chosen[r] : clients' = ClientFor(n) /\ arms' = Teach(n)
  /\ chosen' = [chosen EXCEPT ![r] = {}]
  /\ UNCHANGED <<pool, window, allowed, sweep, alive, missed>>

-----------------------------------------------------------------------------
\* The sweep, and changes of the pool

\* prune_stale_arms: the addresses of the whole pool, quarantined or not,
PruneRead ==
  /\ sweep = "rest" /\ sweep' = "prune"
  /\ alive' = AddrsOf(pool)
  /\ UNCHANGED <<pool, window, pc, allowed, chosen, tables, missed>>

\* then every arm of another address is dropped.
PruneStore ==
  /\ sweep = "prune" /\ sweep' = "evict"
  /\ arms' = Only(arms, alive) /\ alive' = {}
  /\ UNCHANGED <<pool, window, pc, allowed, chosen, clients, missed>>

\* Mutant: only clients of addresses in the pool are looked at.
EvictPooled ==
  /\ sweep = "evict" /\ sweep' = "rest"
  /\ clients' = [a \in {b \in DOMAIN clients : clients[b].idle < IdleTtl \/ b \notin AddrsOf(pool)} |->
                   [clients[a] EXCEPT !.idle = IF @ < IdleTtl THEN @ + 1 ELSE @]]
  /\ UNCHANGED <<pool, window, pc, allowed, chosen, arms, alive, missed>>

\* evict_idle; then a minute passes until the next sweep.
Evict ==
  /\ sweep = "evict" /\ sweep' = "rest"
  /\ clients' = [a \in {b \in DOMAIN clients : clients[b].idle < IdleTtl} |->
                   [clients[a] EXCEPT !.idle = @ + 1]]
  /\ UNCHANGED <<pool, window, pc, allowed, chosen, arms, alive, missed>>

\* Operator, merge or quarantine takes a node out, or puts one in.  A tier waits
\* while it has candidates, and is not the only one that has.
Waits(t) == t \in offered /\ Cardinality(offered) > 1

RemoveNode(n) ==
  /\ n \in pool /\ pool' = pool \ {n}
  /\ missed' = [t \in Tiers |-> IF Waits(t)' THEN missed[t] ELSE 0]
  /\ UNCHANGED <<window, pc, allowed, chosen, tables, sweep, alive>>

AddNode(n) ==
  /\ n.addr \notin AddrsOf(pool) /\ pool' = pool \cup {n}
  /\ UNCHANGED <<window, pc, allowed, chosen, tables, sweep, alive, missed>>

Request(r) == SelectAndPush(r) \/ SelectNone(r) \/ Answer(r)
Sweep == PruneRead \/ PruneStore \/ Evict

Next ==
  \/ \E r \in Requests : CheckQuota(r) \/ Request(r)
  \/ Sweep
  \/ \E n \in Nodes : RemoveNode(n) \/ AddNode(n)

Spec == Init /\ [][Next]_vars

\* A request that has begun ends, and the sweep runs under its supervisor.
FairSpec == Spec /\ WF_vars(Sweep) /\ \A r \in Requests : WF_vars(Request(r))

-----------------------------------------------------------------------------
\* Properties

\* Every variable keeps its type; an address has one node, and a request one
\* node while it is under way.
TypeOK ==
  /\ pool \subseteq Nodes /\ Cardinality(AddrsOf(pool)) = Cardinality(pool)
  /\ window \in BoundedSeq(Tiers, Window)
  /\ pc \in [Requests -> {"idle", "select", "sent"}]
  /\ \A r \in Requests :
       /\ allowed[r] \subseteq Tiers /\ (allowed[r] # {} <=> pc[r] = "select")
       /\ chosen[r] \subseteq Nodes /\ Cardinality(chosen[r]) = (IF pc[r] = "sent" THEN 1 ELSE 0)
  /\ DOMAIN arms \subseteq Addrs /\ \A a \in DOMAIN arms : arms[a] \in Tiers
  /\ DOMAIN clients \subseteq Addrs /\ \A a \in DOMAIN clients : clients[a].idle \in 0..IdleTtl
  /\ sweep \in {"rest", "prune", "evict"} /\ alive \subseteq Addrs
  /\ missed \in [Tiers -> 0..MaxMissed]

\* However selections race, a tier that keeps candidates waits for no more than
\* the window, and a turn of every other tier for each request that had looked
\* at the window before.  The window must outlast the turns of all but one of the
\* others: with more requests between look and push than that, two tiers push
\* each other out of it, and a tier with more candidates is passed over for ever.
QuotaBound ==
  Cardinality(Tiers) * Cardinality(Requests) < Window + 2 * Cardinality(Requests) =>
    \A t \in offered :
      missed[t] < Window + (Cardinality(Tiers) - 1) * Cardinality(Requests)

\* What is kept by address does not outlive the address: when a node has left the
\* pool for good, its arm and its client are gone for good, although requests
\* that still hold it come back late and make both again.
StraysLeave ==
  \A a \in Addrs :
    <>[](a \notin AddrsOf(pool)) => <>[](a \notin DOMAIN arms \cup DOMAIN clients)

\* "Each tier with candidates is selected at least once in any
\* TIER_QUOTA_WINDOW selections": none misses that many in a row.
OnceInEveryWindow == \A t \in offered : missed[t] < Window

\* 503 means that no node is available: a request is not refused for want of
\* nodes of the tier forced on it while other tiers have some.
RefusedOnlyWhenEmpty ==
  [][\A r \in Requests : pc[r] = "select" /\ pc'[r] = "idle" => offered = {}]_vars

\* "The proxy URL of a node, with its login": a request goes out with the login
\* of the node it was sent to, not of the node that had the address before.
ClientFitsNode ==
  [][\A r \in Requests : pc[r] = "sent" /\ pc'[r] = "idle" =>
       \A n \in chosen[r] : clients'[n.addr].login = n.login]_vars

\* "The risk premium is for arms whose tier is free": the arm a candidate is
\* scored by was made for its tier.
ArmFitsNode ==
  [][\A r \in Requests : pc[r] = "select" /\ pc'[r] = "sent" =>
       \A n \in chosen'[r] : arms'[n.addr] = n.tier]_vars
=============================================================================
