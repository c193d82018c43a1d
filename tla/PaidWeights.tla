---------------------------- MODULE PaidWeights -----------------------------
(***************************************************************************)
(* The weights of the paid nodes of the pool and the three parties that    *)
(* write them: the SLA arbitrage (vendor_arbitrage.rs), the operator's     *)
(* PATCH on a node, and the autotune switch (admin.rs) that raises all     *)
(* paid weights while the free pool is dry.  Every writer of the pool      *)
(* takes router.rs's write_lock, so one write is one action; a POST to the *)
(* switch is several accesses to two atomics before it.                    *)
(*                                                                         *)
(* A group is a vendor in a country.  The success rate comes from outside: *)
(* any verdict may be given to any group at any time, a failed query gives *)
(* none.  Free nodes are not touched by any of this.                       *)
(***************************************************************************)
EXTENDS Integers, FiniteSets

CONSTANTS Addrs, Groups,
          Group,        \* the group of each address
          Verdicts,     \* \subseteq {WEIGHT_CUT, WEIGHT_FULL}
          NodeWeights,  \* weights nodes are registered with
          PatchWeights, \* weights an operator sets afterwards
          Handlers,     \* tasks that serve POSTs to the autotune switch
          Boosts        \* factors a POST may carry, in percent, clamped

MaxWeight == 100        \* MAX_WEIGHT, WEIGHT_FULL, and 100 percent
MaxBoosted == 200

ASSUME GroupType    == Group \in [Addrs -> Groups]
ASSUME WeightTypes  == /\ Verdicts \subseteq {0, MaxWeight}
                       /\ NodeWeights \subseteq 0..MaxWeight
                       /\ PatchWeights \subseteq 0..MaxWeight
ASSUME BoostTypes   == Boosts \subseteq 1..500

VARIABLES weight,   \* pools: the live addresses and their weights
          base,     \* paid_base_weight: the recorded addresses
          enabled, boost, \* the two atomics of AutotuneConfig
          access, body, \* per handler: its next one, and the fields of its request
          percent,  \* per handler: the percentage it is about to apply
          last,     \* the percentage last applied to the pool
          given     \* the weight last written by another writer than the boost

config == <<enabled, boost>>
handlers == <<access, body, percent>>
paidVars == <<weight, base, config, handlers, last, given>>

Pooled == DOMAIN weight
Recorded == DOMAIN base
\* A request may leave out either field: "keep", and 0 for the factor.
Bodies == [enabled : {"on", "off", "keep"}, boost : Boosts \cup {0}]
NoBody == [enabled |-> "keep", boost |-> 0]
PostSteps == {"idle", "enabled", "boost", "load", "factor", "apply"}

Dropping(f, a) == [x \in DOMAIN f \ {a} |-> f[x]]
Adding(f, a, v) == [x \in DOMAIN f \cup {a} |-> IF x = a THEN v ELSE f[x]]

PaidInit ==
  /\ weight \in [Addrs -> NodeWeights]
  /\ base = [a \in {} |-> 0]
  /\ enabled = FALSE
  /\ boost = 100
  /\ access = [h \in Handlers |-> "idle"]
  /\ body = [h \in Handlers |-> NoBody]
  /\ percent = [h \in Handlers |-> 100]
  /\ last = 100
  /\ given = weight

-----------------------------------------------------------------------------
\* Writers of single groups and nodes

\* adjust_vendor_weight
SetGroup(g, w) ==
  /\ weight' = [a \in Pooled |-> IF Group[a] = g THEN w ELSE weight[a]]
  /\ given' = [a \in Pooled |-> IF Group[a] = g THEN w ELSE given[a]]
  /\ UNCHANGED <<base, config, handlers, last>>

\* One verdict of audit_once: cut the group, or restore it to full weight.
ApplyVerdict(g) == \E w \in Verdicts : SetGroup(g, w)

\* patch_node_weight_handler: the operator names a node, its group is set.
PatchWeight(a) == a \in Pooled /\ \E w \in PatchWeights : SetGroup(Group[a], w)

AddNode(a) ==
  /\ a \notin Pooled
  /\ \E w \in NodeWeights : weight' = Adding(weight, a, w) /\ given' = Adding(given, a, w)
  /\ UNCHANGED <<base, config, handlers, last>>

\* remove_node forgets the recorded base with the node.
RemoveNode(a) ==
  /\ a \in Pooled
  /\ weight' = Dropping(weight, a)
  /\ base' = Dropping(base, a)
  /\ given' = Dropping(given, a)
  /\ UNCHANGED <<config, handlers, last>>

-----------------------------------------------------------------------------
\* set_paid_weight_boost

Clamp(w) == IF w < 1 THEN 1 ELSE IF w > MaxBoosted THEN MaxBoosted ELSE w

\* Mutant: each boost starts from the weight the one before it left.
BaseNow(a) == weight[a]

\* The base of a node is what it weighed at the first boost that met it.
BaseOf(a) == IF a \in Recorded THEN base[a] ELSE weight[a]

ApplyBoost(p) ==
  /\ weight' = [a \in Pooled |-> Clamp((BaseOf(a) * p) \div 100)]
  /\ base' = [a \in Pooled \cup Recorded |-> BaseOf(a)]
  /\ last' = p

-----------------------------------------------------------------------------
\* post_free_pool_autotune_handler

Advance(h, from, to) == access[h] = from /\ access' = [access EXCEPT ![h] = to]

Receive(h) ==
  /\ Advance(h, "idle", "enabled")
  /\ \E b \in Bodies : body' = [body EXCEPT ![h] = b]
  /\ UNCHANGED <<weight, base, config, percent, last, given>>

StoreEnabled(h) ==
  /\ Advance(h, "enabled", "boost")
  /\ enabled' = IF body[h].enabled = "keep" THEN enabled ELSE body[h].enabled = "on"
  /\ UNCHANGED <<weight, base, boost, body, percent, last, given>>

StoreBoost(h) ==
  /\ Advance(h, "boost", "load")
  /\ boost' = IF body[h].boost = 0 THEN boost ELSE body[h].boost
  /\ UNCHANGED <<weight, base, enabled, body, percent, last, given>>

\* Mutant: with the switch off the pool is left as it is.
LoadEnabledOrStop(h) ==
  /\ Advance(h, "load", IF enabled THEN "factor" ELSE "idle")
  /\ UNCHANGED <<weight, base, config, body, percent, last, given>>

\* With the switch off the loaded factor only goes into the answer.
LoadEnabled(h) ==
  /\ Advance(h, "load", IF enabled THEN "factor" ELSE "apply")
  /\ UNCHANGED <<weight, base, config, body, percent, last, given>>

LoadFactor(h) ==
  /\ Advance(h, "factor", "apply")
  /\ percent' = [percent EXCEPT ![h] = boost]
  /\ UNCHANGED <<weight, base, config, body, last, given>>

Apply(h) ==
  /\ Advance(h, "apply", "idle")
  /\ ApplyBoost(percent[h])
  /\ body' = [body EXCEPT ![h] = NoBody]
  /\ percent' = [percent EXCEPT ![h] = 100]
  /\ UNCHANGED <<config, given>>

Handle(h) ==
  \/ StoreEnabled(h) \/ StoreBoost(h)
  \/ LoadEnabled(h) \/ LoadFactor(h) \/ Apply(h)

PaidNext ==
  \/ \E g \in Groups : ApplyVerdict(g)
  \/ \E a \in Addrs : PatchWeight(a) \/ AddNode(a) \/ RemoveNode(a)
  \/ \E h \in Handlers : Receive(h) \/ Handle(h)

PaidSpec == PaidInit /\ [][PaidNext]_paidVars

-----------------------------------------------------------------------------
\* Properties

\* Every variable keeps its type; no weight passes clamp's upper bound.
PaidTypeOK ==
  /\ Pooled \subseteq Addrs /\ \A a \in Pooled : weight[a] \in 0..MaxBoosted
  /\ Recorded \subseteq Addrs /\ \A a \in Recorded : base[a] \in 0..MaxWeight
  /\ enabled \in BOOLEAN
  /\ boost \in Boosts \cup {100}
  /\ access \in [Handlers -> PostSteps]
  /\ body \in [Handlers -> Bodies]
  /\ percent \in [Handlers -> Boosts \cup {100}]
  /\ last \in Boosts \cup {100}
  /\ DOMAIN given = Pooled /\ \A a \in Pooled : given[a] \in 0..MaxWeight

\* However verdicts, patches and boosts alternate, a node is above full weight
\* only while a boost above 100 percent is in force: bases never compound.  And a
\* base is only remembered for a node of the pool: an address that is removed and
\* registered again is not boosted from its former life's weight.
BasesSound ==
  /\ \A a \in Pooled : weight[a] > MaxWeight => last > 100
  /\ Recorded \subseteq Pooled

AllIdle == \A h \in Handlers : access[h] = "idle"

\* "Always applied by the final switch and factor": once no POST is under way,
\* the percentage in force is the factor when the switch is on and 100 if not.
SwitchApplied == AllIdle => last = (IF enabled THEN boost ELSE 100)

\* Weight 0 takes a node out: cut by the arbitrage, or set or registered at 0
\* by an operator, it stays out until one of these gives it a weight again.
CutStaysOut == \A a \in Pooled : given[a] = 0 => weight[a] = 0
=============================================================================
