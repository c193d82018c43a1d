----------------------------- MODULE Quarantine -----------------------------
(***************************************************************************)
(* The quarantine table of the router (router.rs): domain -> ip -> expiry, *)
(* a concurrent map of concurrent maps.  Breaker, PubSub and Admin tasks   *)
(* set entries, Admin tasks lift them, one background task sweeps.  Each   *)
(* access to the outer map holds its shard's lock and is an action; every  *)
(* operation is several of them, so operations interleave.                 *)
(*                                                                         *)
(* Domains are normalised names: a longer one than the limit is refused    *)
(* before the table is read.  len() of the outer map is one read here (it  *)
(* sums its shards).  Horizon bounds the clock and with it every expiry.   *)
(***************************************************************************)
EXTENDS Naturals, FiniteSets

CONSTANTS Domains, Ips,
          Targets,    \* the <<domain, ip>> that are set and lifted
          Threads,    \* tasks that set and lift
          MaxDomains, \* QUARANTINE_MAX_DOMAINS
          Ttls,       \* the lifetimes an entry is given
          Horizon     \* bound of the clock

ASSUME DomainsFinite   == IsFiniteSet(Domains) /\ Targets \subseteq Domains \X Ips
ASSUME ThreadsFinite   == IsFiniteSet(Threads)
ASSUME MaxDomainsPos   == MaxDomains \in Nat \ {0}
ASSUME TimeTypes       == Ttls \subseteq Nat \ {0} /\ Horizon \in Nat

VARIABLES now,      \* the clock of Instant::now()
          table,    \* quarantine_map: [a set of domains -> [Ips -> expiry]]
          pc, job,  \* per thread: its next access, and its arguments
          sweepAt,  \* `now` of the sweep under way
          unswept   \* domains this sweep has not visited

vars == <<now, table, pc, job, sweepAt, unswept>>

Absent == 0                                  \* no entry for this ip
NoEntries == [i \in Ips |-> Absent]          \* DashMap::new()
Jobs == [domain : Domains, ip : Ips, expiry : 0..Horizon]
NoJob == [domain |-> CHOOSE d \in Domains : TRUE,
          ip |-> CHOOSE i \in Ips : TRUE, expiry |-> 0]
Labels == {"idle", "contains", "insert", "check", "reclaim"}

Outer == DOMAIN table
Inner(d) == IF d \in Outer THEN table[d] ELSE NoEntries
Without(d) == [e \in Outer \ {d} |-> table[e]]
With(d, inner) == [e \in Outer \cup {d} |-> IF e = d THEN inner ELSE table[e]]

Init ==
  /\ now = 1
  /\ table = [d \in {} |-> NoEntries]
  /\ pc = [t \in Threads |-> "idle"]
  /\ job = [t \in Threads |-> NoJob]
  /\ sweepAt = 0
  /\ unswept = {}

Goto(t, from, to) == pc[t] = from /\ pc' = [pc EXCEPT ![t] = to]

\* The last access of an operation: the thread forgets its arguments.
Finish(t, from) == Goto(t, from, "idle") /\ job' = [job EXCEPT ![t] = NoJob]

-----------------------------------------------------------------------------
\* set_quarantine

\* The expiry is computed before the table is looked at.
Expiry(ttl) == now + ttl

\* The length of the outer map decides whether its keys are looked at.
BeginSet(t) ==
  /\ Goto(t, "idle", IF Cardinality(Outer) >= MaxDomains THEN "contains" ELSE "insert")
  /\ \E x \in Targets, ttl \in Ttls :
       /\ now + ttl <= Horizon
       /\ job' = [job EXCEPT ![t] = [domain |-> x[1], ip |-> x[2], expiry |-> Expiry(ttl)]]
  /\ UNCHANGED <<now, table, sweepAt, unswept>>

\* Mutant: the watermark is logged and not enforced.
CheckContainsLogs(t) ==
  Goto(t, "contains", "insert") /\ UNCHANGED <<now, table, job, sweepAt, unswept>>

\* At the watermark only a domain that is already there gets new entries.
CheckContains(t) ==
  /\ \/ job[t].domain \in Outer /\ Goto(t, "contains", "insert") /\ UNCHANGED job
     \/ job[t].domain \notin Outer /\ Finish(t, "contains")
  /\ UNCHANGED <<now, table, sweepAt, unswept>>

\* entry(domain).or_insert_with(..).insert(ip, expiry) holds the shard's lock.
Insert(t) ==
  /\ Finish(t, "insert")
  /\ LET j == job[t] IN
       table' = With(j.domain, [Inner(j.domain) EXCEPT ![j.ip] = j.expiry])
  /\ UNCHANGED <<now, sweepAt, unswept>>

-----------------------------------------------------------------------------
\* remove_quarantine

\* A lift that finds no entry ends there, and changes nothing.
RemoveIp(t) ==
  /\ Goto(t, "idle", "check")
  /\ \E x \in Targets :
       /\ Inner(x[1])[x[2]] # Absent
       /\ table' = [table EXCEPT ![x[1]][x[2]] = Absent]
       /\ job' = [job EXCEPT ![t] = [domain |-> x[1], ip |-> x[2], expiry |-> 0]]
  /\ UNCHANGED <<now, sweepAt, unswept>>

\* Mutant: a lift does not look at what it leaves of the domain.
CheckNothing(t) == Finish(t, "check") /\ UNCHANGED <<now, table, sweepAt, unswept>>

\* The guard on the shard is dropped between this look and the removal.
CheckEmpty(t) ==
  /\ LET d == job[t].domain IN
       \/ d \in Outer /\ table[d] = NoEntries /\ Goto(t, "check", "reclaim") /\ UNCHANGED job
       \/ ~(d \in Outer /\ table[d] = NoEntries) /\ Finish(t, "check")
  /\ UNCHANGED <<now, table, sweepAt, unswept>>

RemoveDomain(t) ==
  /\ Finish(t, "reclaim")
  /\ table' = Without(job[t].domain)
  /\ UNCHANGED <<now, sweepAt, unswept>>

-----------------------------------------------------------------------------
\* sweep_expired_at: `now` is taken once, the domains are visited one by one.

BeginSweep ==
  /\ unswept = {}
  /\ sweepAt' = now
  /\ unswept' = Domains
  /\ UNCHANGED <<now, table, pc, job>>

\* Mutant: a domain is dropped with the first of its entries that has expired.
KeptOrDropped(d) ==
  IF \E i \in Ips : Inner(d)[i] \in 1..sweepAt THEN NoEntries ELSE Inner(d)

\* retain: the entries of a domain that outlive the sweep.
Kept(d) == [i \in Ips |-> IF Inner(d)[i] > sweepAt THEN Inner(d)[i] ELSE Absent]

SweepDomain(d) ==
  /\ d \in unswept
  /\ unswept' = unswept \ {d}
  /\ table' = IF Kept(d) = NoEntries THEN Without(d) ELSE With(d, Kept(d))
  /\ UNCHANGED <<now, pc, job, sweepAt>>

Tick ==
  /\ now < Horizon
  /\ now' = now + 1
  /\ UNCHANGED <<table, pc, job, sweepAt, unswept>>

Step(t) ==
  \/ CheckContains(t) \/ Insert(t)
  \/ CheckEmpty(t) \/ RemoveDomain(t)

Sweep == BeginSweep \/ \E d \in Domains : SweepDomain(d)

Next ==
  \/ \E t \in Threads : BeginSet(t) \/ RemoveIp(t) \/ Step(t)
  \/ Sweep
  \/ Tick

Spec == Init /\ [][Next]_vars

\* The sweep ticker runs under a supervisor, an operation once begun runs to
\* its end, and time passes.  Nothing forces an operation to begin.
FairSpec ==
  /\ Spec
  /\ \A t \in Threads : WF_vars(Step(t))
  /\ WF_vars(Sweep)
  /\ WF_vars(Tick)

-----------------------------------------------------------------------------
\* Properties

\* Every variable keeps its type: no access reads a domain that is not there.
TypeOK ==
  /\ now \in 1..Horizon
  /\ Outer \subseteq Domains
  /\ \A d \in Outer : table[d] \in [Ips -> 0..Horizon]
  /\ pc \in [Threads -> Labels]
  /\ job \in [Threads -> Jobs]
  /\ sweepAt \in 0..Horizon
  /\ unswept \subseteq Domains

Live(d, i) == Inner(d)[i] > now

\* The watermark is soft (the length check and the insert are two accesses):
\* however the setters race, the outer map passes it by fewer entries than
\* there are setters.
SoftWatermark == Cardinality(Outer) <= MaxDomains + Cardinality(Threads) - 1

\* An outer key without entries is only ever the leftover of a lift that has
\* not yet looked whether the domain is empty: none is leaked.
NoEmptyDomainLeaked ==
  \A d \in Outer : table[d] = NoEntries =>
    \E t \in Threads : pc[t] \in {"check", "reclaim"} /\ job[t].domain = d

Lifts(d, i) ==
  \E t \in Threads : /\ pc[t] = "idle" /\ pc'[t] = "check"
                     /\ job'[t].domain = d /\ job'[t].ip = i

Reclaims(d) ==
  \E t \in Threads : pc[t] = "reclaim" /\ pc'[t] = "idle" /\ job[t].domain = d

\* While an entry has not expired it is never the sweep's or a setter's victim,
\* however old the sweep's `now` is: only a lift in its domain drops it.
OnlyLiftsDrop ==
  [][\A d \in Domains, i \in Ips :
       Live(d, i) /\ Inner(d)'[i] = Absent => Lifts(d, i) \/ Reclaims(d)]_vars

\* An entry serves its time and no more: before its end only a lift drops it, and
\* when nothing is set any more every entry expires and the sweep returns the
\* table to empty, outer keys included.
EntriesServeTheirTime == OnlyLiftsDrop /\ <>[](Outer = {})

\* The lift is exact, "DELETE lifts precisely the entry of the same (country,
\* ip)": a live entry is only dropped by the lift of that very entry.
LiftIsExact ==
  [][\A d \in Domains, i \in Ips :
       Live(d, i) /\ Inner(d)'[i] = Absent => Lifts(d, i)]_vars
=============================================================================
