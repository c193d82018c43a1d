---------------------------- MODULE RouterProofs ----------------------------
(***************************************************************************)
(* Two parts of the router.  First the quarantine table, for any domains,  *)
(* addresses, tasks and lifetimes.  The soft watermark is a bound on keys  *)
(* that are there or on their way: a setter past the watermark's check     *)
(* brings its key with it.  That the sweep drops no live entry rests on    *)
(* its clock being no later than now, and that no empty key is leaked on   *)
(* what setters write being in future.                                     *)
(*                                                                         *)
(* Then paid weights, for any nodes, groups, boosts and handlers.  That    *)
(* boosts do not compound rests on what weight becomes a base: a node that *)
(* no boost has met yet weighs at most MaxWeight, so every base does.      *)
(***************************************************************************)
EXTENDS Quarantine, PaidWeights, FiniteSetTheorems, TLAPS

\* Every variable keeps its type, whether or not NoJob can name an entry.
Typed ==
  /\ now \in Nat \ {0}
  /\ Outer \subseteq Domains
  /\ table = [d \in Outer |-> table[d]]
  /\ \A d \in Outer : table[d] \in [Ips -> 0..Horizon]
  /\ pc \in [Threads -> Labels]
  /\ job \in [Threads -> Jobs \cup {NoJob}]
  /\ \A t \in Threads : pc[t] # "idle" => job[t] \in Jobs
  /\ unswept \subseteq Domains

\* What a setter is about to write has not expired at the start of time.
SetsExpiry == \A t \in Threads : pc[t] \in {"contains", "insert"} => job[t].expiry > 0

SweepInPast == sweepAt \in Nat /\ sweepAt <= now

\* The outer keys that are there, and those a setter is about to write.
Inserters == {t \in Threads : pc[t] = "insert"}
Brought == {job[t].domain : t \in Inserters}
Claimed == Outer \cup Brought

WatermarkClaimed == Cardinality(Claimed) <= MaxDomains + Cardinality(Threads) - 1

IInv == Typed /\ SetsExpiry /\ SweepInPast /\ WatermarkClaimed /\ NoEmptyDomainLeaked

-----------------------------------------------------------------------------
\* Tables

\* An inner map, or the empty one of a domain that is not there.
LEMMA InnerType ==
  ASSUME Typed, NEW d \in Domains
  PROVE  Inner(d) \in [Ips -> 0..Horizon]
BY TimeTypes DEF Typed, Inner, NoEntries, Absent

-----------------------------------------------------------------------------
\* What each access does to the table

\* What a setter leaves of its domain.
Entered(t) == [Inner(job[t].domain) EXCEPT ![job[t].ip] = job[t].expiry]

LEMMA InsertTable ==
  ASSUME Typed, SetsExpiry, NEW t \in Threads, Insert(t)
  PROVE  /\ job[t].domain \in Domains /\ job[t].ip \in Ips /\ job[t].expiry \in 1..Horizon
         /\ Entered(t) \in [Ips -> 0..Horizon] /\ Entered(t) # NoEntries
         /\ DOMAIN table' = Outer \cup {job[t].domain}
         /\ table' = [e \in Outer \cup {job[t].domain} |-> table'[e]]
         /\ table'[job[t].domain] = Entered(t)
         /\ \A e \in Outer : e # job[t].domain => table'[e] = table[e]
<1>1. job[t] \in Jobs /\ job[t].expiry > 0
  BY DEF Typed, SetsExpiry, Insert, Finish, Goto
<1>2. job[t].domain \in Domains /\ job[t].ip \in Ips /\ job[t].expiry \in 1..Horizon
  BY <1>1, TimeTypes DEF Jobs
<1>3. Inner(job[t].domain) \in [Ips -> 0..Horizon]
  BY <1>2, InnerType
<1>4. Entered(t) \in [Ips -> 0..Horizon] /\ Entered(t)[job[t].ip] = job[t].expiry
  BY <1>2, <1>3 DEF Entered
<1>5. Entered(t) # NoEntries
  BY <1>2, <1>4 DEF NoEntries, Absent
<1>6. table' = With(job[t].domain, Entered(t))
  BY DEF Insert, Entered
<1>7. table' = [e \in Outer \cup {job[t].domain} |-> table'[e]]
  BY <1>6 DEF With
<1>8. /\ DOMAIN table' = Outer \cup {job[t].domain}
      /\ table'[job[t].domain] = Entered(t)
      /\ \A e \in Outer : e # job[t].domain => table'[e] = table[e]
  BY <1>6 DEF With, Outer
<1>. QED
  BY <1>2, <1>4, <1>5, <1>7, <1>8

LEMMA RemoveIpTable ==
  ASSUME Typed, NEW t \in Threads, RemoveIp(t)
  PROVE  \E d \in Outer, i \in Ips :
           /\ job' = [job EXCEPT ![t] = [domain |-> d, ip |-> i, expiry |-> 0]]
           /\ DOMAIN table' = Outer /\ table' = [e \in Outer |-> table'[e]]
           /\ table'[d] = [table[d] EXCEPT ![i] = Absent]
           /\ \A e \in Outer : e # d => table'[e] = table[e]
<1>1. PICK x \in Targets :
        /\ Inner(x[1])[x[2]] # Absent
        /\ table' = [table EXCEPT ![x[1]][x[2]] = Absent]
        /\ job' = [job EXCEPT ![t] = [domain |-> x[1], ip |-> x[2], expiry |-> 0]]
  BY DEF RemoveIp
<1>2. x[1] \in Domains /\ x[2] \in Ips
  BY DomainsFinite
<1>3. x[1] \in Outer
  BY <1>1, <1>2 DEF Inner, NoEntries
<1>. QED
  BY <1>1, <1>2, <1>3 DEF Typed, Outer

LEMMA SweepTable ==
  ASSUME Typed, SweepInPast, NEW d \in Domains, SweepDomain(d)
  PROVE  /\ Kept(d) \in [Ips -> 0..Horizon]
         /\ \/ /\ Kept(d) = NoEntries /\ DOMAIN table' = Outer \ {d}
               /\ table' = [e \in Outer \ {d} |-> table'[e]]
            \/ /\ Kept(d) # NoEntries /\ d \in Outer
               /\ DOMAIN table' = Outer /\ table' = [e \in Outer |-> table'[e]]
               /\ table'[d] = Kept(d)
         /\ \A e \in Outer : e # d => table'[e] = table[e]
<1>1. Kept(d) \in [Ips -> 0..Horizon]
  BY InnerType, TimeTypes DEF Kept, Absent
<1>2. d \notin Outer => Kept(d) = NoEntries
  BY DEF Kept, Inner, NoEntries
<1>3. CASE Kept(d) = NoEntries
  <2>1. table' = Without(d)
    BY <1>3 DEF SweepDomain
  <2>2. table' = [e \in Outer \ {d} |-> table'[e]]
    BY <2>1 DEF Without
  <2>. QED
    BY <1>1, <1>3, <2>1, <2>2 DEF Without, Outer
<1>4. CASE Kept(d) # NoEntries
  <2>1. table' = With(d, Kept(d)) /\ d \in Outer /\ Outer \cup {d} = Outer
    BY <1>2, <1>4 DEF SweepDomain
  <2>2. table' = [e \in Outer |-> table'[e]]
    BY <2>1 DEF With
  <2>3. DOMAIN table' = Outer /\ table'[d] = Kept(d) /\ \A e \in Outer : e # d => table'[e] = table[e]
    BY <2>1 DEF With, Outer
  <2>. QED
    BY <1>1, <1>4, <2>1, <2>2, <2>3
<1>. QED
  BY <1>3, <1>4

-----------------------------------------------------------------------------
\* The invariant

LEMMA InitIInv == Init => IInv
<1>. SUFFICES ASSUME Init PROVE IInv
  OBVIOUS
<1>1. Outer = {} /\ Inserters = {} /\ Claimed = {}
  BY DEF Init, Outer, Inserters, Claimed, Brought
<1>2. Typed
  BY <1>1 DEF Init, Typed, Labels, Outer
<1>3. WatermarkClaimed
  BY <1>1, FS_EmptySet, FS_CardinalityType, ThreadsFinite, MaxDomainsPos DEF WatermarkClaimed
<1>. QED
  BY <1>1, <1>2, <1>3 DEF Init, IInv, SetsExpiry, SweepInPast, NoEmptyDomainLeaked

LEMMA TypedStep == ASSUME Typed, SetsExpiry, SweepInPast, [Next]_vars PROVE Typed'
<1>1. CASE UNCHANGED vars
  BY <1>1 DEF vars, Typed, Outer
<1>2. ASSUME NEW t \in Threads, BeginSet(t) PROVE Typed'
  <2>1. PICK x \in Targets, ttl \in Ttls :
          /\ now + ttl <= Horizon
          /\ job' = [job EXCEPT ![t] = [domain |-> x[1], ip |-> x[2], expiry |-> now + ttl]]
    BY <1>2 DEF BeginSet, Expiry
  <2>2. [domain |-> x[1], ip |-> x[2], expiry |-> now + ttl] \in Jobs
    BY <2>1, DomainsFinite, TimeTypes DEF Jobs, Typed
  <2>. QED
    BY <1>2, <2>1, <2>2 DEF BeginSet, Goto, Typed, Outer, Labels
<1>3. ASSUME NEW t \in Threads, CheckContains(t) \/ CheckEmpty(t) PROVE Typed'
  BY <1>3 DEF CheckContains, CheckEmpty, Goto, Finish, Typed, Outer, Labels
<1>4. ASSUME NEW t \in Threads, Insert(t) PROVE Typed'
  <2>1. /\ pc' \in [Threads -> Labels] /\ job' \in [Threads -> Jobs \cup {NoJob}]
        /\ \A u \in Threads : pc'[u] # "idle" => job'[u] \in Jobs
        /\ UNCHANGED <<now, unswept>>
    BY <1>4 DEF Insert, Finish, Goto, Typed, Labels
  <2>2. Outer' \subseteq Domains /\ table' = [d \in Outer' |-> table'[d]]
        /\ \A d \in Outer' : table'[d] \in [Ips -> 0..Horizon]
    BY <1>4, InsertTable DEF Typed, Outer
  <2>. QED
    BY <2>1, <2>2 DEF Typed
<1>5. ASSUME NEW t \in Threads, RemoveIp(t) PROVE Typed'
  <2>1. PICK d \in Outer, i \in Ips :
          /\ job' = [job EXCEPT ![t] = [domain |-> d, ip |-> i, expiry |-> 0]]
          /\ DOMAIN table' = Outer /\ table' = [e \in Outer |-> table'[e]]
          /\ table'[d] = [table[d] EXCEPT ![i] = Absent]
          /\ \A e \in Outer : e # d => table'[e] = table[e]
    BY <1>5, RemoveIpTable
  <2>2. [domain |-> d, ip |-> i, expiry |-> 0] \in Jobs
    BY TimeTypes DEF Jobs, Typed
  <2>3. /\ pc' \in [Threads -> Labels] /\ job' \in [Threads -> Jobs \cup {NoJob}]
        /\ \A u \in Threads : pc'[u] # "idle" => job'[u] \in Jobs
        /\ UNCHANGED <<now, unswept>>
    BY <1>5, <2>1, <2>2 DEF RemoveIp, Goto, Typed, Labels
  <2>4. Outer' = Outer /\ Outer \subseteq Domains
    BY <2>1 DEF Typed, Outer
  <2>5. 0 \in 0..Horizon /\ \A e \in Outer : table[e] \in [Ips -> 0..Horizon]
    BY TimeTypes DEF Typed
  <2>6. table'[d] \in [Ips -> 0..Horizon]
    BY <2>1, <2>5 DEF Absent
  <2>7. \A e \in Outer : table'[e] \in [Ips -> 0..Horizon]
    BY <2>1, <2>5, <2>6
  <2>8. table' = [e \in Outer' |-> table'[e]]
    BY <2>1, <2>4
  <2>. QED
    BY <2>3, <2>4, <2>7, <2>8 DEF Typed
<1>6. ASSUME NEW t \in Threads, RemoveDomain(t) PROVE Typed'
  BY <1>6 DEF RemoveDomain, Without, Finish, Goto, Typed, Outer, Labels
<1>7. ASSUME NEW d \in Domains, SweepDomain(d) PROVE Typed'
  <2>1. UNCHANGED <<now, pc, job>> /\ unswept' \subseteq Domains
    BY <1>7 DEF SweepDomain, Typed
  <2>2. Outer' \subseteq Domains /\ table' = [e \in Outer' |-> table'[e]]
        /\ \A e \in Outer' : table'[e] \in [Ips -> 0..Horizon]
    BY <1>7, SweepTable DEF Typed, Outer
  <2>. QED
    BY <2>1, <2>2 DEF Typed
<1>8. CASE BeginSweep \/ Tick
  BY <1>8 DEF BeginSweep, Tick, Typed, Outer
<1>. QED
  BY <1>1, <1>2, <1>3, <1>4, <1>5, <1>6, <1>7, <1>8 DEF Next, Step, Sweep

LEMMA ClocksStep ==
  ASSUME Typed, SetsExpiry, SweepInPast, [Next]_vars
  PROVE  SetsExpiry' /\ SweepInPast'
<1>1. CASE UNCHANGED vars
  BY <1>1 DEF vars, SetsExpiry, SweepInPast
<1>2. ASSUME NEW t \in Threads, BeginSet(t) PROVE SetsExpiry' /\ SweepInPast'
  <2>1. PICK x \in Targets, ttl \in Ttls :
          job' = [job EXCEPT ![t] = [domain |-> x[1], ip |-> x[2], expiry |-> now + ttl]]
    BY <1>2 DEF BeginSet, Expiry
  <2>2. now + ttl > 0
    BY TimeTypes DEF Typed
  <2>. QED
    BY <1>2, <2>1, <2>2 DEF BeginSet, Goto, Typed, SetsExpiry, SweepInPast
<1>3. ASSUME NEW t \in Threads, RemoveIp(t) \/ Step(t) PROVE SetsExpiry' /\ SweepInPast'
  BY <1>3
     DEF RemoveIp, Step, CheckContains, Insert, CheckEmpty, RemoveDomain, Goto, Finish, Typed,
         SetsExpiry, SweepInPast
<1>4. CASE Sweep \/ Tick
  BY <1>4 DEF Sweep, BeginSweep, SweepDomain, Tick, Typed, SetsExpiry, SweepInPast
<1>. QED
  BY <1>1, <1>2, <1>3, <1>4 DEF Next

\* A key is claimed when it is found room for, and only then does the number of
\* claimed keys grow: to one less than the watermark and one for each setter.
LEMMA WatermarkStep ==
  ASSUME Typed, SetsExpiry, SweepInPast, WatermarkClaimed, [Next]_vars
  PROVE  WatermarkClaimed'
<1>1. IsFiniteSet(Claimed) /\ Cardinality(Claimed) \in Nat
  <2>1. Claimed \subseteq Domains
    BY DEF Claimed, Brought, Inserters, Typed, Jobs
  <2>. QED
    BY <2>1, DomainsFinite, FS_Subset, FS_CardinalityType
<1>2. Cardinality(Threads) \in Nat
  BY ThreadsFinite, FS_CardinalityType
<1>3. ASSUME Claimed' \subseteq Claimed PROVE WatermarkClaimed'
  <2>1. Cardinality(Claimed') \in Nat /\ Cardinality(Claimed') <= Cardinality(Claimed)
    BY <1>1, <1>3, FS_Subset, FS_CardinalityType
  <2>. QED
    BY <1>1, <1>2, <2>1, MaxDomainsPos DEF WatermarkClaimed
<1>4. CASE UNCHANGED vars
  BY <1>3, <1>4 DEF vars, Claimed, Brought, Inserters, Outer
<1>5. ASSUME NEW t \in Threads, BeginSet(t) PROVE WatermarkClaimed'
  <2>1. CASE Cardinality(Outer) >= MaxDomains
    <3>1. Outer' = Outer /\ Inserters' = Inserters /\ \A u \in Inserters : job'[u] = job[u]
      BY <1>5, <2>1 DEF BeginSet, Goto, Typed, Outer, Inserters
    <3>. QED
      BY <1>3, <3>1 DEF Claimed, Brought
  <2>2. CASE ~(Cardinality(Outer) >= MaxDomains)
    <3>1. IsFiniteSet(Outer) /\ Cardinality(Outer) \in Nat /\ Cardinality(Outer) <= MaxDomains - 1
      BY <1>1, <2>2, FS_Subset, FS_CardinalityType, MaxDomainsPos DEF Claimed
    <3>2. IsFiniteSet(Brought') /\ Cardinality(Brought') \in Nat
            /\ Cardinality(Brought') <= Cardinality(Threads)
      <4>1. IsFiniteSet(Inserters') /\ Cardinality(Inserters') <= Cardinality(Threads)
        BY ThreadsFinite, FS_Subset DEF Inserters
      <4>2. [u \in Inserters' |-> job'[u].domain] \in Surjection(Inserters', Brought')
        BY DEF Brought, Surjection
      <4>3. IsFiniteSet(Brought') /\ Cardinality(Brought') <= Cardinality(Inserters')
        BY <4>1, <4>2, FS_Surjection
      <4>. QED
        BY <1>2, <4>1, <4>3, FS_CardinalityType
    <3>3. Outer' = Outer
      BY <1>5 DEF BeginSet, Outer
    <3>4. Cardinality(Claimed') <= Cardinality(Outer) + Cardinality(Brought')
      <4>1. /\ Cardinality(Outer \cup Brought')
                 = Cardinality(Outer) + Cardinality(Brought') - Cardinality(Outer \cap Brought')
            /\ Cardinality(Outer \cap Brought') \in Nat
        BY <3>1, <3>2, FS_Union, FS_Intersection, FS_CardinalityType
      <4>. QED
        BY <3>1, <3>2, <3>3, <4>1 DEF Claimed
    <3>5. Cardinality(Claimed') \in Nat
      BY <3>1, <3>2, <3>3, FS_Union, FS_CardinalityType DEF Claimed
    <3>. QED
      BY <1>2, <3>1, <3>2, <3>4, <3>5, MaxDomainsPos DEF WatermarkClaimed
  <2>. QED
    BY <2>1, <2>2
<1>6. ASSUME NEW t \in Threads, CheckContains(t) PROVE Claimed' \subseteq Claimed
  <2>1. Outer' = Outer
    BY <1>6 DEF CheckContains, Outer
  <2>2. ASSUME NEW u \in Inserters' PROVE job'[u].domain \in Claimed
    <3>1. CASE u = t
      BY <1>6, <2>2, <3>1 DEF CheckContains, Goto, Finish, Typed, Inserters, Claimed
    <3>2. CASE u # t
      BY <1>6, <2>2, <3>2 DEF CheckContains, Goto, Finish, Typed, Inserters, Claimed, Brought
    <3>. QED
      BY <3>1, <3>2
  <2>. QED
    BY <2>1, <2>2 DEF Claimed, Brought
<1>7. ASSUME NEW t \in Threads, Insert(t) PROVE Claimed' \subseteq Claimed
  <2>1. Outer' = Outer \cup {job[t].domain} /\ t \in Inserters
    BY <1>7, InsertTable DEF Outer, Insert, Finish, Goto, Inserters
  <2>2. \A u \in Inserters' : u \in Inserters /\ job'[u] = job[u]
    BY <1>7 DEF Insert, Finish, Goto, Typed, Inserters
  <2>. QED
    BY <2>1, <2>2 DEF Claimed, Brought
<1>8. ASSUME NEW t \in Threads, RemoveIp(t) \/ CheckEmpty(t) \/ RemoveDomain(t)
      PROVE  Claimed' \subseteq Claimed
  <2>1. Outer' \subseteq Outer
    BY <1>8, RemoveIpTable DEF CheckEmpty, RemoveDomain, Without, Outer
  <2>2. \A u \in Inserters' : u \in Inserters /\ job'[u] = job[u]
    BY <1>8 DEF RemoveIp, CheckEmpty, RemoveDomain, Finish, Goto, Typed, Inserters
  <2>. QED
    BY <2>1, <2>2 DEF Claimed, Brought
<1>9. ASSUME Sweep \/ Tick PROVE Claimed' \subseteq Claimed
  <2>1. UNCHANGED <<pc, job>>
    BY <1>9 DEF Sweep, BeginSweep, SweepDomain, Tick
  <2>2. Outer' \subseteq Outer
    BY <1>9, SweepTable DEF Sweep, BeginSweep, Tick, Outer
  <2>. QED
    BY <2>1, <2>2 DEF Claimed, Brought, Inserters
<1>. QED
  BY <1>3, <1>4, <1>5, <1>6, <1>7, <1>8, <1>9 DEF Next, Step

\* A step that empties a domain leaves a lift behind that will look at it.
LEMMA LeakStep ==
  ASSUME Typed, SetsExpiry, SweepInPast, NoEmptyDomainLeaked, [Next]_vars
  PROVE  NoEmptyDomainLeaked'
<1>. SUFFICES ASSUME NEW d \in Outer', table'[d] = NoEntries
              PROVE  \E u \in Threads : pc'[u] \in {"check", "reclaim"} /\ job'[u].domain = d
  BY DEF NoEmptyDomainLeaked, NoEntries
<1>. DEFINE Watcher(u) == pc[u] \in {"check", "reclaim"} /\ job[u].domain = d
<1>1. ASSUME NEW u \in Threads, Watcher(u), pc'[u] \in {"check", "reclaim"}, job'[u] = job[u]
      PROVE  \E v \in Threads : pc'[v] \in {"check", "reclaim"} /\ job'[v].domain = d
  BY <1>1
<1>2. ASSUME d \in Outer, table'[d] = table[d] PROVE \E u \in Threads : Watcher(u)
  BY <1>2 DEF NoEmptyDomainLeaked
<1>3. CASE UNCHANGED vars
  BY <1>2, <1>3 DEF vars, Outer
<1>4. ASSUME NEW t \in Threads, BeginSet(t) \/ CheckContains(t)
      PROVE  \E u \in Threads : pc'[u] \in {"check", "reclaim"} /\ job'[u].domain = d
  <2>1. d \in Outer /\ table'[d] = table[d]
    BY <1>4 DEF BeginSet, CheckContains, Outer
  <2>2. PICK u \in Threads : Watcher(u)
    BY <1>2, <2>1
  <2>. QED
    BY <1>4, <2>2 DEF BeginSet, CheckContains, Goto, Finish, Typed
<1>5. ASSUME NEW t \in Threads, Insert(t)
      PROVE  \E u \in Threads : pc'[u] \in {"check", "reclaim"} /\ job'[u].domain = d
  <2>1. d \in Outer /\ table'[d] = table[d]
    BY <1>5, InsertTable DEF Outer
  <2>2. PICK u \in Threads : Watcher(u)
    BY <1>2, <2>1
  <2>. QED
    BY <1>5, <2>2 DEF Insert, Goto, Finish, Typed
<1>6. ASSUME NEW t \in Threads, RemoveIp(t)
      PROVE  \E u \in Threads : pc'[u] \in {"check", "reclaim"} /\ job'[u].domain = d
  <2>1. PICK e \in Outer, i \in Ips :
          /\ job' = [job EXCEPT ![t] = [domain |-> e, ip |-> i, expiry |-> 0]]
          /\ DOMAIN table' = Outer
          /\ \A f \in Outer : f # e => table'[f] = table[f]
    BY <1>6, RemoveIpTable
  <2>2. pc[t] = "idle" /\ pc'[t] = "check" /\ job'[t].domain = e
    BY <1>6, <2>1 DEF RemoveIp, Goto, Typed
  <2>3. CASE d = e
    BY <2>2, <2>3
  <2>4. CASE d # e
    <3>1. PICK u \in Threads : Watcher(u)
      BY <1>2, <2>1, <2>4 DEF Outer
    <3>. QED
      BY <1>6, <2>1, <2>2, <3>1 DEF RemoveIp, Goto, Typed
  <2>. QED
    BY <2>3, <2>4
<1>7. ASSUME NEW t \in Threads, CheckEmpty(t)
      PROVE  \E u \in Threads : pc'[u] \in {"check", "reclaim"} /\ job'[u].domain = d
  <2>1. d \in Outer /\ table'[d] = table[d]
    BY <1>7 DEF CheckEmpty, Outer
  <2>2. PICK u \in Threads : Watcher(u)
    BY <1>2, <2>1
  <2>3. CASE u = t
    BY <1>7, <2>1, <2>2, <2>3 DEF CheckEmpty, Goto, Finish, Typed
  <2>4. CASE u # t
    BY <1>7, <2>2, <2>4 DEF CheckEmpty, Goto, Finish, Typed
  <2>. QED
    BY <2>3, <2>4
<1>8. ASSUME NEW t \in Threads, RemoveDomain(t)
      PROVE  \E u \in Threads : pc'[u] \in {"check", "reclaim"} /\ job'[u].domain = d
  <2>1. d \in Outer /\ d # job[t].domain /\ table'[d] = table[d]
    BY <1>8 DEF RemoveDomain, Without, Outer
  <2>2. PICK u \in Threads : Watcher(u)
    BY <1>2, <2>1
  <2>. QED
    BY <1>8, <2>1, <2>2 DEF RemoveDomain, Goto, Finish, Typed
<1>9. ASSUME NEW e \in Domains, SweepDomain(e)
      PROVE  \E u \in Threads : pc'[u] \in {"check", "reclaim"} /\ job'[u].domain = d
  <2>1. d \in Outer /\ table'[d] = table[d]
    BY <1>9, SweepTable DEF Outer
  <2>2. PICK u \in Threads : Watcher(u)
    BY <1>2, <2>1
  <2>. QED
    BY <1>9, <2>2 DEF SweepDomain
<1>10. CASE BeginSweep \/ Tick
  <2>1. d \in Outer /\ table'[d] = table[d]
    BY <1>10 DEF BeginSweep, Tick, Outer
  <2>. QED
    BY <1>2, <1>10, <2>1 DEF BeginSweep, Tick
<1>. QED
  BY <1>3, <1>4, <1>5, <1>6, <1>7, <1>8, <1>9, <1>10 DEF Next, Step, Sweep

LEMMA StepIInv == IInv /\ [Next]_vars => IInv'
BY TypedStep, ClocksStep, WatermarkStep, LeakStep DEF IInv

LEMMA QuarantineInvariant == Spec => []IInv
BY InitIInv, StepIInv, PTL DEF Spec

-----------------------------------------------------------------------------
\* What follows

\* However the setters race past the check of its length, the table exceeds the
\* watermark by fewer domains than there are setters.
THEOREM WatermarkHolds == Spec => []SoftWatermark
<1>1. IInv => SoftWatermark
  <2>. SUFFICES ASSUME IInv PROVE SoftWatermark
    OBVIOUS
  <2>1. Claimed \subseteq Domains
    BY DEF IInv, Claimed, Brought, Inserters, Typed, Jobs
  <2>2. /\ Cardinality(Outer) <= Cardinality(Claimed)
        /\ Cardinality(Outer) \in Nat /\ Cardinality(Claimed) \in Nat
    <3>1. IsFiniteSet(Claimed)
      BY <2>1, DomainsFinite, FS_Subset
    <3>. QED
      BY <3>1, FS_Subset, FS_CardinalityType DEF Claimed
  <2>3. Cardinality(Threads) \in Nat
    BY ThreadsFinite, FS_CardinalityType
  <2>. QED
    BY <2>2, <2>3, MaxDomainsPos DEF IInv, WatermarkClaimed, SoftWatermark
<1>. QED
  BY <1>1, QuarantineInvariant, PTL

\* No operation or sweep, in any interleaving, leaks a domain without entries: one
\* that is there has a lift that has yet to look at it.
THEOREM NoDomainLeaked == Spec => []NoEmptyDomainLeaked
<1>1. IInv => NoEmptyDomainLeaked
  BY DEF IInv
<1>. QED
  BY <1>1, QuarantineInvariant, PTL

\* No sweep or setter ever drops an entry that has not expired: whoever does is a
\* lift in the same domain.
THEOREM LiveEntriesKept == Spec => OnlyLiftsDrop
<1>1. ASSUME IInv, [Next]_vars, NEW d \in Domains, NEW i \in Ips, Live(d, i), Inner(d)'[i] = Absent
      PROVE  Lifts(d, i) \/ Reclaims(d)
  <2>1. Typed /\ SetsExpiry /\ SweepInPast
    BY <1>1 DEF IInv
  <2>2. /\ d \in Outer /\ Inner(d) = table[d] /\ table[d] \in [Ips -> 0..Horizon]
        /\ table[d][i] > now /\ table[d][i] # Absent
    BY <1>1, <2>1, TimeTypes DEF Live, Inner, NoEntries, Absent, Typed
  <2>3. ~(d \in Outer' /\ table'[d] = table[d])
    BY <1>1, <2>2 DEF Inner
  <2>4. ASSUME NEW t \in Threads, Insert(t) PROVE FALSE
    <3>1. d = job[t].domain
      BY <2>1, <2>2, <2>3, <2>4, InsertTable DEF Outer
    <3>2. Inner(d)' = [table[d] EXCEPT ![job[t].ip] = job[t].expiry] /\ job[t].expiry \in 1..Horizon
      BY <2>1, <2>2, <2>4, <3>1, InsertTable DEF Inner, Outer, Entered
    <3>. QED
      BY <1>1, <2>2, <3>2, TimeTypes DEF Absent
  <2>5. ASSUME NEW t \in Threads, RemoveIp(t) PROVE Lifts(d, i)
    <3>1. PICK e \in Outer, k \in Ips :
            /\ job' = [job EXCEPT ![t] = [domain |-> e, ip |-> k, expiry |-> 0]]
            /\ DOMAIN table' = Outer
            /\ table'[e] = [table[e] EXCEPT ![k] = Absent]
            /\ \A f \in Outer : f # e => table'[f] = table[f]
      BY <2>1, <2>5, RemoveIpTable
    <3>2. d = e /\ i = k
      BY <1>1, <2>2, <2>3, <3>1 DEF Inner, Outer
    <3>. QED
      BY <2>1, <2>5, <3>1, <3>2 DEF Lifts, RemoveIp, Goto, Typed
  <2>6. ASSUME NEW t \in Threads, RemoveDomain(t) PROVE Reclaims(d)
    <3>1. d = job[t].domain
      BY <2>2, <2>3, <2>6 DEF RemoveDomain, Without, Outer
    <3>. QED
      BY <2>1, <2>6, <3>1 DEF Reclaims, RemoveDomain, Finish, Goto, Typed
  <2>7. ASSUME NEW e \in Domains, SweepDomain(e) PROVE FALSE
    <3>1. d = e
      BY <2>1, <2>2, <2>3, <2>7, SweepTable DEF Outer
    <3>2. Kept(d)[i] = table[d][i]
      BY <2>1, <2>2, TimeTypes DEF Kept, SweepInPast, Typed
    <3>3. Inner(d)'[i] = table[d][i]
      BY <2>1, <2>2, <2>7, <3>1, <3>2, SweepTable DEF Inner, Outer, NoEntries, Absent
    <3>. QED
      BY <1>1, <2>2, <3>3
  <2>8. ASSUME UNCHANGED table PROVE FALSE
    BY <2>2, <2>3, <2>8 DEF Outer
  <2>. QED
    BY <1>1, <2>4, <2>5, <2>6, <2>7, <2>8
       DEF Next, Step, Sweep, vars, BeginSet, CheckContains, CheckEmpty, BeginSweep, Tick
<1>2. IInv /\ [Next]_vars =>
        [\A d \in Domains, i \in Ips :
           Live(d, i) /\ Inner(d)'[i] = Absent => Lifts(d, i) \/ Reclaims(d)]_vars
  BY <1>1
<1>. QED
  BY <1>2, QuarantineInvariant, PTL DEF Spec, OnlyLiftsDrop

-----------------------------------------------------------------------------
\* Paid weights

Percents == Boosts \cup {100}

\* The weight that the first boost will keep as the base is one without a boost.
PlainUntilBoosted == \A a \in Pooled \ Recorded : weight[a] <= MaxWeight

PaidInv == PaidTypeOK /\ BasesSound /\ PlainUntilBoosted

-----------------------------------------------------------------------------
\* Arithmetic of a boost

\* A share of a base is no more than the base, and any boost of it has a legal weight.
LEMMA BoostBounds ==
  ASSUME NEW b \in 0..MaxWeight, NEW p \in 1..500
  PROVE  /\ Clamp((b * p) \div 100) \in 0..MaxBoosted
         /\ p <= 100 => Clamp((b * p) \div 100) <= MaxWeight
<1>1. b * p \in Nat
  BY DEF MaxWeight
<1>2. p <= 100 => b * p <= 10000
  BY DEF MaxWeight
<1>3. /\ (b * p) \div 100 \in Nat
      /\ p <= 100 => (b * p) \div 100 <= 100
  <2>. DEFINE n == b * p
  <2>. HIDE DEF n
  <2>1. n \in Nat /\ (p <= 100 => n <= 10000)
    BY <1>1, <1>2 DEF n
  <2>2. n \div 100 \in Nat /\ (n <= 10000 => n \div 100 <= 100)
    BY <2>1
  <2>. QED
    BY <2>1, <2>2 DEF n
<1>. QED
  BY <1>3 DEF Clamp, MaxBoosted, MaxWeight

\* The base of a live node, kept or not yet kept, is a weight without a boost.
LEMMA BaseBounds ==
  ASSUME PaidInv, NEW a \in Pooled \cup Recorded
  PROVE  BaseOf(a) \in 0..MaxWeight
BY DEF PaidInv, PaidTypeOK, BasesSound, PlainUntilBoosted, BaseOf, MaxWeight, MaxBoosted

-----------------------------------------------------------------------------
\* The invariant

LEMMA PaidStarts == PaidInit => PaidInv
<1>. SUFFICES ASSUME PaidInit PROVE PaidInv
  OBVIOUS
<1>1. Pooled = Addrs /\ \A a \in Pooled : weight[a] \in 0..MaxWeight
  BY WeightTypes DEF PaidInit, Pooled
<1>2. Recorded = {}
  BY DEF PaidInit, Recorded
<1>3. PaidTypeOK
  <2>1. access \in [Handlers -> PostSteps] /\ body \in [Handlers -> Bodies]
    BY DEF PaidInit, PostSteps, Bodies, NoBody
  <2>2. enabled \in BOOLEAN /\ boost = 100 /\ last = 100 /\ percent = [h \in Handlers |-> 100]
    BY DEF PaidInit
  <2>3. given = weight
    BY DEF PaidInit
  <2>. QED
    BY <1>1, <1>2, <2>1, <2>2, <2>3 DEF PaidTypeOK, Pooled, MaxWeight, MaxBoosted
<1>. QED
  BY <1>1, <1>2, <1>3 DEF PaidInv, BasesSound, PlainUntilBoosted, MaxWeight

\* One weight for a group: by a verdict or by the operator.
LEMMA GroupStep ==
  ASSUME PaidInv, NEW g, NEW w \in 0..MaxWeight, SetGroup(g, w)
  PROVE  PaidInv'
<1>1. Pooled' = Pooled /\ Recorded' = Recorded
  BY DEF SetGroup, Pooled, Recorded
<1>2. \A a \in Pooled : weight'[a] = (IF Group[a] = g THEN w ELSE weight[a])
  BY DEF SetGroup
<1>3. PaidTypeOK'
  BY <1>1, <1>2 DEF PaidInv, PaidTypeOK, SetGroup, config, handlers, Pooled, MaxWeight, MaxBoosted
<1>4. BasesSound' /\ PlainUntilBoosted'
  BY <1>1, <1>2 DEF PaidInv, BasesSound, PlainUntilBoosted, SetGroup, MaxWeight
<1>. QED
  BY <1>3, <1>4 DEF PaidInv

LEMMA NodesStep ==
  ASSUME PaidInv, NEW a \in Addrs, AddNode(a) \/ RemoveNode(a)
  PROVE  PaidInv'
<1>1. CASE AddNode(a)
  <2>1. PICK w \in 0..MaxWeight :
          weight' = Adding(weight, a, w) /\ given' = Adding(given, a, w)
    BY <1>1, WeightTypes DEF AddNode
  <2>2. Pooled' = Pooled \cup {a} /\ base' = base /\ Recorded' = Recorded
    BY <1>1, <2>1 DEF AddNode, Adding, Pooled, Recorded
  <2>3. \A x \in Pooled' : weight'[x] = IF x = a THEN w ELSE weight[x]
    BY <2>1, <2>2 DEF Adding, Pooled
  <2>4. DOMAIN given' = Pooled' /\ \A x \in Pooled' : given'[x] \in 0..MaxWeight
    BY <2>1, <2>2 DEF Adding, PaidInv, PaidTypeOK, Pooled
  <2>5. PaidTypeOK'
    BY <1>1, <2>2, <2>3, <2>4
       DEF PaidInv, PaidTypeOK, AddNode, config, handlers, MaxWeight, MaxBoosted
  <2>6. BasesSound' /\ PlainUntilBoosted'
    BY <1>1, <2>2, <2>3 DEF PaidInv, BasesSound, PlainUntilBoosted, AddNode, MaxWeight
  <2>. QED
    BY <2>5, <2>6 DEF PaidInv
<1>2. CASE RemoveNode(a)
  <2>1. Pooled' = Pooled \ {a} /\ Recorded' = Recorded \ {a}
    BY <1>2 DEF RemoveNode, Dropping, Pooled, Recorded
  <2>2. /\ \A x \in Pooled' : weight'[x] = weight[x]
        /\ \A x \in Recorded' : base'[x] = base[x]
    BY <1>2, <2>1 DEF RemoveNode, Dropping, Pooled, Recorded
  <2>3. DOMAIN given' = Pooled' /\ \A x \in Pooled' : given'[x] \in 0..MaxWeight
    BY <1>2, <2>1 DEF RemoveNode, Dropping, PaidInv, PaidTypeOK, Pooled
  <2>4. PaidTypeOK'
    BY <1>2, <2>1, <2>2, <2>3 DEF PaidInv, PaidTypeOK, RemoveNode, config, handlers
  <2>5. BasesSound' /\ PlainUntilBoosted'
    BY <1>2, <2>1, <2>2 DEF PaidInv, BasesSound, PlainUntilBoosted, RemoveNode
  <2>. QED
    BY <2>4, <2>5 DEF PaidInv
<1>. QED
  BY <1>1, <1>2

\* The accesses of a POST before it applies the percentage.
LEMMA SwitchStep ==
  ASSUME PaidInv, NEW h \in Handlers,
         \/ Receive(h) \/ StoreEnabled(h) \/ StoreBoost(h)
         \/ LoadEnabled(h) \/ LoadFactor(h)
  PROVE  PaidInv'
<1>1. UNCHANGED <<weight, base, last, given>>
  BY DEF Receive, StoreEnabled, StoreBoost, LoadEnabled, LoadFactor
<1>2. /\ enabled' \in BOOLEAN /\ boost' \in Percents
      /\ access' \in [Handlers -> PostSteps] /\ body' \in [Handlers -> Bodies]
      /\ percent' \in [Handlers -> Percents]
  <2>. USE DEF PaidInv, PaidTypeOK, Advance, PostSteps, Percents, config
  <2>1. CASE Receive(h)
    BY <2>1 DEF Receive
  <2>2. CASE StoreEnabled(h)
    BY <2>2 DEF StoreEnabled
  <2>3. CASE StoreBoost(h)
    BY <2>3 DEF StoreBoost, Bodies
  <2>4. CASE LoadEnabled(h)
    BY <2>4 DEF LoadEnabled
  <2>5. CASE LoadFactor(h)
    BY <2>5 DEF LoadFactor
  <2>. QED
    BY <2>1, <2>2, <2>3, <2>4, <2>5
<1>3. PaidTypeOK'
  BY <1>1, <1>2 DEF PaidInv, PaidTypeOK, Pooled, Recorded, Percents
<1>. QED
  BY <1>1, <1>3 DEF PaidInv, BasesSound, PlainUntilBoosted, Pooled, Recorded

LEMMA BoostStep ==
  ASSUME PaidInv, NEW h \in Handlers, Apply(h)
  PROVE  PaidInv'
<1>. DEFINE p == percent[h]
<1>1. p \in Percents /\ p \in 1..500
  <2>1. p \in Percents
    BY DEF PaidInv, PaidTypeOK, Percents
  <2>2. \A q \in Percents : q \in 1..500
    BY BoostTypes DEF Percents
  <2>. QED
    BY <2>1, <2>2
<1>2. Pooled' = Pooled /\ Recorded' = Pooled
  BY DEF Apply, ApplyBoost, Pooled, Recorded, PaidInv, BasesSound
<1>3. /\ \A a \in Pooled : weight'[a] = Clamp((BaseOf(a) * p) \div 100)
      /\ \A a \in Pooled : base'[a] = BaseOf(a)
  BY DEF Apply, ApplyBoost
<1>4. \A a \in Pooled :
        /\ base'[a] \in 0..MaxWeight /\ weight'[a] \in 0..MaxBoosted
        /\ p <= 100 => weight'[a] <= MaxWeight
  <2>. SUFFICES ASSUME NEW a \in Pooled
                PROVE  /\ base'[a] \in 0..MaxWeight /\ weight'[a] \in 0..MaxBoosted
                       /\ p <= 100 => weight'[a] <= MaxWeight
    OBVIOUS
  <2>. HIDE DEF p
  <2>1. BaseOf(a) \in 0..MaxWeight
    BY BaseBounds
  <2>2. /\ Clamp((BaseOf(a) * p) \div 100) \in 0..MaxBoosted
        /\ p <= 100 => Clamp((BaseOf(a) * p) \div 100) <= MaxWeight
    BY <1>1, <2>1, BoostBounds
  <2>. QED
    BY <1>3, <2>1, <2>2
<1>5. /\ access' \in [Handlers -> PostSteps] /\ body' \in [Handlers -> Bodies]
      /\ percent' \in [Handlers -> Percents]
  BY DEF Apply, Advance, PaidInv, PaidTypeOK, PostSteps, Bodies, NoBody, Percents
<1>6. last' = p /\ UNCHANGED <<enabled, boost, given>>
  BY DEF Apply, ApplyBoost, config
<1>. HIDE DEF p
<1>7. PaidTypeOK'
  BY <1>1, <1>2, <1>4, <1>5, <1>6 DEF PaidInv, PaidTypeOK, Percents
<1>8. BasesSound' /\ PlainUntilBoosted'
  <2>1. /\ \A a \in Pooled' : weight'[a] <= 100 \/ p > 100
        /\ Recorded' = Pooled'
    BY <1>1, <1>2, <1>4 DEF MaxWeight, MaxBoosted
  <2>2. \A a \in Pooled' : weight'[a] \in Nat
    BY <1>2, <1>4 DEF MaxBoosted
  <2>. QED
    BY <1>1, <1>6, <2>1, <2>2 DEF BasesSound, PlainUntilBoosted, MaxWeight
<1>. QED
  BY <1>7, <1>8 DEF PaidInv

LEMMA PaidStep == PaidInv /\ [PaidNext]_paidVars => PaidInv'
<1>. SUFFICES ASSUME PaidInv, [PaidNext]_paidVars PROVE PaidInv'
  OBVIOUS
<1>1. CASE UNCHANGED paidVars
  BY <1>1
     DEF PaidInv, paidVars, config, handlers, PaidTypeOK, BasesSound, PlainUntilBoosted, Pooled,
         Recorded
<1>2. ASSUME NEW g \in Groups, ApplyVerdict(g) PROVE PaidInv'
  <2>1. PICK w \in Verdicts : SetGroup(g, w)
    BY <1>2 DEF ApplyVerdict
  <2>2. w \in 0..MaxWeight
    BY WeightTypes DEF MaxWeight
  <2>. QED
    BY <2>1, <2>2, GroupStep
<1>3. ASSUME NEW a \in Addrs, PatchWeight(a) PROVE PaidInv'
  <2>1. PICK w \in PatchWeights : SetGroup(Group[a], w)
    BY <1>3 DEF PatchWeight
  <2>. QED
    BY <2>1, GroupStep, WeightTypes
<1>4. ASSUME NEW h \in Handlers, Receive(h) \/ Handle(h) PROVE PaidInv'
  BY <1>4, SwitchStep, BoostStep DEF Handle
<1>. QED
  BY <1>1, <1>2, <1>3, <1>4, NodesStep DEF PaidNext

LEMMA WeightsInvariant == PaidSpec => []PaidInv
<1>1. PaidInit => PaidInv
  BY PaidStarts
<1>2. PaidInv /\ [PaidNext]_paidVars => PaidInv'
  BY PaidStep
<1>. QED
  BY <1>1, <1>2, PTL DEF PaidSpec

-----------------------------------------------------------------------------
\* What follows

\* Every state is well typed: no writer or sequence of writers leaves a weight above
\* clamp's bound, or keeps a base above full weight.
THEOREM WeightsTyped == PaidSpec => []PaidTypeOK
<1>1. PaidInv => PaidTypeOK
  BY DEF PaidInv
<1>2. PaidSpec => []PaidInv
  BY WeightsInvariant
<1>. QED
  BY <1>1, <1>2, PTL

\* Boosts of the autotune switch never compound, and no base outlives its node, in
\* any interleaving of boosts, verdicts, patches and changes of the pool.
THEOREM BoostsDoNotCompound == PaidSpec => []BasesSound
<1>1. PaidInv => BasesSound
  BY DEF PaidInv
<1>2. PaidSpec => []PaidInv
  BY WeightsInvariant
<1>. QED
  BY <1>1, <1>2, PTL

-----------------------------------------------------------------------------
\* A lone handler

\* The percentage that switch and factor ask for.
AskedFor == IF enabled THEN boost ELSE 100

\* Where a lone handler stands: what it is about to apply is what the atomics ask for.
OnCourse(h) ==
  /\ access[h] \in {"idle", "enabled", "boost", "load", "factor"} => percent[h] = 100
  /\ access[h] = "factor" => enabled
  /\ access[h] = "apply" => percent[h] = AskedFor

Course == SwitchApplied /\ \A h \in Handlers : OnCourse(h)

LEMMA CourseStep ==
  ASSUME \A g, h \in Handlers : g = h, PaidTypeOK, Course, [PaidNext]_paidVars
  PROVE  Course'
<1>1. ASSUME UNCHANGED <<config, handlers, last>> PROVE Course'
  BY <1>1 DEF Course, SwitchApplied, AllIdle, OnCourse, AskedFor, config, handlers
<1>2. ASSUME NEW h \in Handlers, Receive(h) \/ Handle(h) PROVE Course'
  <2>1. Handlers = {h}
    BY <1>2
  <2>2. ~AllIdle' \/ Apply(h)
    BY <1>2, <2>1
       DEF AllIdle, PaidTypeOK, Receive, Handle, StoreEnabled, StoreBoost, LoadEnabled, LoadFactor,
           Advance
  <2>3. CASE Apply(h)
    BY <2>1, <2>3
       DEF Course, SwitchApplied, OnCourse, AskedFor, PaidTypeOK, Apply, ApplyBoost, Advance, config
  <2>4. CASE ~AllIdle'
    <3>1. OnCourse(h)'
      BY <1>2, <2>1
         DEF Course, OnCourse, AskedFor, PaidTypeOK, config, Receive, Handle, StoreEnabled,
             StoreBoost, LoadEnabled, LoadFactor, Apply, ApplyBoost, Advance
    <3>. QED
      BY <2>1, <2>4, <3>1 DEF Course, SwitchApplied
  <2>. QED
    BY <2>2, <2>3, <2>4
<1>3. ASSUME NEW g \in Groups, ApplyVerdict(g) PROVE Course'
  BY <1>1, <1>3 DEF ApplyVerdict, SetGroup
<1>4. ASSUME NEW a \in Addrs, PatchWeight(a) \/ AddNode(a) \/ RemoveNode(a)
      PROVE  Course'
  BY <1>1, <1>4 DEF PatchWeight, SetGroup, AddNode, RemoveNode
<1>5. CASE UNCHANGED paidVars
  BY <1>1, <1>5 DEF paidVars
<1>. QED
  BY <1>2, <1>3, <1>4, <1>5 DEF PaidNext

\* POSTs that come one at a time leave in force what the last of them asked for,
\* whatever verdicts, patches and changes of the pool come in between.  With two
\* handlers this does not hold.
THEOREM LonePostApplied ==
  ASSUME \A g, h \in Handlers : g = h
  PROVE  PaidSpec => []SwitchApplied
<1>1. PaidInit => Course
  BY DEF PaidInit, Course, SwitchApplied, OnCourse
<1>2. PaidTypeOK /\ Course /\ [PaidNext]_paidVars => Course'
  BY CourseStep
<1>3. Course => SwitchApplied
  BY DEF Course
<1>4. PaidSpec => []PaidTypeOK
  BY WeightsTyped
<1>. QED
  BY <1>1, <1>2, <1>3, <1>4, PTL DEF PaidSpec
=============================================================================
