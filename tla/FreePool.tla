------------------------------ MODULE FreePool ------------------------------
(***************************************************************************)
(* The second supply line (free_pool.rs): a worker fetches listings, checks*)
(* what is listed, keeps a registry of addresses with a lifetime, and      *)
(* merges it into the router's pool; the arbitrage scales the merged nodes *)
(* per source, and the sweep forgets scales of sources without nodes.      *)
(*                                                                         *)
(* Times are what is left, in units in which the least backoff is one:     *)
(* `elapsed` is the time since the `now` a run took once, or since the     *)
(* sleep began.  All nodes of a source are in one country.  Of the health  *)
(* the streak of failures is kept: which entry is evicted among equals, and*)
(* the weight it gives (one at least), are left open.                      *)
(***************************************************************************)
EXTENDS Integers, FiniteSets, FiniteSetsExt, SourceLists

CONSTANTS ListedAddrs,
          SourceOrder,  \* the sources: api, html, github, as configured
          Kind, Default, \* per source: its kind, its protocol where nothing is written
          Rows,         \* per source: the items it may list, in order
          Shows,        \* per source: which of them one answer may show
          HtmlWindow,   \* rows of a page that fit into 200 bytes
          IntakeCap,    \* intake_cap_limit
          MarkCap,      \* FAIL_MARKS_CAP
          GeoFound,     \* countries the GeoIP database may give, "none" for a miss
          GeoEnforce,   \* GEOIP_ENFORCE_MISMATCH
          MaxNodes,     \* FREE_MAX_NODES
          Ttl, Interval, MaxBackoff,
          MaxRun,       \* bound on the time the checks of a run take
          MaxZero, RetryEvery, \* SourceGuard
          RequireElite

Sources == ToSet(SourceOrder)

\* What the parser of a source makes of the rows it shows.
Parsed(s, rows) == Parse(s, Kind[s], rows, Default[s], HtmlWindow)
RowsAt(s, places) == LET seq == SetToSortSeq(places, <) IN [k \in 1..Len(seq) |-> Rows[s][seq[k]]]
Lists == {x : x \in UNION {{<<s, Parsed(s, RowsAt(s, places))>> : places \in Shows[s]} : s \in Sources}}
Listings == {r : r \in UNION {ToSet(x[2]) : x \in Lists}}

ASSUME PositiveTimes == {Ttl, Interval, MaxBackoff, MaxZero, RetryEvery, MaxNodes} \subseteq Nat \ {0}
ASSUME PositiveCaps == {IntakeCap, MarkCap} \subseteq Nat \ {0}
ASSUME RunBound == MaxRun \in Nat /\ MaxRun < Ttl
ASSUME Listed == \A r \in Listings : r.addr \in ListedAddrs

VARIABLES entries,      \* Registry.entries
          marks,        \* fail_marks: the time an address is still skipped, or NoMark
          zeros, since, \* SourceGuard: empty fetches; ticks since suspension
          phase, elapsed,
          reachable,    \* the check service answered this run
          raws, checks, \* to be verified; to be checked in full
          snap,         \* the snapshot being merged
          freePool,     \* the free nodes of the router's pool
          factor,       \* free_scale, "full" where there is no key
          audit,        \* sources whose success rate is being asked for
          sweeping, live, \* prune_free_scales of the sweep, sources it has read
          told          \* what the checks of this run said

registry == <<entries, marks>>
guards == <<zeros, since>>
run == <<phase, elapsed, reachable, raws, checks, snap, told>>
router == <<freePool, factor>>
others == <<audit, sweeping, live>>
supplyVars == <<registry, guards, run, router, others>>

NotSuspended == -1
NoMark == -1
MaxFails == Min({n \in 0..MaxBackoff : 2^n >= MaxBackoff})
Window == 2 * Interval
Left(time) == Max({time - elapsed, 0})
Less(time) == Max({time - 1, 0})

Served == {n.addr : n \in freePool}
SourcesOf(set) == {n.source : n \in set}
Known == DOMAIN entries

SupplyInit ==
  /\ entries = [a \in {} |-> {}]
  /\ marks = [a \in ListedAddrs |-> NoMark]
  /\ zeros = [s \in Sources |-> 0] /\ since = [s \in Sources |-> NotSuspended]
  /\ phase = "sleep" /\ elapsed = Interval
  /\ reachable = TRUE
  /\ raws = {} /\ checks = {} /\ snap = {} /\ told = {}
  /\ freePool = {}
  /\ factor = [s \in Sources |-> "full"]
  /\ audit = {} /\ sweeping = FALSE /\ live = {}

-----------------------------------------------------------------------------
\* Registry

Backoff(fails) == Min({2^(fails - 1), MaxBackoff})

BackedOff(set) == {a \in DOMAIN set : set[a].back > 0}

\* evict_if_over_capacity: one that is backed off, if there is one.
Victims(set) == IF BackedOff(set) # {} THEN BackedOff(set) ELSE DOMAIN set

Without(set, a) == [b \in DOMAIN set \ {a} |-> set[b]]

\* Health::fresh and the success of the check that made it.
NewEntry(r, anon) == [proto |-> EgressOf(r.proto), source |-> r.source, anon |-> anon,
                      fails |-> 0, back |-> 0, ttl |-> Left(Ttl)]

\* The first listing of an address gives its protocol and source; a later pass
\* only renews it.
Upserted(r, anon) ==
  IF r.addr \in Known
  THEN {[entries EXCEPT ![r.addr].ttl = Left(Ttl), ![r.addr].fails = 0,
                        ![r.addr].back = 0, ![r.addr].anon = anon]}
  ELSE LET all == [a \in Known \cup {r.addr} |->
                     IF a = r.addr THEN NewEntry(r, anon) ELSE entries[a]] IN
       IF Cardinality(DOMAIN all) <= MaxNodes THEN {all}
       ELSE {Without(all, a) : a \in Victims(all)}

\* Mutant: what only answered is written as a pass of unknown anonymity.
RenewUnknown(a) ==
  entries' = [b \in Known |-> IF b = a THEN [entries[b] EXCEPT !.ttl = Left(Ttl), !.anon = "other"]
                                        ELSE entries[b]]

\* renew_ttl: of an address that is not known, nothing.
Renew(a) ==
  entries' = [b \in Known |-> IF b = a THEN [entries[b] EXCEPT !.ttl = Left(Ttl)] ELSE entries[b]]

\* note_verify_failed, as of a time `ago`: all marks, those past the window too, are
\* forgotten when there are too many.
Marked == {a \in ListedAddrs : marks[a] # NoMark}
Failed(set, a, ago) ==
  LET fails(b) == Min({set[b].fails + 1, MaxFails + 1}) IN
  /\ marks' = [b \in ListedAddrs |-> IF b = a THEN Max({Window - ago, 0})
                                ELSE IF Cardinality(Marked) >= MarkCap THEN NoMark ELSE marks[b]]
  /\ entries' = [b \in DOMAIN set |->
       IF b # a THEN set[b]
       ELSE [set[b] EXCEPT !.fails = fails(b), !.back = Max({Backoff(fails(b)) - ago, 0})]]

\* Mutant: entries are served until they are evicted.
InPoolForever(a) == entries[a].back = 0 /\ (RequireElite => entries[a].anon = "elite")

\* snapshot
InPool(a) ==
  /\ entries[a].ttl > 0
  /\ entries[a].back = 0
  /\ RequireElite => entries[a].anon = "elite"

-----------------------------------------------------------------------------
\* One run of the worker

\* Mutant: a suspended source is never tried again.
ShouldFetchNever(s) == since[s] = NotSuspended

\* The tick it was suspended in was followed by since[s] others.
ShouldFetch(s) == since[s] = NotSuspended \/ (since[s] + 1) % RetryEvery = 0

\* note_outcome: `yields` have nodes.
Guarded(fetched, yields) ==
  /\ zeros' = [s \in Sources |-> IF s \in yields THEN 0
                                 ELSE IF s \in fetched THEN Min({zeros[s] + 1, MaxZero})
                                 ELSE zeros[s]]
  /\ since' = [s \in Sources |-> IF s \in yields THEN NotSuspended
                                 ELSE IF since[s] # NotSuspended THEN (since[s] + 1) % RetryEvery
                                 ELSE IF zeros'[s] = MaxZero THEN 0
                                 ELSE NotSuspended]

EliteKnown == {a \in Known : entries[a].anon = "elite"}

\* What is left of a run's listings: the cap first, and of that what has not failed
\* within the window.
Intake(listed) ==
  {r \in ToSet(CapIntake(listed, IntakeCap, EliteKnown)) : marks[r.addr] <= 0}

\* fetch_all.  A source that fails, or is late, shows nothing.  Sources are built anew
\* for every run, so none remembers an ETag and is told that nothing was modified.
Fetch ==
  /\ phase = "sleep" /\ elapsed = Interval
  /\ phase' = "run" /\ elapsed' = 0
  /\ LET fetched == {s \in Sources : ShouldFetch(s)} IN
       \E got \in [fetched -> Lists] :
         /\ \A s \in fetched : got[s][1] = s
         /\ Guarded(fetched, {s \in fetched : got[s][2] # <<>>})
         /\ LET asked == SelectSeq(SourceOrder, LAMBDA s : s \in fetched) IN
            raws' = Intake(FirstSeen(FlattenSeq([i \in 1..Len(asked) |-> got[asked[i]][2]])))
  /\ reachable' \in BOOLEAN
  /\ UNCHANGED <<registry, checks, snap, told, router, others>>

Tell(a, what) == told' = told \cup {<<a, what>>}

\* verify: with the check service the full check is next, without it the pass
\* only renews.
VerifyPass(r) ==
  /\ phase = "run" /\ r \in raws
  /\ raws' = raws \ {r}
  /\ \/ reachable /\ checks' = checks \cup {r} /\ UNCHANGED <<entries, told>>
     \/ ~reachable /\ Renew(r.addr) /\ Tell(r.addr, "pass") /\ UNCHANGED checks
  /\ UNCHANGED <<marks, guards, phase, elapsed, reachable, snap, router, others>>

VerifyFail(r) ==
  /\ phase = "run" /\ r \in raws
  /\ raws' = raws \ {r}
  /\ Failed(entries, r.addr, elapsed) /\ Tell(r.addr, "fail")
  /\ UNCHANGED <<guards, phase, elapsed, reachable, checks, snap, router, others>>

\* observe_geo: without a country for the exit there is nothing to compare.
ObserveGeo(r, found) == GeoVerdict(r.country, found)

\* apply_geo_verdict, as of now: an address in another country than claimed has failed,
\* if this is enforced.
ApplyGeoVerdict(set, a, verdict) ==
  IF GeoEnforce /\ verdict = "mismatch" THEN Failed(set, a, 0)
                                        ELSE entries' = set /\ UNCHANGED marks

FullPass(r) ==
  /\ phase = "run" /\ raws = {} /\ r \in checks
  /\ checks' = checks \ {r}
  /\ \E anon \in {"elite", "other"}, found \in GeoFound :
       \E set \in Upserted(r, anon) : ApplyGeoVerdict(set, r.addr, ObserveGeo(r, found))
  /\ Tell(r.addr, "pass")
  /\ UNCHANGED <<guards, phase, elapsed, reachable, raws, snap, router, others>>

FullFail(r) ==
  /\ phase = "run" /\ raws = {} /\ r \in checks
  /\ checks' = checks \ {r}
  /\ Failed(entries, r.addr, elapsed) /\ Tell(r.addr, "fail")
  /\ UNCHANGED <<guards, phase, elapsed, reachable, raws, snap, router, others>>

\* Mutant: the scales of the arbitrage are not read.
MergeReadUnscaled ==
  /\ phase = "run" /\ raws = {} /\ checks = {}
  /\ phase' = "merge" /\ elapsed' = 0
  /\ snap' = {[addr |-> a, proto |-> entries[a].proto, source |-> entries[a].source,
               weight |-> "full"] : a \in {b \in Known : InPool(b)}}
  /\ UNCHANGED <<registry, guards, reachable, raws, checks, told, router, others>>

\* merge_once: the snapshot, scaled by what the table says now.
MergeRead ==
  /\ phase = "run" /\ raws = {} /\ checks = {}
  /\ phase' = "merge" /\ elapsed' = 0
  /\ snap' = {[addr |-> a, proto |-> entries[a].proto, source |-> entries[a].source,
               weight |-> factor[entries[a].source]] : a \in {b \in Known : InPool(b)}}
  /\ UNCHANGED <<registry, guards, reachable, raws, checks, told, router, others>>

\* prune_free_scales
Pruned(set) == [s \in Sources |-> IF s \in set THEN factor[s] ELSE "full"]

EndRun == reachable' = TRUE /\ told' = {}

\* replace_vendor_nodes, under the write lock of the pool.
MergeStore ==
  /\ phase = "merge" /\ phase' = "sleep"
  /\ freePool' = snap /\ factor' = Pruned(SourcesOf(snap))
  /\ snap' = {} /\ EndRun
  /\ UNCHANGED <<registry, guards, elapsed, raws, checks, others>>

\* The supervisor starts a new worker, with a new registry.
WorkerPanics ==
  /\ phase = "run"
  /\ phase' = "sleep" /\ elapsed' = Interval
  /\ entries' = [a \in {} |-> {}] /\ marks' = [a \in ListedAddrs |-> NoMark]
  /\ zeros' = [s \in Sources |-> 0] /\ since' = [s \in Sources |-> NotSuspended]
  /\ raws' = {} /\ checks' = {} /\ EndRun
  /\ UNCHANGED <<snap, router, others>>

Tick ==
  /\ \/ phase = "sleep" /\ elapsed < Interval
     \/ phase = "run" /\ elapsed < MaxRun
  /\ elapsed' = elapsed + 1
  /\ entries' = [a \in Known |-> [entries[a] EXCEPT !.ttl = Less(@), !.back = Less(@)]]
  /\ marks' = [a \in ListedAddrs |-> IF marks[a] > 0 THEN marks[a] - 1 ELSE marks[a]]
  /\ UNCHANGED <<guards, phase, reachable, raws, checks, snap, told, router, others>>

-----------------------------------------------------------------------------
\* The arbitrage and the sweep

\* audit_free_with: the sources are read, their success rates asked for.
Ask ==
  /\ audit = {} /\ freePool # {}
  /\ audit' = SourcesOf(freePool)
  /\ UNCHANGED <<registry, guards, run, router, sweeping, live>>

\* free_pool_action: a rate of eighty and more changes nothing.
FreePoolAction(rate) == CASE rate = "below50" -> "none" [] rate = "below80" -> "half"

\* That, an error, or no answer in time.
Hold(s) ==
  /\ s \in audit /\ audit' = audit \ {s}
  /\ UNCHANGED <<registry, guards, run, router, sweeping, live>>

\* scale_vendor_weights: nothing is scaled to less than 1, nor 0 kept at a half.
Scale(s) ==
  /\ s \in audit /\ audit' = audit \ {s}
  /\ \E rate \in {"below50", "below80"} :
       /\ factor' = [factor EXCEPT ![s] = FreePoolAction(rate)]
       /\ freePool' = {IF n.source = s THEN [n EXCEPT !.weight = FreePoolAction(rate)] ELSE n : n \in freePool}
  /\ UNCHANGED <<registry, guards, run, sweeping, live>>

\* prune_free_scales of the sweep takes no lock between its two steps.
PruneRead ==
  /\ ~sweeping /\ sweeping' = TRUE
  /\ live' = SourcesOf(freePool)
  /\ UNCHANGED <<registry, guards, run, router, audit>>

PruneStore ==
  /\ sweeping /\ sweeping' = FALSE
  /\ factor' = Pruned(live) /\ live' = {}
  /\ UNCHANGED <<registry, guards, run, freePool, audit>>

CheckListing == \E r \in raws \cup checks : VerifyPass(r) \/ VerifyFail(r) \/ FullPass(r) \/ FullFail(r)
Work == Fetch \/ CheckListing \/ MergeRead \/ MergeStore
Verdict == \E s \in Sources : Hold(s) \/ Scale(s)
Sweep == PruneRead \/ PruneStore

SupplyNext == Work \/ WorkerPanics \/ Tick \/ Ask \/ Verdict \/ Sweep

SupplySpec == SupplyInit /\ [][SupplyNext]_supplyVars

\* The tasks run under supervisors, checks and queries have timeouts (but for
\* the body of the baseline, see NodeCheck: here it comes, or is an outage).
FairSupply ==
  SupplySpec /\ WF_supplyVars(Work) /\ WF_supplyVars(Tick) /\ WF_supplyVars(Verdict) /\ WF_supplyVars(Sweep)

-----------------------------------------------------------------------------
\* Properties

ScaledWeights == {"full", "half", "none"}

\* Every variable keeps its type, the registry its capacity, and no entry lives
\* longer than a lifetime from the start of the run that renewed it.
SupplyTypeOK ==
  /\ Known \subseteq ListedAddrs /\ Cardinality(Known) <= MaxNodes
  /\ \A a \in Known :
       /\ \E r \in Listings : r.addr = a /\ EgressOf(r.proto) = entries[a].proto /\ r.source = entries[a].source
       /\ entries[a].anon \in {"elite", "other"}
       /\ entries[a].fails \in 0..(MaxFails + 1)
       /\ entries[a].back \in 0..MaxBackoff /\ entries[a].ttl \in 0..Ttl
       /\ phase = "run" => entries[a].ttl <= Left(Ttl)
  /\ marks \in [ListedAddrs -> NoMark..Window]
  /\ zeros \in [Sources -> 0..MaxZero]
  /\ since \in [Sources -> NotSuspended..(RetryEvery - 1)]
  /\ phase \in {"sleep", "run", "merge"} /\ elapsed \in 0..Max({Interval, MaxRun})
  /\ reachable \in BOOLEAN /\ raws \subseteq Listings /\ checks \subseteq Listings
  /\ Cardinality(Served) = Cardinality(freePool)
  /\ \A n \in freePool \cup snap : n.weight \in ScaledWeights
  /\ factor \in [Sources -> ScaledWeights]
  /\ audit \subseteq Sources /\ sweeping \in BOOLEAN /\ live \subseteq Sources

Contact(a) == \E r \in raws \cup checks : r.addr = a /\ (FullPass(r) \/ (~reachable /\ VerifyPass(r)))

\* Unless the worker panics for ever, an address stays in the pool only if it is
\* reached again and again: of the dead ones none outlives its lifetime.
DeadLeave ==
  <>[][~WorkerPanics]_supplyVars =>
    \A a \in ListedAddrs : []<><<Contact(a)>>_supplyVars \/ <>[](a \notin Served)

\* An outage of the check service costs no node: one that is known, was served
\* and answered in this run is served on, as anonymous as it was.
OutageCostsNothing ==
  [][phase = "merge" /\ phase' = "sleep" /\ ~reachable =>
       \A n \in freePool :
         n.addr \in Known /\ <<n.addr, "pass">> \in told /\ <<n.addr, "fail">> \notin told =>
           \E m \in freePool' : m.addr = n.addr]_supplyVars

\* Verdicts, merges and the sweep race for weights and scales.  Once no more
\* verdicts are applied, pool and table agree for good, and no scale is kept for
\* a source without nodes.
FactorsSettle ==
  <>[][~WorkerPanics]_supplyVars /\ <>[][\A s \in Sources : ~Scale(s)]_supplyVars =>
    <>[](/\ \A n \in freePool : n.weight = factor[n.source]
         /\ \A s \in Sources : factor[s] = "full" \/ s \in SourcesOf(freePool))

\* However long a source yields nothing, it is asked again and again.
SourcesRetried ==
  \A s \in Sources : []<><<ShouldFetch(s) /\ Fetch>>_supplyVars

\* "The recheck's upsert resets the weight by health, and with that it is
\* restored": when no more verdicts are applied and served nodes pass the full check
\* again and again, the nodes that are served get weight again.
CutHeals ==
  /\ <>[][~WorkerPanics]_supplyVars /\ <>[][\A s \in Sources : ~Scale(s)]_supplyVars
  /\ []<><<\E r \in checks : r.addr \in Served /\ FullPass(r)>>_supplyVars
  => []<>(\A n \in freePool : n.weight # "none")

\* "A cut stays in force after the merge": no merge gives weight to a node whose
\* source the table has cut.
CutHolds ==
  [][phase = "merge" /\ phase' = "sleep" =>
       \A n \in freePool' : factor[n.source] = "none" => n.weight = "none"]_supplyVars

\* "The key has the protocol, else one pushes the other out": a full check that
\* passes renews the entry of the protocol it has checked.
PassRenewsItsProtocol ==
  [][\A r \in checks \ checks' :
       r.addr \in Known /\ <<r.addr, "pass">> \in told' \ told
         => entries[r.addr].proto = EgressOf(r.proto)]_supplyVars

\* "Deterministic (no shuffle): what is dropped still has a chance in the next round"
\* (cap_intake): where sources list the same in every fetch, all of it is looked at.
ListedIsLookedAt == \A r \in Listings : <>(r \in raws)

\* "backoff, auto-recover via reverify": what failed its last check is merged only
\* when it has passed again.
RecoversByCheck ==
  [][phase = "merge" /\ phase' = "sleep" => \A n \in freePool' : entries[n.addr].fails = 0]_supplyVars
=============================================================================
