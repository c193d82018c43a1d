------------------------------- MODULE Metrics ------------------------------
(***************************************************************************)
(* The metrics registry (metrics.rs): counters that all tasks of the        *)
(* gateway bump without a lock, and the endpoint that renders them for      *)
(* Prometheus while they do.  One recording is several atomic operations,   *)
(* one page is several loads, and each of them is an action.                *)
(*                                                                          *)
(* A series is a counter with its labels: <<name, label>>.  A page loads    *)
(* the parts of a histogram one by one and stands for all series by how     *)
(* many lines they take.  Gauges, which are only stored, bytes and the text *)
(* are left out.                                                            *)
(***************************************************************************)
EXTENDS Naturals, Sequences, SequencesExt, FiniteSetsExt

CONSTANTS Threads,    \* tasks that record
          Jobs,       \* what they record: see JobTypes
          Hists,      \* histograms: "duration", the stages, the free pool's
          Bounds,     \* DURATION_BUCKETS_MS; the last one is the clip, 60_000
          SumMax,     \* u64::MAX
          LabelCap,   \* EXIT_LABEL_CAP
          SampleEvery, \* LOG_SAMPLE_EVERY
          Conns, MaxConns, \* clients; METRICS_MAX_CONCURRENT
          MaxJobs     \* bound: recordings

Clip == Bounds[Len(Bounds)]
Overflow == "__overflow__"
NoProvider == "none"
Observation(j) == j.kind = "observe"

\* The counters that are bumped once for each note.
NoteNames == {"breaker", "restarts", "yield", "elite", "verify", "anonymity", "geo"}

ASSUME Finite == IsFiniteSet(Threads) /\ IsFiniteSet(Conns) /\ IsFiniteSet(Hists)
ASSUME HistsKnown == {"duration", "fetch"} \subseteq Hists
ASSUME BoundsRise == /\ Bounds \in Seq(Nat) \ {<<>>}
                     /\ \A i \in 1..Len(Bounds) - 1 : Bounds[i] < Bounds[i + 1]
ASSUME Limits == {SumMax, LabelCap, SampleEvery, MaxConns} \subseteq Nat \ {0}
ASSUME JobTypes == \A j \in Jobs :
  \/ /\ j.kind = "observe" /\ j.hist = "duration" /\ j.ms \in Nat /\ j.status \in Nat
     /\ DOMAIN j = {"kind", "status", "provider", "hist", "ms"}
  \/ /\ j.kind = "stage" /\ j.hist \in Hists \ {"duration", "fetch"} /\ j.ms \in Nat
     /\ DOMAIN j = {"kind", "hist", "ms"}
  \/ /\ j.kind = "fetch" /\ j.hist = "fetch" /\ j.ms \in Nat
     /\ DOMAIN j = {"kind", "source", "hist", "ms"}
  \/ j.kind = "note" /\ j.name \in NoteNames /\ DOMAIN j = {"kind", "name", "label"}
  \/ j.kind = "log" /\ j.status \in Nat /\ DOMAIN j = {"kind", "status"}
  \/ j.kind = "exit" /\ DOMAIN j = {"kind", "ip"}

VARIABLES series,    \* counters by name and label, those that exist
          buckets, count, sum, \* per histogram
          exits,     \* free_exit_total: exit ip -> count
          pc, job, todo, cur,  \* per task: next operation, arguments, the
                     \* series it has still to bump, `cur` of saturating_add
          conn, inflight,      \* per client: where its connection is; connections
          page,      \* per client: what has been rendered so far
          jobs,
          recorded, noted      \* history: ms per histogram; exits, since the start
registers == <<series, buckets, count, sum, exits>>
tasks == <<pc, job, todo, cur>>
endpoint == <<conn, inflight, page>>
history == <<jobs, recorded, noted>>
vars == <<registers, tasks, endpoint, history>>

Bucket == 1..Len(Bounds)
NoSeries == [s \in {} |-> 0]
NoJob == [kind |-> "none"]

Init ==
  /\ series = NoSeries /\ exits = NoSeries
  /\ buckets = [h \in Hists |-> [i \in Bucket |-> 0]]
  /\ count = [h \in Hists |-> 0] /\ sum = [h \in Hists |-> 0]
  /\ pc = [t \in Threads |-> "idle"] /\ job = [t \in Threads |-> NoJob]
  /\ todo = [t \in Threads |-> <<>>] /\ cur = [t \in Threads |-> 0]
  /\ conn = [c \in Conns |-> "closed"] /\ inflight = 0
  /\ page = [c \in Conns |-> <<>>]
  /\ jobs = 0 /\ noted = 0 /\ recorded = [h \in Hists |-> 0]

\* entry(label).or_insert_with(0).fetch_add(1)
Bumped(counters, s) ==
  [x \in DOMAIN counters \cup {s} |->
     (IF x \in DOMAIN counters THEN counters[x] ELSE 0) + (IF x = s THEN 1 ELSE 0)]

-----------------------------------------------------------------------------
\* Recording

Value(s) == IF s \in DOMAIN series THEN series[s] ELSE 0

Goto(t, from, to) == pc[t] = from /\ pc' = [pc EXCEPT ![t] = to]
Finish(t, from) == Goto(t, from, "idle") /\ job' = [job EXCEPT ![t] = NoJob]

StatusClass(status) == CASE status \in 200..299 -> "2xx" [] status \in 400..499 -> "4xx"
                         [] status \in 500..599 -> "5xx" [] OTHER -> "other"

\* observe: the class, 402 and 429 on their own too, class and provider, and for
\* a 403 the provider.
ObserveSeries(j) ==
  LET class == StatusClass(j.status) IN
  <<<<"requests", class>>>>
  \o (IF j.status \in {402, 429} THEN <<<<"own", j.status>>>> ELSE <<>>)
  \o <<<<"by_provider", <<class, j.provider>>>>>>
  \o (IF j.status = 403 /\ j.provider # NoProvider THEN <<<<"forbidden", j.provider>>>> ELSE <<>>)

\* note_*: one counter with a label.  Only the statuses that trigger the breaker
\* have a series there.
NoteSeries(j) ==
  IF j.name = "breaker" /\ j.label \notin {429, 403, 502, 504} THEN <<>> ELSE <<<<j.name, j.label>>>>

\* sample_full_log: server errors are always logged and not counted.
LogLine == <<"logs", "seq">>
LogSampled == <<"logs", "sampled">>

SeriesOf(j) == CASE Observation(j) -> ObserveSeries(j)
                 [] j.kind = "note" -> NoteSeries(j)
                 [] j.kind = "fetch" -> <<<<"fetches", j.source>>>>
                 [] j.kind = "log" /\ j.status < 500 -> <<LogLine>>
                 [] OTHER -> <<>>

Begin(t) ==
  /\ pc[t] = "idle" /\ jobs < MaxJobs
  /\ jobs' = jobs + 1
  /\ \E j \in Jobs :
       /\ job' = [job EXCEPT ![t] = j]
       /\ todo' = [todo EXCEPT ![t] = SeriesOf(j)]
       /\ pc' = [pc EXCEPT ![t] = IF j.kind = "exit" THEN "get" ELSE "series"]
  /\ UNCHANGED <<registers, cur, endpoint, recorded, noted>>

\* Which line is logged in full is decided by what fetch_add returned.
SampledOut(s) == s = LogLine /\ Value(s) % SampleEvery # 0

BumpSeries(t) ==
  /\ pc[t] = "series" /\ todo[t] # <<>>
  /\ LET s == Head(todo[t]) IN
     /\ series' = Bumped(series, s)
     /\ todo' = [todo EXCEPT ![t] = IF SampledOut(s) THEN <<LogSampled>> ELSE Tail(@)]
  /\ UNCHANGED <<buckets, count, sum, exits, pc, job, cur, endpoint, history>>

\* A note or a log line is no more than that; the others go on to their histogram,
\* or to the sum alone.
SeriesDone(t) ==
  /\ todo[t] = <<>>
  /\ CASE job[t].kind \in {"note", "log"} -> Finish(t, "series")
       [] job[t].kind = "fetch" -> Goto(t, "series", "load") /\ UNCHANGED job
       [] OTHER -> Goto(t, "series", "bucket") /\ UNCHANGED job
  /\ UNCHANGED <<registers, todo, cur, endpoint, history>>

\* Mutant: a duration is not clipped.
Unclipped(ms) == ms

Clipped(ms) == IF ms < Clip THEN ms ELSE Clip

\* The first bucket whose bound is not below: one bump, not one per bound.
BucketFor(ms) == {i \in Bucket : ms <= Bounds[i] /\ \A k \in 1..i - 1 : ms > Bounds[k]}

BumpBucket(t) ==
  /\ Goto(t, "bucket", "count")
  /\ buckets' = [buckets EXCEPT ![job[t].hist] =
                   [i \in Bucket |-> IF i \in BucketFor(Clipped(job[t].ms)) THEN @[i] + 1 ELSE @[i]]]
  /\ UNCHANGED <<series, count, sum, exits, job, todo, cur, endpoint, history>>

BumpCount(t) ==
  /\ Goto(t, "count", "load")
  /\ count' = [count EXCEPT ![job[t].hist] = @ + 1]
  /\ UNCHANGED <<series, buckets, sum, exits, job, todo, cur, endpoint, history>>

\* saturating_add: load, then a loop of exchanges.
LoadSum(t) ==
  /\ Goto(t, "load", "cas")
  /\ cur' = [cur EXCEPT ![t] = sum[job[t].hist]]
  /\ UNCHANGED <<registers, job, todo, endpoint, history>>

\* Mutant: the sum wraps.
WrappingPlus(a, b) == (a + b) % (SumMax + 1)

SaturatingPlus(a, b) == IF a + b > SumMax THEN SumMax ELSE a + b

\* Mutant: what was loaded is stored without comparing.
StoreSum(t) ==
  /\ Finish(t, "cas")
  /\ sum' = [sum EXCEPT ![job[t].hist] = SaturatingPlus(cur[t], Clipped(job[t].ms))]
  /\ recorded' = [recorded EXCEPT ![job[t].hist] = @ + Clipped(job[t].ms)]
  /\ cur' = [cur EXCEPT ![t] = 0]
  /\ UNCHANGED <<series, buckets, count, exits, todo, endpoint, jobs, noted>>

ExchangeSum(t) ==
  /\ pc[t] = "cas"
  /\ LET h == job[t].hist IN
     IF cur[t] = sum[h]
     THEN /\ Finish(t, "cas")
          /\ sum' = [sum EXCEPT ![h] = SaturatingPlus(cur[t], Clipped(job[t].ms))]
          /\ recorded' = [recorded EXCEPT ![h] = @ + Clipped(job[t].ms)]
          /\ cur' = [cur EXCEPT ![t] = 0]
     ELSE /\ cur' = [cur EXCEPT ![t] = sum[h]]
          /\ UNCHANGED <<pc, job, sum, recorded>>
  /\ UNCHANGED <<series, buckets, count, exits, todo, endpoint, jobs, noted>>

-----------------------------------------------------------------------------
\* note_free_exit

\* An exit that has a series is counted there, at the cap too.
GetExit(t) ==
  /\ pc[t] = "get"
  /\ \/ /\ job[t].ip \in DOMAIN exits /\ Finish(t, "get")
        /\ exits' = Bumped(exits, job[t].ip) /\ noted' = noted + 1
     \/ /\ job[t].ip \notin DOMAIN exits /\ Goto(t, "get", "len")
        /\ UNCHANGED <<exits, job, noted>>
  /\ UNCHANGED <<series, buckets, count, sum, todo, cur, endpoint, jobs, recorded>>

\* Mutant: at the cap a new exit is not counted.
CheckLenDrops(t) ==
  /\ pc[t] = "len"
  /\ \/ Cardinality(DOMAIN exits) < LabelCap /\ Goto(t, "len", "insert") /\ UNCHANGED <<job, noted>>
     \/ Cardinality(DOMAIN exits) >= LabelCap /\ Finish(t, "len") /\ noted' = noted + 1
  /\ UNCHANGED <<registers, todo, cur, endpoint, jobs, recorded>>

\* len() and the insert are two accesses.
CheckLen(t) ==
  /\ Goto(t, "len", IF Cardinality(DOMAIN exits) >= LabelCap THEN "overflow" ELSE "insert")
  /\ UNCHANGED <<registers, job, todo, cur, endpoint, history>>

InsertExit(t, from, label) ==
  /\ Finish(t, from)
  /\ exits' = Bumped(exits, label)
  /\ noted' = noted + 1
  /\ UNCHANGED <<series, buckets, count, sum, todo, cur, endpoint, jobs, recorded>>

Record(t) ==
  \/ BumpSeries(t) \/ SeriesDone(t)
  \/ BumpBucket(t) \/ BumpCount(t) \/ LoadSum(t) \/ ExchangeSum(t)
  \/ GetExit(t) \/ CheckLen(t)
  \/ pc[t] = "insert" /\ InsertExit(t, "insert", job[t].ip)
  \/ InsertExit(t, "overflow", Overflow)

-----------------------------------------------------------------------------
\* serve_metrics: one accept loop, a task per connection

\* fetch_add first; a connection over the limit is closed and counted off before
\* the next one is accepted.
Accept(c) ==
  /\ conn[c] = "closed" /\ \A d \in Conns : conn[d] # "over"
  /\ conn' = [conn EXCEPT ![c] = IF inflight >= MaxConns THEN "over" ELSE "read"]
  /\ inflight' = inflight + 1
  /\ UNCHANGED <<registers, tasks, page, history>>

Close(c) ==
  /\ conn' = [conn EXCEPT ![c] = "closed"] /\ inflight' = inflight - 1
  /\ page' = [page EXCEPT ![c] = <<>>]

TurnAway(c) ==
  /\ conn[c] = "over" /\ Close(c)
  /\ UNCHANGED <<registers, tasks, history>>

\* Mutant: a connection that sends nothing in time is only dropped.
ReadTimeoutKeeps(c) ==
  /\ conn[c] = "read" /\ conn' = [conn EXCEPT ![c] = "closed"]
  /\ UNCHANGED <<registers, tasks, inflight, page, history>>

\* Nothing in METRICS_READ_TIMEOUT, or an error.
ReadTimeout(c) ==
  /\ conn[c] = "read" /\ Close(c)
  /\ UNCHANGED <<registers, tasks, history>>

\* GET /metrics, or another path: 404.
ReadRequest(c) ==
  /\ conn[c] = "read"
  /\ conn' = [conn EXCEPT ![c] = "render"]
  /\ UNCHANGED <<registers, tasks, inflight, page, history>>

ReadOther(c) ==
  /\ conn[c] = "read" /\ conn' = [conn EXCEPT ![c] = "write"]
  /\ UNCHANGED <<registers, tasks, inflight, page, history>>

\* render, from top to bottom.
HistOrder(h) == [i \in 1..Len(Bounds) + 2 |->
                   IF i \in Bucket THEN <<"bucket", h, i>>
                   ELSE IF i = Len(Bounds) + 1 THEN <<"count", h>> ELSE <<"sum", h>>]

\* Mutant: count and sum are loaded before the buckets.
CountFirst(h) == [i \in 1..Len(Bounds) + 2 |->
                   IF i = 1 THEN <<"count", h>> ELSE IF i = 2 THEN <<"sum", h>>
                   ELSE <<"bucket", h, i - 2>>]

HistItems(h) == HistOrder(h)
RenderOrder ==
  <<<<"series">>>> \o FlattenSeq(SetToSeq({HistItems(h) : h \in Hists \ {"fetch"}})) \o <<<<"exits">>>>

\* One line for each series that exists, of the requests, the gateway's workers and
\* the free pool; the overflow of the exits has a line before there is one.
LinesOf(names) == Cardinality({s \in DOMAIN series : s[1] \in names})
RequestLines == LinesOf({"requests", "own", "by_provider", "forbidden"})
GatewayLines == LinesOf({"breaker", "restarts", "logs"})
FreePoolLines == LinesOf({"yield", "elite", "verify", "anonymity", "geo", "fetches"})
ExitLines == Cardinality(DOMAIN exits \cup {Overflow})

\* A histogram is rendered by its numbers, the rest by the number of its lines.
Load(item) ==
  CASE item[1] = "bucket" -> buckets[item[2]][item[3]]
    [] item[1] = "count" -> count[item[2]]
    [] item[1] = "sum" -> sum[item[2]]
    [] item[1] = "series" -> RequestLines + GatewayLines + FreePoolLines
    [] item[1] = "exits" -> ExitLines

RenderItem(c) ==
  /\ conn[c] = "render"
  /\ page' = [page EXCEPT ![c] = Append(@, Load(RenderOrder[Len(@) + 1]))]
  /\ conn' = [conn EXCEPT ![c] = IF Len(page'[c]) = Len(RenderOrder) THEN "write" ELSE "render"]
  /\ UNCHANGED <<registers, tasks, inflight, history>>

\* The answer is written, or the client is gone.
Written(c) ==
  /\ conn[c] = "write" /\ Close(c)
  /\ UNCHANGED <<registers, tasks, history>>

Serve(c) == TurnAway(c) \/ ReadTimeout(c) \/ ReadRequest(c) \/ ReadOther(c) \/ RenderItem(c) \/ Written(c)

Next ==
  \/ \E t \in Threads : Begin(t) \/ Record(t)
  \/ \E c \in Conns : Accept(c) \/ Serve(c)

Spec == Init /\ [][Next]_vars

-----------------------------------------------------------------------------
\* Properties

Total(f) == MapThenSumSet(LAMBDA x : f[x], DOMAIN f)
Named(name) == [s \in {x \in DOMAIN series : x[1] = name} |-> series[s]]
AtRest == \A t \in Threads : pc[t] = "idle"

\* However additions race, none is lost: the sum is what was recorded, up to the
\* largest integer, where it stays.  And when nothing is being recorded all totals
\* agree: every observation is in exactly one class, once under its provider and
\* once in a bucket, the slow ones and those with counters of their own included,
\* and of the log lines every SampleEvery-th is kept.
CountsExact ==
  /\ \A h \in Hists : sum[h] = IF recorded[h] > SumMax THEN SumMax ELSE recorded[h]
  /\ AtRest =>
       /\ Total(Named("requests")) = count["duration"]
       /\ Total(Named("by_provider")) = count["duration"]
       /\ \A h \in Hists : Total(buckets[h]) = count[h]
       /\ Total(Named("own")) + Total(Named("forbidden")) <= Total(Named("requests"))
       /\ Value(LogSampled) = Value(LogLine) - (Value(LogLine) + SampleEvery - 1) \div SampleEvery

Places(items) == {i \in 1..Len(RenderOrder) : RenderOrder[i] \in items}
Rendered(p, h) == h # "fetch" /\ \A i \in Places(ToSet(HistItems(h))) : i <= Len(p)
OnPage(p, item) == p[CHOOSE i \in Places({item}) : TRUE]
Under(p, h) == MapThenSumSet(LAMBDA i : OnPage(p, <<"bucket", h, i>>), Bucket)

\* A page may count an observation in its bucket and not in +Inf, but no more of
\* them than there are tasks between the two: buckets are rendered before counts.
TearBounded ==
  \A c \in Conns, h \in Hists :
    Rendered(page[c], h) =>
      Under(page[c], h) <= OnPage(page[c], <<"count", h>>) + Cardinality(Threads)

\* Exits cost a bounded number of series, the cap and one for each further task
\* that saw room at the same time, and none of them goes uncounted.
ExitsCounted ==
  /\ Cardinality(DOMAIN exits \ {Overflow}) <= LabelCap + Cardinality(Threads) - 1
  /\ Total(exits) = noted

\* The endpoint's counter is given back on every path out of a connection, so that
\* no number of timeouts and refusals closes it, and it serves no more than the
\* limit although a refused connection is counted for a moment.
SlotsReturned ==
  /\ inflight = Cardinality({c \in Conns : conn[c] # "closed"})
  /\ Cardinality({c \in Conns : conn[c] \notin {"closed", "over"}}) <= MaxConns

\* "Rendered values are prefix sums and naturally monotone": the bucket of the
\* largest bound is no more than +Inf.
InfCoversBuckets ==
  \A c \in Conns, h \in Hists :
    Rendered(page[c], h) => Under(page[c], h) <= OnPage(page[c], <<"count", h>>)
=============================================================================
