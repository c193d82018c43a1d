------------------------------ MODULE EventBus ------------------------------
(***************************************************************************)
(* The way of an event from the request that logs it to the two that use   *)
(* it: the channel and the flush worker (telemetry.rs), the Redis stream   *)
(* with one consumer group each for the circuit breaker                    *)
(* (circuit_breaker.rs) and for the warehouse pump (ch_sink.rs).  Any call *)
(* of Redis or the warehouse may fail, or take effect and fail to answer,  *)
(* and the process may die.                                                *)
(*                                                                         *)
(* The worker writes to one stream, or to one per shard when there are     *)
(* several; both readers read the stream that has no shard in its name.    *)
(* One gateway, groups made by an earlier life.  A pass of a reader takes  *)
(* all there is; the window of seen ids, the row limit and the limit of    *)
(* the stream are not reached.  Every event has an id and parses.          *)
(* MaxFaults bounds what duplicates or loses.                              *)
(***************************************************************************)
EXTENDS Naturals, Sequences, SequencesExt, FiniteSets

CONSTANTS Events,     \* each is emitted at most once
          ChannelCap, \* TELEMETRY_CHANNEL_CAP
          Shards,     \* REDIS_STREAM_SHARDS, at least 1
          ShardOf,    \* the shard in 0..Shards - 1 an event's domain hashes to
          MaxFaults

ASSUME EventsFinite == IsFiniteSet(Events)
ASSUME Bounds == ChannelCap \in Nat /\ MaxFaults \in Nat
ASSUME Sharding == Shards \in Nat \ {0} /\ ShardOf \in [Events -> 0..(Shards - 1)]

VARIABLES unsent, waiting, \* the channel
          batch, step,     \* the worker's buffer; collect, flush, retry or dead
          stream,          \* the entries of the readers' stream, by event
          astray,          \* events in the streams of the shards
          counted,         \* events counted as dropped
          bread, bdone,    \* breaker: entries delivered, entries done with
          sread, pending,  \* pump's group: entries delivered, not acknowledged
          phase, hand, seen, \* pump: its step, the entries to insert, SeenIds
          rows,            \* warehouse: rows per event
          up,              \* sink_up of both backends: none, ok or failed
          faults,
          lost, deleted    \* events lost in a crash, entries lost with a consumer

producer == <<unsent, waiting, batch, step, counted, astray>>
breaker == <<bread, bdone>>
pump == <<sread, pending, phase, hand, seen, rows>>
ghosts == <<lost, deleted>>
vars == <<producer, stream, breaker, pump, up, faults, ghosts>>

Entries(e) == {i \in DOMAIN stream : stream[i] = e}
EventsOf(set) == {stream[i] : i \in set}

NoMarks == [redis |-> "none", clickhouse |-> "none"]

Init ==
  /\ unsent = Events /\ waiting = {}
  /\ batch = {} /\ step = "collect"
  /\ stream = <<>> /\ astray = {}
  /\ counted = {}
  /\ bread = 0 /\ bdone = 0
  /\ sread = 0 /\ pending = {}
  /\ phase = "claim" /\ hand = {} /\ seen = {}
  /\ rows = [e \in Events |-> 0]
  /\ up = NoMarks
  /\ faults = 0 /\ lost = {} /\ deleted = {}

\* A call takes effect and its answer is lost.
Fault == faults < MaxFaults /\ faults' = faults + 1

-----------------------------------------------------------------------------
\* telemetry.rs

\* emit: never waits, drops when the channel is full or its reader is gone.
Emit(e) ==
  /\ e \in unsent
  /\ unsent' = unsent \ {e}
  /\ LET room == step # "dead" /\ Cardinality(waiting) < ChannelCap IN
       \/ room /\ waiting' = waiting \cup {e} /\ UNCHANGED counted
       \/ ~room /\ counted' = counted \cup {e} /\ UNCHANGED waiting
  /\ UNCHANGED <<batch, step, astray, stream, breaker, pump, up, faults, ghosts>>

Collect(e) ==
  /\ e \in waiting /\ step = "collect"
  /\ waiting' = waiting \ {e}
  /\ batch' = batch \cup {e}
  /\ UNCHANGED <<unsent, step, astray, counted, stream, breaker, pump, up, faults, ghosts>>

\* flush goes through the shards in turn, each with a pipe of its own.
Pipe == {e \in batch : \A f \in batch : ShardOf[e] <= ShardOf[f]}

\* stream_key_for: a single shard has the plain key.
PlainKey == Shards = 1

\* One execution of the pipe: any part of it may have been written when it fails.
Written(set) ==
  IF PlainKey THEN stream' = stream \o SetToSeq(set) /\ UNCHANGED astray
              ELSE astray' = astray \cup set /\ UNCHANGED stream

Marked(backend, mark) == up' = [up EXCEPT ![backend] = mark]

Piped ==
  /\ batch' = batch \ Pipe
  /\ step' = IF batch' = {} THEN "collect" ELSE "flush"

Flush ==
  /\ batch # {} /\ step \in {"collect", "flush"}
  /\ \/ Written(Pipe) /\ Piped /\ Marked("redis", "ok")
     \/ /\ \E set \in SUBSET Pipe : Written(set)
        /\ step' = "retry" /\ Marked("redis", "failed") /\ UNCHANGED batch
  /\ UNCHANGED <<unsent, waiting, counted, breaker, pump, faults, ghosts>>

\* Mutant: the loss is not counted.
RetryUncounted ==
  /\ step = "retry" /\ Piped
  /\ \E set \in SUBSET Pipe : Written(set)
  /\ UNCHANGED <<unsent, waiting, counted, breaker, pump, up, faults, ghosts>>

\* The same pipe once more, and no more than that; its success is not marked.
Retry ==
  /\ step = "retry" /\ Piped
  /\ \/ Written(Pipe) /\ UNCHANGED counted
     \/ (\E set \in SUBSET Pipe : Written(set)) /\ counted' = counted \cup Pipe
  /\ UNCHANGED <<unsent, waiting, breaker, pump, up, faults, ghosts>>

\* The worker panics.  It owned the receiver, so nothing can take its place: the
\* channel closes with what is in it.
WorkerDies ==
  /\ step # "dead" /\ Fault
  /\ step' = "dead"
  /\ waiting' = {} /\ batch' = {}
  /\ lost' = lost \cup waiting \cup batch
  /\ UNCHANGED <<unsent, counted, astray, stream, breaker, pump, up, deleted>>

-----------------------------------------------------------------------------
\* circuit_breaker.rs: what is delivered is never asked for again.

ReadBreaker ==
  /\ bdone = bread /\ bread < Len(stream)
  /\ bread' = Len(stream)
  /\ \/ UNCHANGED <<bdone, faults>>
     \/ Fault /\ bdone' = Len(stream)
  /\ UNCHANGED <<producer, stream, pump, up, ghosts>>

\* process_entry, then the acknowledgement, whatever becomes of it.
ProcessEntry ==
  /\ bdone < bread
  /\ bdone' = bdone + 1
  /\ UNCHANGED <<producer, stream, bread, pump, up, faults, ghosts>>

-----------------------------------------------------------------------------
\* ch_sink.rs: pump_once

\* Mutant: claimed entries are checked against the window as well.
ClaimChecked ==
  /\ phase = "claim" /\ phase' = "read"
  /\ \E set \in SUBSET pending :
       /\ hand' = {i \in set : stream[i] \notin seen}
       /\ pending' = {i \in pending : i \in set => stream[i] \notin seen}
  /\ UNCHANGED <<producer, stream, breaker, sread, seen, rows, up, faults, ghosts>>

\* XAUTOCLAIM of entries idle for RECLAIM_IDLE.  They were seen when they were
\* first read: they pass by the window.
Claim ==
  /\ phase = "claim" /\ phase' = "read"
  /\ \E set \in SUBSET pending : hand' = set
  /\ UNCHANGED <<producer, stream, breaker, sread, pending, seen, rows, up, faults, ghosts>>

\* SeenIds: a window, its end not reached.
Remember(events) == seen' = seen \cup events

Delivered == (sread + 1)..Len(stream)

\* Mutant: the window is not asked.
FreshUnchecked(i) == TRUE

\* classify_entry of a new entry: its id is not in the window.
Fresh(i) == stream[i] \notin seen \cup EventsOf((sread + 1)..(i - 1))

\* Duplicates are acknowledged at once; an answer that is lost leaves all that
\* was delivered pending.
Read ==
  /\ phase = "read" /\ phase' = "insert"
  /\ sread' = Len(stream)
  /\ LET fresh == {i \in Delivered : Fresh(i)} IN
       \/ /\ hand' = hand \cup fresh
          /\ Remember(EventsOf(fresh))
          /\ \/ pending' = pending \cup fresh /\ UNCHANGED faults
             \/ fresh # Delivered /\ pending' = pending \cup Delivered /\ Fault
       \/ /\ Delivered # {} /\ Fault
          /\ pending' = pending \cup Delivered
          /\ UNCHANGED <<hand, seen>>
  /\ UNCHANGED <<producer, stream, breaker, rows, up, ghosts>>

Landed(set) == rows' = [e \in Events |-> rows[e] + Cardinality(Entries(e) \cap set)]

NothingToInsert ==
  /\ phase = "insert" /\ phase' = "claim"
  /\ hand = {}
  /\ UNCHANGED <<producer, stream, breaker, sread, pending, hand, seen, rows, up, faults, ghosts>>

Insert ==
  /\ phase = "insert" /\ phase' = "ack" /\ hand # {}
  /\ Landed(hand)
  /\ UNCHANGED <<producer, stream, breaker, sread, pending, hand, seen, up, faults, ghosts>>

\* The entries are held, to be claimed later; the rows may have landed.
InsertFails ==
  /\ phase = "insert" /\ phase' = "claim" /\ hand # {}
  /\ hand' = {} /\ Marked("clickhouse", "failed")
  /\ \/ UNCHANGED <<rows, faults>>
     \/ Landed(hand) /\ Fault
  /\ UNCHANGED <<producer, stream, breaker, sread, pending, seen, ghosts>>

\* An acknowledgement that fails is not repeated.
Ack ==
  /\ phase = "ack" /\ phase' = "claim"
  /\ hand' = {} /\ Marked("clickhouse", "ok")
  /\ \/ pending' = pending \ hand /\ UNCHANGED faults
     \/ Fault /\ UNCHANGED pending
  /\ UNCHANGED <<producer, stream, breaker, sread, seen, rows, ghosts>>

\* The process dies and comes back.  If it was away for RECLAIM_IDLE the consumer
\* of its former life is deleted, and with it what it had pending.
Restart ==
  /\ Fault
  /\ waiting' = {} /\ batch' = {} /\ step' = "collect"
  /\ lost' = lost \cup waiting \cup batch
  /\ up' = NoMarks
  /\ bdone' = bread
  /\ phase' = "claim" /\ hand' = {} /\ seen' = {}
  /\ \/ pending' = {} /\ deleted' = deleted \cup pending
     \/ UNCHANGED <<pending, deleted>>
  /\ UNCHANGED <<unsent, counted, astray, stream, bread, sread, rows>>

Worker == (\E e \in Events : Collect(e)) \/ Flush \/ Retry
Breaker == ReadBreaker \/ ProcessEntry
Pump == Claim \/ Read \/ NothingToInsert \/ Insert \/ InsertFails \/ Ack

Next ==
  \/ \E e \in Events : Emit(e)
  \/ Worker \/ Breaker \/ Pump
  \/ WorkerDies \/ Restart

Spec == Init /\ [][Next]_vars

\* The workers run.  The warehouse answers again and again, and what stays
\* pending comes of age and is claimed.
FairSpec ==
  /\ Spec
  /\ WF_vars(Worker) /\ WF_vars(Breaker) /\ WF_vars(Pump)
  /\ SF_vars(Insert) /\ SF_vars(Claim /\ hand' = pending)

-----------------------------------------------------------------------------
\* Properties

\* Every variable keeps its type, and what the pump has in hand is pending: an
\* entry is acknowledged only after its row has landed.
TypeOK ==
  /\ unsent \subseteq Events /\ waiting \subseteq Events /\ batch \subseteq Events
  /\ Cardinality(waiting) <= ChannelCap
  /\ step \in {"collect", "flush", "retry", "dead"}
  /\ (step \in {"flush", "retry"} => batch # {}) /\ (step = "dead" => waiting \cup batch = {})
  /\ stream \in Seq(Events) /\ astray \subseteq Events
  /\ (PlainKey => astray = {}) /\ (~PlainKey => stream = <<>>)
  /\ up \in [{"redis", "clickhouse"} -> {"none", "ok", "failed"}]
  /\ counted \subseteq Events
  /\ bdone \in 0..bread /\ bread \in 0..Len(stream)
  /\ sread \in 0..Len(stream) /\ pending \subseteq 1..sread
  /\ phase \in {"claim", "read", "insert", "ack"}
  /\ hand \subseteq pending
  /\ seen \subseteq Events
  /\ rows \in [Events -> Nat]
  /\ faults \in 0..MaxFaults
  /\ lost \subseteq Events /\ deleted \subseteq 1..sread

\* An event that was emitted is on its way, in the stream, counted as dropped,
\* or was in memory when the worker or the process died.
NoSilentDrop ==
  Events \ unsent \subseteq
    waiting \cup batch \cup EventsOf(DOMAIN stream) \cup astray \cup counted \cup lost

\* "The loss itself can always be observed" when the worker is gone, by the two
\* counters of dropped events: what it had in memory is among them.
LossCounted == step = "dead" => lost \subseteq counted

\* "Up is the result of the last attempt": it says ok after a retry that
\* succeeded.
UpIsLastAttempt == [][Retry /\ counted' = counted => up'["redis"] = "ok"]_vars

\* "Each shard has its own consumer groups, to scale the writing of telemetry and
\* the landing in the warehouse": what a shard holds is landed.
ShardsLand == <>[](astray = {} \/ \A e \in astray : rows[e] > 0)

\* "The unacknowledged entries of the deleted consumer are taken over by
\* autoclaim, so deleting it is safe": none of their events is gone for good.
DeletionIsSafe ==
  \A e \in EventsOf(deleted) :
    rows[e] > 0 \/ \E i \in Entries(e) : i > sread \/ i \in pending

\* While the process lives and no answer is lost, an event lands once, however
\* often it was written, held and claimed.
LandsOnce == faults = 0 => \A e \in Events : rows[e] <= 1

\* With a warehouse that answers again and again, everything in the stream is
\* delivered to both groups, nothing stays pending, and no event is swallowed as its
\* own duplicate: it has landed, unless a consumer was deleted with it.
BusDrains ==
  <>[](/\ waiting = {} /\ batch = {} /\ bdone = Len(stream) /\ sread = Len(stream) /\ pending = {}
       /\ \A e \in EventsOf(DOMAIN stream) : rows[e] > 0 \/ Entries(e) \cap deleted # {})
=============================================================================
