---------------------------- MODULE EventBusProofs ----------------------------
(***************************************************************************)
(* The event bus, for any events, channel, number of shards and faults.    *)
(* Types are inductive, and so is that nothing is dropped in silence: what *)
(* a pipe wrote is in one of the streams.  That an event lands once rests  *)
(* on what is pending: one entry of each event, and none that has landed   *)
(* unless it is about to be acknowledged.                                  *)
(***************************************************************************)
EXTENDS EventBus, FiniteSetTheorems, WellFoundedInduction, TLAPS

LEMMA Least ==
  ASSUME NEW S \in SUBSET Nat, S # {}
  PROVE  \E n \in S : \A m \in S : n <= m
<1>1. IsWellFoundedOn(OpToRel(<, Nat), Nat)
  BY NatLessThanWellFounded
<1>2. PICK n \in S : \A m \in S : <<m, n>> \notin OpToRel(<, Nat)
  BY <1>1, WFMin
<1>3. ASSUME NEW m \in S, m < n PROVE FALSE
  <2>1. <<m, n>> \in Nat \X Nat /\ <<m, n>>[1] < <<m, n>>[2]
    BY <1>3
  <2>2. <<m, n>> \in OpToRel(<, Nat)
    BY <2>1, Zenon DEF OpToRel
  <2>. QED
    BY <1>2, <2>2
<1>. QED
  BY <1>3

\* SetToSeq lists each member of a finite set once.
LEMMA Listing ==
  ASSUME NEW S, IsFiniteSet(S)
  PROVE  /\ SetToSeq(S) \in [1..Cardinality(S) -> S]
         /\ Cardinality(S) \in Nat
         /\ \A x \in S : \E i \in 1..Cardinality(S) : SetToSeq(S)[i] = x
<1>1. PICK f \in [1..Cardinality(S) -> S] : IsInjective(f)
  BY FS_CardinalityType DEF ExistsBijection, Bijection, Injection, IsInjective
<1>2. SetToSeq(S) \in [1..Cardinality(S) -> S] /\ IsInjective(SetToSeq(S))
  BY <1>1 DEF SetToSeq
<1>3. Cardinality(S) \in Nat
  BY FS_CardinalityType
<1>4. Cardinality(1..Cardinality(S)) = Cardinality(S)
  BY <1>3, FS_Interval
<1>5. SetToSeq(S) \in Injection(1..Cardinality(S), S)
  BY <1>2 DEF Injection, IsInjective
<1>6. SetToSeq(S) \in Surjection(1..Cardinality(S), S)
  BY <1>4, <1>5, FS_Injection
<1>. QED
  BY <1>2, <1>3, <1>6 DEF Surjection

-----------------------------------------------------------------------------
\* What a pipe writes

Streamed == EventsOf(DOMAIN stream)

LEMMA WrittenKeeps ==
  ASSUME TypeOK, NEW set \in SUBSET batch, Written(set)
  PROVE  /\ stream' \in Seq(Events) /\ Len(stream') >= Len(stream)
         /\ \A i \in 1..Len(stream) : stream'[i] = stream[i]
         /\ astray' \subseteq Events
         /\ (PlainKey => astray' = {}) /\ (~PlainKey => stream' = <<>>)
         /\ astray \subseteq astray'
         /\ Streamed \subseteq Streamed'
         /\ set \subseteq Streamed' \cup astray'
<1>1. set \subseteq Events /\ IsFiniteSet(set) /\ stream \in Seq(Events) /\ astray \subseteq Events
  BY EventsFinite, FS_Subset DEF TypeOK
<1>2. CASE PlainKey
  <2>. DEFINE n == Cardinality(set)
              listed == SetToSeq(set)
  <2>1. listed \in [1..n -> set] /\ n \in Nat /\ \A x \in set : \E i \in 1..n : listed[i] = x
    BY <1>1, Listing
  <2>2. listed \in Seq(Events) /\ Len(listed) = n
    BY <1>1, <2>1
  <2>3. stream' = stream \o listed /\ astray' = astray
    BY <1>2 DEF Written
  <2>. HIDE DEF listed
  <2>4. stream' \in Seq(Events) /\ Len(stream') = Len(stream) + n
    <3>1. \A t \in Seq(Events) : stream \o t \in Seq(Events) /\ Len(stream \o t) = Len(stream) + Len(t)
      BY <1>1
    <3>. QED
      BY <2>2, <2>3, <3>1
  <2>5. \A i \in 1..Len(stream) : stream'[i] = stream[i]
    BY <1>1, <2>1, <2>2, <2>3
  <2>6. \A i \in 1..n : stream'[Len(stream) + i] = listed[i]
    BY <1>1, <2>1, <2>2, <2>3
  <2>7. set \subseteq Streamed'
    <3>. SUFFICES ASSUME NEW x \in set PROVE \E k \in DOMAIN stream' : stream'[k] = x
      BY DEF Streamed, EventsOf
    <3>1. PICK i \in 1..n : listed[i] = x
      BY <2>1
    <3>2. Len(stream) \in Nat /\ DOMAIN stream' = 1..(Len(stream) + n)
      BY <1>1, <2>4
    <3>3. Len(stream) + i \in DOMAIN stream' /\ stream'[Len(stream) + i] = x
      BY <2>1, <2>6, <3>1, <3>2
    <3>. QED
      BY <3>3
  <2>8. Streamed \subseteq Streamed'
    <3>1. /\ DOMAIN stream = 1..Len(stream) /\ DOMAIN stream' = 1..(Len(stream) + n)
          /\ Len(stream) \in Nat
      BY <1>1, <2>4
    <3>. QED
      BY <2>1, <2>5, <3>1 DEF Streamed, EventsOf
  <2>. QED
    BY <1>2, <2>1, <2>3, <2>4, <2>5, <2>7, <2>8 DEF TypeOK
<1>3. CASE ~PlainKey
  BY <1>1, <1>3 DEF Written, TypeOK, Streamed, EventsOf
<1>. QED
  BY <1>2, <1>3

\* A step of the worker writes part of its batch, or nothing.
LEMMA FlushWrites ==
  ASSUME Flush PROVE \E set \in SUBSET batch : Written(set) /\ batch \subseteq batch' \cup set
BY DEF Flush, Pipe, Piped

LEMMA RetryWrites ==
  ASSUME Retry
  PROVE  \E set \in SUBSET batch : Written(set) /\ batch \subseteq batch' \cup set \cup counted'
BY DEF Retry, Pipe, Piped

\* What the warehouse is handed is finite.
LEMMA LandedCount ==
  ASSUME TypeOK, NEW e \in Events
  PROVE  IsFiniteSet(Entries(e) \cap hand) /\ Cardinality(Entries(e) \cap hand) \in Nat
<1>1. sread \in Nat /\ Entries(e) \cap hand \subseteq 1..sread
  BY DEF TypeOK, Entries
<1>2. IsFiniteSet(1..sread)
  BY <1>1, FS_Interval
<1>. QED
  BY <1>1, <1>2, FS_Subset, FS_CardinalityType

-----------------------------------------------------------------------------
\* Types

LEMMA InitTypes == Init => TypeOK
<1>. SUFFICES ASSUME Init PROVE TypeOK
  OBVIOUS
<1>1. Cardinality(waiting) <= ChannelCap
  BY FS_EmptySet, Bounds DEF Init
<1>. QED
  BY <1>1, Bounds DEF Init, TypeOK, NoMarks

\* The types in three parts: of the way into the stream, of the stream, and of
\* the way out of it.
TypesIn ==
  /\ unsent \subseteq Events /\ waiting \subseteq Events /\ batch \subseteq Events
  /\ Cardinality(waiting) <= ChannelCap
  /\ step \in {"collect", "flush", "retry", "dead"}
  /\ (step \in {"flush", "retry"} => batch # {}) /\ (step = "dead" => waiting \cup batch = {})
  /\ counted \subseteq Events /\ lost \subseteq Events

TypesStream ==
  /\ stream \in Seq(Events) /\ astray \subseteq Events
  /\ (PlainKey => astray = {}) /\ (~PlainKey => stream = <<>>)

TypesOut ==
  /\ bdone \in 0..bread /\ bread \in 0..Len(stream)
  /\ sread \in 0..Len(stream) /\ pending \subseteq 1..sread
  /\ phase \in {"claim", "read", "insert", "ack"}
  /\ hand \subseteq pending
  /\ seen \subseteq Events
  /\ rows \in [Events -> Nat]
  /\ deleted \subseteq 1..sread

Marks == up \in [{"redis", "clickhouse"} -> {"none", "ok", "failed"}]
FaultsCapped == faults \in 0..MaxFaults

LEMMA InParts == TypeOK <=> TypesIn /\ TypesStream /\ TypesOut /\ Marks /\ FaultsCapped
BY DEF TypeOK, TypesIn, TypesStream, TypesOut, Marks, FaultsCapped

\* The steps, by the part they are of.
Entering == (\E e \in Events : Emit(e)) \/ Worker \/ WorkerDies
Leaving == Breaker \/ Pump

LEMMA MarksStep == ASSUME Marks, [Next]_vars PROVE Marks'
<1>1. \A b, m : Marked(b, m) /\ m \in {"none", "ok", "failed"} => Marks'
  BY DEF Marked, Marks
<1>2. NoMarks \in [{"redis", "clickhouse"} -> {"none", "ok", "failed"}]
  BY DEF NoMarks
<1>3. up' = up => Marks'
  BY DEF Marks
<1>4. up' = NoMarks => Marks'
  BY <1>2 DEF Marks
<1>. QED
  BY <1>1, <1>3, <1>4 DEF Next, vars, Emit, Worker, Collect, Flush, Retry, Breaker, ReadBreaker,
     ProcessEntry, Pump, Claim, Read, NothingToInsert, Insert, InsertFails, Ack, WorkerDies, Restart

LEMMA FaultsStep == ASSUME FaultsCapped, [Next]_vars PROVE FaultsCapped'
<1>1. Fault => FaultsCapped'
  BY Bounds DEF Fault, FaultsCapped
<1>2. faults' = faults => FaultsCapped'
  BY DEF FaultsCapped
<1>. QED
  BY <1>1, <1>2 DEF Next, vars, Emit, Worker, Collect, Flush, Retry, Breaker, ReadBreaker,
     ProcessEntry, Pump, Claim, Read, NothingToInsert, Insert, InsertFails, Ack, WorkerDies, Restart

LEMMA TypesInStep == ASSUME TypesIn, [Next]_vars PROVE TypesIn'
<1>. USE DEF producer, ghosts
<1>1. CASE UNCHANGED <<unsent, waiting, batch, step, counted, lost>>
  BY <1>1 DEF TypesIn
<1>2. IsFiniteSet(waiting) /\ Cardinality(waiting) \in Nat
  BY EventsFinite, FS_Subset, FS_CardinalityType DEF TypesIn
<1>3. ASSUME NEW e \in Events, Emit(e) PROVE TypesIn'
  <2>1. Cardinality(waiting \cup {e}) <= Cardinality(waiting) + 1
    BY <1>2, FS_AddElement
  <2>2. Cardinality(waiting) < ChannelCap => Cardinality(waiting \cup {e}) <= ChannelCap
    BY <1>2, <2>1, Bounds, FS_AddElement, FS_CardinalityType
  <2>. QED
    BY <1>3, <2>2 DEF Emit, TypesIn
<1>4. ASSUME NEW e \in Events, Collect(e) PROVE TypesIn'
  <2>1. Cardinality(waiting \ {e}) <= Cardinality(waiting)
    BY <1>2, FS_RemoveElement
  <2>2. Cardinality(waiting \ {e}) <= ChannelCap
    BY <1>2, <2>1, Bounds, FS_RemoveElement, FS_CardinalityType DEF TypesIn
  <2>. QED
    BY <1>4, <2>2 DEF Collect, TypesIn
<1>5. CASE Flush
  BY <1>5 DEF Flush, Piped, TypesIn
<1>6. CASE Retry
  BY <1>6 DEF Retry, Piped, Pipe, TypesIn
<1>7. CASE WorkerDies \/ Restart
  <2>1. waiting' = {} /\ Cardinality(waiting') = 0
    BY <1>7, FS_EmptySet DEF WorkerDies, Restart
  <2>. QED
    BY <1>7, <2>1, Bounds DEF WorkerDies, Restart, TypesIn
<1>8. CASE Leaving
  BY <1>1, <1>8 DEF Leaving, Breaker, ReadBreaker, ProcessEntry, Pump, Claim, Read, NothingToInsert,
     Insert, InsertFails, Ack
<1>. QED
  BY <1>1, <1>3, <1>4, <1>5, <1>6, <1>7, <1>8 DEF Next, Worker, Leaving, vars

\* The stream only grows.
LEMMA StreamStep ==
  ASSUME TypeOK, [Next]_vars
  PROVE  TypesStream' /\ Len(stream') >= Len(stream)
<1>. USE DEF producer
<1>1. CASE UNCHANGED <<stream, astray>>
  <2>1. Len(stream) \in Nat
    BY DEF TypeOK
  <2>. QED
    BY <1>1, <2>1 DEF TypeOK, TypesStream
<1>2. CASE Flush \/ Retry
  BY <1>2, FlushWrites, RetryWrites, WrittenKeeps DEF TypesStream
<1>. QED
  BY <1>1, <1>2 DEF Next, vars, Emit, Worker, Collect, Breaker, ReadBreaker, ProcessEntry, Pump,
     Claim, Read, NothingToInsert, Insert, InsertFails, Ack, WorkerDies, Restart

LEMMA TypesOutStep == ASSUME TypeOK, [Next]_vars PROVE TypesOut'
<1>. USE DEF breaker, pump, ghosts
<1>1. Len(stream) \in Nat /\ Len(stream') \in Nat /\ Len(stream') >= Len(stream)
  BY StreamStep DEF TypeOK, TypesStream
<1>2. TypesOut
  BY InParts
<1>3. CASE UNCHANGED <<breaker, pump, deleted>>
  BY <1>1, <1>2, <1>3 DEF TypesOut
<1>4. CASE Entering
  BY <1>3, <1>4 DEF Entering, Emit, Worker, Collect, Flush, Retry, WorkerDies
<1>5. CASE ReadBreaker
  BY <1>1, <1>2, <1>5 DEF ReadBreaker, TypesOut
<1>6. CASE ProcessEntry
  BY <1>1, <1>2, <1>6 DEF ProcessEntry, TypesOut
<1>7. CASE Claim
  BY <1>2, <1>7 DEF Claim, TypesOut
<1>8. CASE Read
  <2>. DEFINE fresh == {i \in Delivered : Fresh(i)}
  <2>1. Delivered \subseteq 1..Len(stream) /\ fresh \subseteq Delivered
    BY <1>1, <1>2 DEF Delivered, TypesOut
  <2>2. EventsOf(fresh) \subseteq Events
    BY <2>1 DEF EventsOf, TypeOK
  <2>3. /\ hand' = hand \cup fresh \/ hand' = hand
        /\ seen' = seen \cup EventsOf(fresh) \/ seen' = seen
        /\ \/ pending' = pending \cup fresh /\ hand' = hand \cup fresh
           \/ pending' = pending \cup Delivered
        /\ sread' = Len(stream) /\ phase' = "insert"
        /\ UNCHANGED <<breaker, stream, rows, deleted>>
    BY <1>8 DEF Read, Remember
  <2>. HIDE DEF fresh
  <2>4. hand \subseteq pending /\ pending \subseteq 1..Len(stream)
    BY <1>1, <1>2 DEF TypesOut
  <2>5. hand' \subseteq pending' /\ pending' \subseteq 1..Len(stream)
    BY <2>4, <2>1, <2>3
  <2>6. seen' \subseteq Events
    BY <1>2, <2>2, <2>3 DEF TypesOut
  <2>7. deleted' \subseteq 1..sread'
    BY <1>1, <1>2, <2>3 DEF TypesOut
  <2>. QED
    BY <1>1, <1>2, <2>3, <2>5, <2>6, <2>7 DEF TypesOut
<1>9. CASE NothingToInsert
  BY <1>2, <1>9 DEF NothingToInsert, TypesOut
<1>10. ASSUME Landed(hand) PROVE rows' \in [Events -> Nat]
  <2>. DEFINE count(e) == Cardinality(Entries(e) \cap hand)
  <2>1. \A e \in Events : count(e) \in Nat /\ rows[e] \in Nat
    BY LandedCount DEF TypeOK
  <2>2. rows' = [e \in Events |-> rows[e] + count(e)]
    BY <1>10 DEF Landed
  <2>. HIDE DEF count
  <2>. QED
    BY <2>1, <2>2
<1>11. CASE Insert
  BY <1>2, <1>10, <1>11 DEF Insert, TypesOut
<1>12. CASE InsertFails
  BY <1>2, <1>10, <1>12 DEF InsertFails, TypesOut
<1>13. CASE Ack
  BY <1>2, <1>13 DEF Ack, TypesOut
<1>14. CASE Restart
  <2>1. UNCHANGED <<stream, bread, sread, rows>> /\ bdone' = bread /\ phase' = "claim"
        /\ hand' = {} /\ seen' = {}
    BY <1>14 DEF Restart
  <2>2. pending' \subseteq 1..sread /\ deleted' \subseteq 1..sread
    BY <1>2, <1>14 DEF Restart, TypesOut
  <2>. QED
    BY <1>1, <1>2, <2>1, <2>2 DEF TypesOut
<1>. QED
  BY <1>3, <1>4, <1>5, <1>6, <1>7, <1>8, <1>9, <1>11, <1>12, <1>13, <1>14
  DEF Next, vars, Entering, Breaker, Pump

LEMMA TypesStep == ASSUME TypeOK, [Next]_vars PROVE TypeOK'
<1>1. TypesIn' /\ TypesStream' /\ TypesOut' /\ Marks' /\ FaultsCapped'
  BY InParts, TypesInStep, StreamStep, TypesOutStep, MarksStep, FaultsStep
<1>. QED
  BY <1>1 DEF TypeOK, TypesIn, TypesStream, TypesOut, Marks, FaultsCapped

\* Every variable of the bus keeps its type; what the pump holds (pump_once) is
\* pending, and the channel keeps to its capacity.
THEOREM TypeCorrect == Spec => []TypeOK
BY InitTypes, TypesStep, PTL DEF Spec

-----------------------------------------------------------------------------
\* Nothing is dropped in silence

LEMMA SilentStep == ASSUME TypeOK, NoSilentDrop, [Next]_vars PROVE NoSilentDrop'
<1>. USE DEF vars, producer, breaker, pump, ghosts
<1>1. CASE UNCHANGED <<stream, producer, ghosts>>
  BY <1>1 DEF NoSilentDrop, EventsOf, Streamed
<1>2. ASSUME NEW e \in Events, Emit(e) \/ Collect(e) PROVE NoSilentDrop'
  BY <1>2 DEF NoSilentDrop, EventsOf, Streamed, Emit, Collect
<1>3. CASE Flush
  <2>1. PICK set \in SUBSET batch : Written(set) /\ batch \subseteq batch' \cup set
    BY <1>3, FlushWrites
  <2>2. UNCHANGED <<unsent, waiting, counted, lost>>
    BY <1>3 DEF Flush
  <2>. QED
    BY <2>1, <2>2, WrittenKeeps DEF NoSilentDrop, Streamed
<1>4. CASE Retry
  <2>1. PICK set \in SUBSET batch : Written(set) /\ batch \subseteq batch' \cup set \cup counted'
    BY <1>4, RetryWrites
  <2>2. UNCHANGED <<unsent, waiting, lost>> /\ counted \subseteq counted'
    BY <1>4 DEF Retry
  <2>. QED
    BY <2>1, <2>2, WrittenKeeps DEF NoSilentDrop, Streamed
<1>5. CASE WorkerDies \/ Restart
  BY <1>5 DEF NoSilentDrop, EventsOf, Streamed, WorkerDies, Restart
<1>6. CASE Breaker
  BY <1>1, <1>6 DEF Breaker, ReadBreaker, ProcessEntry
<1>7. CASE Pump
  BY <1>1, <1>7 DEF Pump, Claim, Read, NothingToInsert, Insert, InsertFails, Ack
<1>. QED
  BY <1>1, <1>2, <1>3, <1>4, <1>5, <1>6, <1>7 DEF Next, Worker

\* An event given to emit is in the channel, in the worker's buffer, in a stream,
\* counted as dropped, or went down with the worker or the process.
THEOREM DropsAreSeen == Spec => []NoSilentDrop
<1>1. Init => NoSilentDrop
  BY DEF Init, NoSilentDrop
<1>. QED
  BY <1>1, InitTypes, TypesStep, SilentStep, PTL DEF Spec

-----------------------------------------------------------------------------
\* An event lands once

Swallowed == \A i \in 1..sread : stream[i] \in seen
OneEach == \A i, j \in pending : stream[i] = stream[j] => i = j
NotYet == \A i \in pending : rows[stream[i]] = 0 \/ (phase = "ack" /\ i \in hand)
OnceAtMost == \A e \in Events : rows[e] <= 1
LandedSeen == \A e \in Events : rows[e] > 0 => e \in seen

Calm == Swallowed /\ OneEach /\ NotYet /\ OnceAtMost /\ LandedSeen

Once == faults = 0 => Calm

LEMMA ReadCalm ==
  ASSUME TypeOK, Calm, Read, faults' = 0
  PROVE  Calm'
<1>. DEFINE fresh == {i \in Delivered : Fresh(i)}
<1>1. /\ faults \in Nat /\ sread \in Nat /\ sread <= Len(stream) /\ Len(stream) \in Nat
      /\ stream \in [1..Len(stream) -> Events] /\ pending \subseteq 1..sread /\ hand \subseteq pending
  BY DEF TypeOK
<1>2. /\ sread' = Len(stream) /\ UNCHANGED <<stream, rows>> /\ phase = "read" /\ phase' = "insert"
      /\ hand' = hand \cup fresh /\ seen' = seen \cup EventsOf(fresh) /\ pending' = pending \cup fresh
  BY <1>1 DEF Read, Fault, Remember
<1>3. fresh \subseteq (sread + 1)..Len(stream)
  BY DEF Delivered
<1>4. \A i \in fresh : stream[i] \notin seen /\ \A j \in fresh : j < i => stream[j] # stream[i]
  BY <1>1, <1>3 DEF Fresh, EventsOf
<1>5. Swallowed'
  <2>1. SUFFICES \A i \in Delivered : stream[i] \in seen \cup EventsOf(fresh)
    <3>. HIDE DEF fresh
    <3>. QED
      BY <1>1, <1>2 DEF Swallowed, Delivered, Calm
  <2>2. SUFFICES ASSUME NEW i \in Delivered, stream[i] \notin seen PROVE stream[i] \in EventsOf(fresh)
    OBVIOUS
  <2>. DEFINE same == {j \in Delivered : stream[j] = stream[i]}
  <2>3. same \in SUBSET Nat /\ same # {}
    BY <1>1 DEF Delivered
  <2>4. PICK k \in same : \A m \in same : k <= m
    BY <2>3, Least
  <2>5. k \in fresh
    BY <1>1, <2>2, <2>4 DEF Fresh, EventsOf, Delivered
  <2>. QED
    BY <2>4, <2>5 DEF EventsOf
<1>6. OneEach'
  <2>1. \A i \in pending, j \in fresh : stream[i] # stream[j]
    BY <1>1, <1>4 DEF Swallowed, Calm
  <2>2. \A i, j \in fresh : stream[i] = stream[j] => i = j
    BY <1>1, <1>3, <1>4
  <2>. QED
    BY <1>2, <2>1, <2>2 DEF OneEach, Calm
<1>7. NotYet'
  BY <1>1, <1>2, <1>3, <1>4 DEF NotYet, LandedSeen, Calm, TypeOK
<1>8. OnceAtMost' /\ LandedSeen'
  BY <1>2 DEF OnceAtMost, LandedSeen, Calm
<1>. QED
  BY <1>5, <1>6, <1>7, <1>8 DEF Calm

LEMMA InsertCalm ==
  ASSUME TypeOK, Calm, Insert
  PROVE  Calm'
<1>1. /\ UNCHANGED <<stream, sread, pending, hand, seen>> /\ phase = "insert" /\ phase' = "ack"
      /\ Landed(hand) /\ rows \in [Events -> Nat]
      /\ hand \subseteq pending /\ pending \subseteq 1..sread /\ sread \in 0..Len(stream)
      /\ stream \in [1..Len(stream) -> Events] /\ Len(stream) \in Nat
  BY DEF Insert, TypeOK
<1>2. ASSUME NEW e \in Events, NEW i \in hand, stream[i] = e
      PROVE  rows[e] = 0 /\ rows'[e] = 1 /\ e \in seen
  <2>1. Entries(e) \cap hand = {i}
    BY <1>1, <1>2 DEF Entries, Calm, OneEach
  <2>2. rows[e] = 0
    BY <1>1, <1>2 DEF Calm, NotYet
  <2>3. rows'[e] = 1
    <3>1. Cardinality(Entries(e) \cap hand) = 1
      BY <2>1, FS_Singleton
    <3>2. rows'[e] = rows[e] + Cardinality(Entries(e) \cap hand)
      BY <1>1 DEF Landed
    <3>. QED
      BY <2>2, <3>1, <3>2
  <2>. QED
    BY <1>1, <1>2, <2>2, <2>3 DEF Calm, Swallowed
<1>3. ASSUME NEW e \in Events, \A i \in hand : stream[i] # e
      PROVE  rows'[e] = rows[e]
  <2>1. Entries(e) \cap hand = {}
    BY <1>3 DEF Entries
  <2>. QED
    BY <1>1, <2>1, FS_EmptySet DEF Landed
<1>4. Swallowed' /\ OneEach'
  BY <1>1 DEF Calm, Swallowed, OneEach
<1>5. NotYet'
  <2>1. ASSUME NEW i \in pending, i \notin hand PROVE rows'[stream[i]] = 0
    <3>1. \A j \in hand : stream[j] # stream[i]
      BY <1>1, <2>1 DEF Calm, OneEach
    <3>2. stream[i] \in Events /\ rows[stream[i]] = 0
      BY <1>1, <2>1 DEF Calm, NotYet
    <3>. QED
      BY <1>3, <3>1, <3>2
  <2>. QED
    BY <1>1, <2>1 DEF NotYet
<1>6. OnceAtMost' /\ LandedSeen'
  BY <1>1, <1>2, <1>3 DEF Calm, OnceAtMost, LandedSeen
<1>. QED
  BY <1>4, <1>5, <1>6 DEF Calm

LEMMA GrownCalm ==
  ASSUME TypeOK, Calm, NEW set \in SUBSET batch, Written(set),
         UNCHANGED <<sread, pending, phase, hand, seen, rows>>
  PROVE  Calm'
<1>1. \A i \in 1..Len(stream) : stream'[i] = stream[i]
  BY WrittenKeeps
<1>2. sread \in Nat /\ Len(stream) \in Nat /\ sread <= Len(stream) /\ pending \subseteq 1..sread
  BY DEF TypeOK
<1>3. \A i \in 1..sread : stream'[i] = stream[i]
  BY <1>1, <1>2
<1>. QED
  BY <1>2, <1>3 DEF Calm, Swallowed, OneEach, NotYet, OnceAtMost, LandedSeen

LEMMA OnceStep == ASSUME TypeOK, Once, [Next]_vars PROVE Once'
<1>. SUFFICES ASSUME faults' = 0 PROVE Calm'
  BY DEF Once
<1>. USE DEF vars, producer, breaker, pump, ghosts
<1>. DEFINE Same == UNCHANGED <<stream, sread, pending, phase, hand, seen, rows>>
<1>1. faults \in Nat /\ ~Fault
  BY DEF TypeOK, Fault
<1>2. faults = 0
  BY <1>1 DEF Next, Emit, Worker, Collect, Flush, Retry, Breaker, ReadBreaker, ProcessEntry, Pump,
              Claim, Read, NothingToInsert, Insert, InsertFails, Ack, WorkerDies, Restart
<1>3. Calm
  BY <1>2 DEF Once
<1>4. CASE Same
  BY <1>3, <1>4 DEF Calm, Swallowed, OneEach, NotYet, OnceAtMost, LandedSeen
<1>5. ASSUME NEW e \in Events, Emit(e) \/ Collect(e) PROVE Calm'
  BY <1>4, <1>5 DEF Emit, Collect
<1>6. CASE Flush
  <2>1. UNCHANGED <<sread, pending, phase, hand, seen, rows>>
    BY <1>6 DEF Flush
  <2>. QED
    BY <1>3, <1>6, <2>1, FlushWrites, GrownCalm
<1>7. CASE Retry
  <2>1. UNCHANGED <<sread, pending, phase, hand, seen, rows>>
    BY <1>7 DEF Retry
  <2>. QED
    BY <1>3, <1>7, <2>1, RetryWrites, GrownCalm
<1>8. CASE Breaker
  BY <1>4, <1>8 DEF Breaker, ReadBreaker, ProcessEntry
<1>9. CASE Claim \/ NothingToInsert \/ InsertFails
  BY <1>1, <1>3, <1>9 DEF Claim, NothingToInsert, InsertFails,
     Calm, Swallowed, OneEach, NotYet, OnceAtMost, LandedSeen
<1>10. CASE Read
  BY <1>3, <1>10, ReadCalm
<1>11. CASE Insert
  BY <1>3, <1>11, InsertCalm
<1>12. CASE Ack
  BY <1>1, <1>3, <1>12 DEF Ack, Calm, Swallowed, OneEach, NotYet, OnceAtMost, LandedSeen
<1>13. CASE WorkerDies \/ Restart
  BY <1>1, <1>13 DEF WorkerDies, Restart
<1>. QED
  BY <1>4, <1>5, <1>6, <1>7, <1>8, <1>9, <1>10, <1>11, <1>12, <1>13 DEF Next, Worker, Pump

\* However often the retry of flush writes an event twice, and an insert fails and
\* its entries are claimed again, it lands once, while no answer is lost and the
\* process lives: classify_entry sees every second copy.
THEOREM LandsOnceHolds == Spec => []LandsOnce
<1>1. Init => Once
  BY Bounds DEF Init, Once, Calm, Swallowed, OneEach, NotYet, OnceAtMost, LandedSeen
<1>2. Once => LandsOnce
  BY DEF Once, Calm, OnceAtMost, LandsOnce
<1>. QED
  BY <1>1, <1>2, InitTypes, TypesStep, OnceStep, PTL DEF Spec
=============================================================================
