----------------------------- MODULE BanFanout ------------------------------
(***************************************************************************)
(* How a ban travels between gateways (circuit_breaker.rs), and the         *)
(* supervisors its workers run under (main.rs).  Every gateway logs what    *)
(* its nodes answer to one stream; the breakers of all gateways read it as  *)
(* one consumer group, so that each event reaches one of them.  That        *)
(* breaker quarantines the node in its own table, stores the               *)
(* ban in Redis and publishes it to every subscribed gateway, its own       *)
(* included.  The operator's quarantine goes to the table of one gateway.   *)
(*                                                                          *)
(* Breaker and subscriber are started again when they end, after a pause of *)
(* 1 to 60 s (here: some time), until the process is told to stop.  A       *)
(* gateway that does not reach Redis when it starts runs without them.      *)
(*                                                                          *)
(* A domain here is a target site or the country of a node: the operator's  *)
(* handlers file a node under its country.  Ttls are what is left, in units *)
(* of the model's clock.  Events that ban nothing, or come without a node,  *)
(* are skipped by the breaker and left out; so is the watermark of the      *)
(* table (see Quarantine), and the acknowledgement, whose only effect is on *)
(* a list of pending entries nobody reads.                                  *)
(***************************************************************************)
EXTENDS Naturals, Sequences, SequencesExt, FiniteSets

CONSTANTS Gateways, Nodes, Sites,
          CountryOf,                \* CountryOf[n]: the country of node n
          Cooldown, Soft, Deep,     \* 30 s, 60 s and 600 s
          OperatorTtl,
          Attended,                 \* gateways where an operator signals and bans
          MaxBans, MaxFaults        \* bounds of the model

Workers == {"breaker", "sync"}

Countries == {CountryOf[n] : n \in Nodes}
Domains == Sites \cup Countries

ASSUME BanTimes == Cooldown \in Nat \ {0} /\ Soft > Cooldown /\ Deep > Soft /\ {Soft, Deep} \subseteq Nat
ASSUME OperatorTime == OperatorTtl \in Nat \ {0} /\ Attended \subseteq Gateways
ASSUME GatewaysFinite == IsFiniteSet(Gateways)
ASSUME NoSiteIsACountry == Sites \cap Countries = {}

VARIABLES table,     \* per gateway, domain and node: quarantine_map
          stream,    \* events the group has not read
          hand, pc,  \* per gateway: what its breaker has read, and its step
          stored,    \* the keys quarantine:domain:ip in Redis
          inbox,     \* per gateway: deltas on their way
          worker,    \* per gateway and worker: off, run, wait (to be started), over
          stop,      \* per gateway: the broadcast of the signal watcher
          bans, faults,
          applied, missed, \* events a breaker applied; read by one that died first
          lost       \* a delta did not reach every gateway
workers == <<worker, stop>>
counts == <<applied, missed>>
vars == <<table, stream, hand, pc, stored, inbox, workers, bans, faults, counts, lost>>

\* quarantine_ttl_for_status
BanTtl == [status \in {"502", "429", "403"} |->
             CASE status = "502" -> Cooldown [] status = "429" -> Soft [] status = "403" -> Deep]

Free == [left |-> 0, of |-> 0]
Entry(ttl) == [left |-> ttl, of |-> ttl]
NoBans == [d \in Domains |-> [n \in Nodes |-> Free]]

Init ==
  /\ table = [g \in Gateways |-> NoBans]
  /\ stream = <<>>
  /\ hand = [g \in Gateways |-> <<>>] /\ pc = [g \in Gateways |-> "apply"]
  /\ stored = [d \in Domains |-> [n \in Nodes |-> 0]]
  /\ inbox = [g \in Gateways |-> <<>>]
  /\ worker = [g \in Gateways |-> [w \in Workers |-> "run"]]
  /\ stop = [g \in Gateways |-> FALSE]
  /\ bans = 0 /\ faults = 0 /\ applied = 0 /\ missed = 0 /\ lost = FALSE

\* set_quarantine writes over what is there.
Set(g, d, n, ttl) == table' = [table EXCEPT ![g][d][n] = Entry(ttl)]

Runs(g, w) == worker[g][w] = "run"
Subscribed(g) == Runs(g, "sync")

\* A request through node n for site s is answered with a status that bans it.
\* Only a gateway that found Redis when it started logs the event.
Respond(n, s) ==
  /\ \E g \in Gateways : worker[g]["breaker"] # "off"
  /\ bans < MaxBans /\ bans' = bans + 1
  /\ \E status \in DOMAIN BanTtl :
       stream' = Append(stream, [site |-> s, node |-> n, ttl |-> BanTtl[status]])
  /\ UNCHANGED <<table, hand, pc, stored, inbox, workers, faults, counts, lost>>

\* Mutant: the gateway reads as a group of its own.
TakeAlone(g) ==
  /\ Runs(g, "breaker") /\ hand[g] = <<>> /\ stream # <<>>
  /\ hand' = [hand EXCEPT ![g] = stream]
  /\ UNCHANGED <<table, stream, pc, stored, inbox, workers, bans, faults, counts, lost>>

\* XREADGROUP: the breaker takes a batch of what none of the group has had.
Take(g) ==
  /\ Runs(g, "breaker") /\ hand[g] = <<>> /\ stream # <<>>
  /\ \E k \in 1..Len(stream) :
       /\ hand' = [hand EXCEPT ![g] = SubSeq(stream, 1, k)]
       /\ stream' = SubSeq(stream, k + 1, Len(stream))
  /\ UNCHANGED <<table, pc, stored, inbox, workers, bans, faults, counts, lost>>

\* apply_quarantine: the memory first,
Apply(g) ==
  /\ pc[g] = "apply" /\ hand[g] # <<>>
  /\ LET ban == Head(hand[g]) IN Set(g, ban.site, ban.node, ban.ttl)
  /\ pc' = [pc EXCEPT ![g] = "persist"]
  /\ applied' = applied + 1
  /\ UNCHANGED <<stream, hand, stored, inbox, workers, bans, faults, missed, lost>>

Fault == faults < MaxFaults /\ faults' = faults + 1

\* then the key in Redis (given up when the retry fails too),
Persist(g) ==
  /\ pc[g] = "persist"
  /\ pc' = [pc EXCEPT ![g] = "publish"]
  /\ LET ban == Head(hand[g]) IN
       \/ stored' = [stored EXCEPT ![ban.site][ban.node] = ban.ttl] /\ UNCHANGED faults
       \/ Fault /\ UNCHANGED stored
  /\ UNCHANGED <<table, stream, hand, inbox, workers, bans, counts, lost>>

\* Mutant: the publisher leaves itself out.
ReceiversOthers(g) == {h \in Gateways \ {g} : Subscribed(h)}

\* Every subscriber of the channel, the publisher among them.
Receivers(g) == {h \in Gateways : Subscribed(h)}

\* and the delta to all subscribers (given up when the retry fails too).
Publish(g) ==
  /\ pc[g] = "publish"
  /\ pc' = [pc EXCEPT ![g] = "apply"]
  /\ hand' = [hand EXCEPT ![g] = Tail(@)]
  /\ \/ /\ inbox' = [h \in Gateways |->
                       IF h \in Receivers(g) THEN Append(inbox[h], Head(hand[g])) ELSE inbox[h]]
        /\ lost' = (lost \/ \E h \in Gateways : ~Subscribed(h))
        /\ UNCHANGED faults
     \/ Fault /\ lost' = TRUE /\ UNCHANGED inbox
  /\ UNCHANGED <<table, stream, stored, workers, bans, counts>>

\* Mutant: a delta is handled like an event, and published again.
DeliverRelays(g) ==
  /\ inbox[g] # <<>>
  /\ LET ban == Head(inbox[g]) IN
       /\ Set(g, ban.site, ban.node, ban.ttl)
       /\ inbox' = [h \in Gateways |->
                      LET rest == IF h = g THEN Tail(inbox[h]) ELSE inbox[h] IN
                      IF h \in Receivers(g) /\ Len(rest) < MaxBans THEN Append(rest, ban) ELSE rest]
  /\ UNCHANGED <<stream, hand, pc, stored, workers, bans, faults, counts, lost>>

\* apply_delta: the table of this gateway, with the whole ttl again.
Deliver(g) ==
  /\ inbox[g] # <<>>
  /\ LET ban == Head(inbox[g]) IN Set(g, ban.site, ban.node, ban.ttl)
  /\ inbox' = [inbox EXCEPT ![g] = Tail(@)]
  /\ UNCHANGED <<stream, hand, pc, stored, workers, bans, faults, counts, lost>>

\* How many bans breaker g has in hand and has not applied.
Left(g) == Len(hand[g]) - (IF pc[g] = "apply" THEN 0 ELSE 1)

\* What is left of breaker g when it dies: its entries are pending for ever, as
\* it reads new ones only.  The ban at the head may be applied and not published.
Forgotten(g) ==
  /\ hand' = [hand EXCEPT ![g] = <<>>] /\ pc' = [pc EXCEPT ![g] = "apply"]
  /\ missed' = missed + Left(g)

\* A run ends, by an error or a panic: the subscription breaks, with what was on
\* its way, or the breaker drops what it had read.
RunEnds(g, w) ==
  /\ Runs(g, w) /\ Fault
  /\ worker' = [worker EXCEPT ![g][w] = "wait"]
  /\ IF w = "sync"
       THEN /\ inbox' = [inbox EXCEPT ![g] = <<>>]
            /\ lost' = (lost \/ inbox[g] # <<>>)
            /\ UNCHANGED <<hand, pc, missed>>
       ELSE /\ Forgotten(g)
            /\ lost' = (lost \/ pc[g] # "apply")
            /\ UNCHANGED inbox
  /\ UNCHANGED <<table, stream, stored, stop, bans, applied>>

\* Mutant: the loop does not look at the broadcast.
WakeAlways(g, w) ==
  /\ worker[g][w] = "wait"
  /\ worker' = [worker EXCEPT ![g][w] = "run"]
  /\ UNCHANGED <<table, stream, hand, pc, stored, inbox, stop, bans, faults, counts, lost>>

\* supervise_until: the pause is over, or is cut short by the broadcast.
Wake(g, w) ==
  /\ worker[g][w] = "wait"
  /\ worker' = [worker EXCEPT ![g][w] = IF stop[g] THEN "over" ELSE "run"]
  /\ UNCHANGED <<table, stream, hand, pc, stored, inbox, stop, bans, faults, counts, lost>>

\* The signal watcher: no run is interrupted.
Signal(g) ==
  /\ ~stop[g]
  /\ stop' = [stop EXCEPT ![g] = TRUE]
  /\ UNCHANGED <<table, stream, hand, pc, stored, inbox, worker, bans, faults, counts, lost>>

\* The process ends and setup_gateway starts it again, with an empty table, and
\* without workers when Redis does not answer in time.
Restart(g) ==
  /\ Fault
  /\ table' = [table EXCEPT ![g] = NoBans]
  /\ Forgotten(g)
  /\ inbox' = [inbox EXCEPT ![g] = <<>>]
  /\ \E redis \in {"run", "off"} : worker' = [worker EXCEPT ![g] = [w \in Workers |-> redis]]
  /\ stop' = [stop EXCEPT ![g] = FALSE]
  /\ UNCHANGED <<stream, stored, bans, applied, lost>>

\* The operator's handlers, at one gateway.
OperatorBan(g, n) ==
  /\ Set(g, CountryOf[n], n, OperatorTtl)
  /\ UNCHANGED <<stream, hand, pc, stored, inbox, workers, bans, faults, counts, lost>>

OperatorLift(g, n) ==
  /\ table[g][CountryOf[n]][n] # Free
  /\ table' = [table EXCEPT ![g][CountryOf[n]][n] = Free]
  /\ UNCHANGED <<stream, hand, pc, stored, inbox, workers, bans, faults, counts, lost>>

Older(entry) == IF entry.left <= 1 THEN Free ELSE [entry EXCEPT !.left = @ - 1]

\* Time passes: an entry counts until it expires, and so does a key.
Tick ==
  /\ \E d \in Domains, n \in Nodes :
       stored[d][n] > 0 \/ \E g \in Gateways : table[g][d][n] # Free
  /\ table' = [g \in Gateways |-> [d \in Domains |-> [n \in Nodes |-> Older(table[g][d][n])]]]
  /\ stored' = [d \in Domains |-> [n \in Nodes |-> IF stored[d][n] = 0 THEN 0 ELSE stored[d][n] - 1]]
  /\ UNCHANGED <<stream, hand, pc, inbox, workers, bans, faults, counts, lost>>

Breaker(g) == Take(g) \/ Apply(g) \/ Persist(g) \/ Publish(g)
Supervisor(g) == \E w \in Workers : Wake(g, w)
Process(g) == Breaker(g) \/ Deliver(g) \/ Supervisor(g)
Operator(g) == \E n \in Nodes : OperatorBan(g, n) \/ OperatorLift(g, n)

Next ==
  \/ \E n \in Nodes, s \in Sites : Respond(n, s)
  \/ \E g \in Gateways : Process(g) \/ Restart(g)
  \/ \E g \in Gateways, w \in Workers : RunEnds(g, w)
  \/ \E g \in Attended : Operator(g) \/ Signal(g)
  \/ Tick

Spec == Init /\ [][Next]_vars

\* Time passes, and the runtime of each gateway goes on with what is ready.
FairSpec == Spec /\ WF_vars(Tick) /\ \A g \in Gateways : WF_vars(Process(g))

-----------------------------------------------------------------------------
\* Properties

\* The selection skips a node that is quarantined for the site asked for.
Available(g, s, n) == table[g][s][n].left = 0

\* Every variable keeps its type, and an entry never outlives its ttl.
TypeOK ==
  LET Ban == [site : Sites, node : Nodes, ttl : {Cooldown, Soft, Deep}] IN
  /\ \A g \in Gateways, d \in Domains, n \in Nodes :
       LET e == table[g][d][n] IN
       /\ e.of \in {0} \cup (IF d \in Sites THEN {Cooldown, Soft, Deep} ELSE {OperatorTtl})
       /\ e.left \in 0..e.of /\ (e.left = 0 => e = Free)
  /\ \A d \in Domains, n \in Nodes : stored[d][n] \in 0..Deep
  /\ \A seq \in {stream} \cup {hand[g] : g \in Gateways} \cup {inbox[g] : g \in Gateways} :
       Len(seq) <= MaxBans /\ ToSet(seq) \subseteq Ban
  /\ pc \in [Gateways -> {"apply", "persist", "publish"}]
  /\ \A g \in Gateways : pc[g] # "apply" => hand[g] # <<>>
  /\ worker \in [Gateways -> [Workers -> {"off", "run", "wait", "over"}]]
  /\ stop \in [Gateways -> BOOLEAN]
  /\ bans \in 0..MaxBans /\ applied \in 0..MaxBans /\ missed \in 0..MaxBans /\ faults \in 0..MaxFaults /\ lost \in BOOLEAN

Settled == \A g \in Gateways : pc[g] = "apply" /\ inbox[g] = <<>>

\* Bans of one node for one site, read by different breakers, are applied in
\* any order and cross on their way.  Once all deltas have arrived the gateways
\* agree which of them is in force: as the publisher hears itself too, the
\* channel has the last word everywhere.  Only a delta that gets lost divides
\* them; restarts do not.
TablesAgree ==
  ~lost /\ Settled =>
    \A g, h \in Gateways, s \in Sites, n \in Nodes :
      ~Available(g, s, n) /\ ~Available(h, s, n) => table[g][s][n].of = table[h][s][n].of

\* A delta is not answered with a delta: when no node is banned anew, every node
\* is available everywhere again, whatever was lost or restarted.
BansEnd == <>[](\A g \in Gateways, s \in Sites, n \in Nodes : Available(g, s, n))

\* The bans in hand, by breaker, that are not applied yet.
Unapplied == UNION {{g} \X (1..Left(g)) : g \in Gateways}

\* Each event that bans is handled by one breaker: it waits in the stream or in the
\* hand of the one that read it, was applied once, or went with a breaker that died
\* before it came to it.  Nothing else loses a ban.
EachEventOnce == bans = Len(stream) + Cardinality(Unapplied) + applied + missed

\* After the signal no worker starts again in that process, so that nothing is
\* revived while it drains.
NoneRevived ==
  [][\A g \in Gateways, w \in Workers :
       stop[g] /\ stop'[g] /\ ~Runs(g, w) => worker'[g][w] # "run"]_vars

\* A worker that ended runs again, unless the process is told to stop; after that
\* none does.
WorkersReturn ==
  /\ \A g \in Gateways, w \in Workers :
       worker[g][w] = "wait" ~> Runs(g, w) \/ stop[g] \/ worker[g][w] = "off"
  /\ NoneRevived

\* "Stop broadcast aborts current run without respawn": after the signal the
\* workers end.
StopAborts == \A g \in Gateways, w \in Workers : stop[g] ~> ~stop[g] \/ ~Runs(g, w)

\* "Quarantines the given node, restored after ttl seconds" (POST
\* /nodes/{addr}/quarantine): the gateway that was asked to does not select it.
OperatorBanHolds ==
  \A g \in Gateways, n \in Nodes :
    table[g][CountryOf[n]][n].left > 0 => \A s \in Sites : ~Available(g, s, n)

\* "SETEX quarantine: cross-instance persistence": a ban that Redis still holds is
\* in force at a gateway once all deltas have arrived, a restarted one too.
PersistedBansHold ==
  ~lost /\ Settled =>
    \A g \in Gateways, s \in Sites, n \in Nodes : stored[s][n] > 0 => ~Available(g, s, n)

\* "403: deep isolation 600 s": no later ban lets a node out before its time.
DeepStaysDeep ==
  [][\A g \in Gateways, s \in Sites, n \in Nodes :
       table[g][s][n].of = Deep /\ table'[g] # NoBans =>
         table'[g][s][n].left >= table[g][s][n].left - 1]_vars
=============================================================================
