--------------------------- MODULE BanFanoutProofs ----------------------------
(***************************************************************************)
(* The fan-out of bans, for any gateways, nodes, sites, ban times and      *)
(* bounds.  The tables agree because of the publisher's own subscription:  *)
(* for each site and node some ban was published last, and every gateway   *)
(* has it in force or in its inbox behind all others; only a breaker that  *)
(* has applied a ban it has not published yet may differ.                  *)
(***************************************************************************)
EXTENDS BanFanout, SequenceTheorems, FiniteSetTheorems, TLAPS

Bans == [site : Sites, node : Nodes, ttl : {Cooldown, Soft, Deep}]
Rows == [Domains -> [Nodes -> [left : Nat, of : Nat]]]

Typed ==
  /\ table \in [Gateways -> Rows]
  /\ stream \in Seq(Bans)
  /\ hand \in [Gateways -> Seq(Bans)]
  /\ inbox \in [Gateways -> Seq(Bans)]
  /\ pc \in [Gateways -> {"apply", "persist", "publish"}]
  /\ worker \in [Gateways -> [Workers -> {"off", "run", "wait", "over"}]]
  /\ lost \in BOOLEAN

\* A breaker between two steps of apply_quarantine has the ban before it.
InHand == \A g \in Gateways : pc[g] # "apply" => hand[g] # <<>>

\* No entry is in force without a ttl.
Lapsed ==
  \A g \in Gateways, d \in Domains, n \in Nodes : table[g][d][n].of = 0 => table[g][d][n].left = 0

Concerns(ban, s, n) == ban.site = s /\ ban.node = n

\* Gateway g has applied a ban of n for s and not published it.
AtOdds(g, s, n) == pc[g] # "apply" /\ Concerns(Head(hand[g]), s, n)

Silent(g, s, n) == \A i \in 1..Len(inbox[g]) : ~Concerns(inbox[g][i], s, n)

LastWord(g, s, n, i) ==
  Concerns(inbox[g][i], s, n) /\ \A j \in 1..Len(inbox[g]) : j > i => ~Concerns(inbox[g][j], s, n)

\* The ban of n for s that was published last, for p, reaches g or has reached it.
Heard(g, s, n, p) ==
  /\ \A i \in 1..Len(inbox[g]) : LastWord(g, s, n, i) => inbox[g][i].ttl = p
  /\ Silent(g, s, n) => table[g][s][n].of \in {0, p} \/ AtOdds(g, s, n)

OneLastBan == ~lost => \A s \in Sites, n \in Nodes : \E p \in Nat : \A g \in Gateways : Heard(g, s, n, p)

IInv == Typed /\ InHand /\ Lapsed /\ OneLastBan

-----------------------------------------------------------------------------
\* The start, and what single updates do

LEMMA Times == {0, Cooldown, Soft, Deep, OperatorTtl} \subseteq Nat /\ Cooldown > 0 /\ Soft > 0 /\ Deep > 0
BY BanTimes, OperatorTime

LEMMA NoBansType == NoBans \in Rows /\ \A d \in Domains, n \in Nodes : NoBans[d][n] = Free
BY DEF NoBans, Rows, Free

LEMMA InitIInv == Init => IInv
<1>. SUFFICES ASSUME Init PROVE IInv
  OBVIOUS
<1>1. Typed
  <2>1. [w \in Workers |-> "run"] \in [Workers -> {"off", "run", "wait", "over"}]
    OBVIOUS
  <2>. QED
    BY <2>1, NoBansType, EmptySeq DEF Init, Typed
<1>2. InHand
  BY DEF Init, InHand
<1>3. \A g \in Gateways, d \in Domains, n \in Nodes : table[g][d][n] = Free
  BY NoBansType DEF Init
<1>4. Lapsed
  BY <1>3 DEF Lapsed, Free
<1>5. \A g \in Gateways, s \in Sites, n \in Nodes : Heard(g, s, n, 0)
  BY <1>3 DEF Init, Heard, Free, Domains
<1>. QED
  BY <1>1, <1>2, <1>4, <1>5 DEF IInv, OneLastBan

\* One entry of one table is written.
Writes(g, d, n, entry) == table' = [table EXCEPT ![g][d][n] = entry]

LEMMA WriteTable ==
  ASSUME Typed, Lapsed, NEW h \in Gateways, NEW d \in Domains, NEW m \in Nodes,
         NEW entry \in [left : Nat, of : Nat], entry.of = 0 => entry.left = 0,
         Writes(h, d, m, entry)
  PROVE  /\ table' \in [Gateways -> Rows]
         /\ \A g \in Gateways, e \in Domains, n \in Nodes :
              table'[g][e][n] = IF g = h /\ e = d /\ n = m THEN entry ELSE table[g][e][n]
         /\ Lapsed'
<1>1. table' \in [Gateways -> Rows]
  BY DEF Typed, Rows, Writes
<1>2. table'[h][d][m] = entry
  BY DEF Typed, Rows, Writes
<1>3. \A g \in Gateways, e \in Domains, n \in Nodes :
        ~(g = h /\ e = d /\ n = m) => table'[g][e][n] = table[g][e][n]
  BY DEF Typed, Rows, Writes
<1>4. Lapsed'
  BY <1>2, <1>3 DEF Lapsed
<1>. QED
  BY <1>1, <1>2, <1>3, <1>4

LEMMA SetTable ==
  ASSUME Typed, Lapsed, NEW h \in Gateways, NEW d \in Domains, NEW m \in Nodes, NEW ttl \in Nat,
         Set(h, d, m, ttl)
  PROVE  /\ table' \in [Gateways -> Rows]
         /\ \A g \in Gateways, e \in Domains, n \in Nodes :
              table'[g][e][n] = IF g = h /\ e = d /\ n = m THEN Entry(ttl) ELSE table[g][e][n]
         /\ Lapsed'
<1>1. Entry(ttl) \in [left : Nat, of : Nat] /\ Entry(ttl).left = Entry(ttl).of
  BY DEF Entry
<1>2. Writes(h, d, m, Entry(ttl))
  BY DEF Set, Writes
<1>. QED
  BY <1>1, <1>2, WriteTable

LEMMA HeadType ==
  ASSUME NEW seq \in Seq(Bans), seq # <<>>
  PROVE  /\ Head(seq) \in Bans /\ Tail(seq) \in Seq(Bans)
         /\ Head(seq).site \in Sites /\ Head(seq).site \in Domains
         /\ Head(seq).node \in Nodes /\ Head(seq).ttl \in Nat
<1>1. Head(seq) \in Bans /\ Tail(seq) \in Seq(Bans)
  BY HeadTailProperties
<1>. QED
  BY <1>1, Times DEF Bans, Domains

\* A gateway that loses no delta, and whose entries at most expire.
LEMMA HeardKept ==
  ASSUME NEW g \in Gateways, NEW s \in Sites, NEW n \in Nodes, NEW p \in Nat, Heard(g, s, n, p),
         inbox'[g] = inbox[g],
         table'[g][s][n].of \in {0, table[g][s][n].of},
         AtOdds(g, s, n) => AtOdds(g, s, n)'
  PROVE  Heard(g, s, n, p)'
BY DEF Heard, Silent, LastWord, Concerns

\* The same for all of them.
LEMMA AgreementKept ==
  ASSUME IInv, lost' = lost, inbox' = inbox,
         \A g \in Gateways, s \in Sites, n \in Nodes :
           /\ table'[g][s][n].of \in {0, table[g][s][n].of}
           /\ AtOdds(g, s, n) => AtOdds(g, s, n)'
  PROVE  OneLastBan'
<1>. SUFFICES ASSUME ~lost, NEW s \in Sites, NEW n \in Nodes
              PROVE  \E p \in Nat : \A g \in Gateways : Heard(g, s, n, p)'
  BY DEF OneLastBan
<1>1. PICK p \in Nat : \A g \in Gateways : Heard(g, s, n, p)
  BY DEF IInv, OneLastBan
<1>2. \A g \in Gateways : Heard(g, s, n, p)'
  BY <1>1, HeardKept
<1>. QED
  BY <1>2

-----------------------------------------------------------------------------
\* The breaker

LEMMA RespondStep == ASSUME IInv, NEW n \in Nodes, NEW s \in Sites, Respond(n, s) PROVE IInv'
<1>1. \A status \in DOMAIN BanTtl : BanTtl[status] \in {Cooldown, Soft, Deep}
  BY DEF BanTtl
<1>2. PICK status \in DOMAIN BanTtl :
        stream' = Append(stream, [site |-> s, node |-> n, ttl |-> BanTtl[status]])
  BY DEF Respond
<1>3. stream' \in Seq(Bans)
  BY <1>1, <1>2 DEF IInv, Typed, Bans
<1>4. UNCHANGED <<table, hand, pc, inbox, worker, lost>>
  BY DEF Respond, workers
<1>5. OneLastBan'
  BY <1>4, AgreementKept DEF AtOdds
<1>. QED
  BY <1>3, <1>4, <1>5 DEF IInv, Typed, InHand, Lapsed

LEMMA TakeStep == ASSUME IInv, NEW g \in Gateways, Take(g) PROVE IInv'
<1>1. PICK k \in 1..Len(stream) :
        /\ hand' = [hand EXCEPT ![g] = SubSeq(stream, 1, k)]
        /\ stream' = SubSeq(stream, k + 1, Len(stream))
  BY DEF Take
<1>2. SubSeq(stream, 1, k) \in Seq(Bans) /\ SubSeq(stream, k + 1, Len(stream)) \in Seq(Bans)
  BY <1>1, SubSeqProperties DEF IInv, Typed
<1>3. UNCHANGED <<table, pc, inbox, worker, lost>> /\ hand[g] = <<>>
  BY DEF Take, workers
<1>4. pc[g] = "apply"
  BY <1>3 DEF IInv, InHand
<1>5. OneLastBan'
  <2>1. \A h \in Gateways, s \in Sites, n \in Nodes : AtOdds(h, s, n) => AtOdds(h, s, n)'
    BY <1>1, <1>3, <1>4 DEF AtOdds, IInv, Typed
  <2>. QED
    BY <1>3, <2>1, AgreementKept
<1>6. Typed'
  BY <1>1, <1>2, <1>3 DEF IInv, Typed
<1>7. InHand'
  BY <1>1, <1>3, <1>4 DEF IInv, Typed, InHand
<1>. QED
  BY <1>3, <1>5, <1>6, <1>7 DEF IInv, Lapsed

LEMMA ApplyStep == ASSUME IInv, NEW g \in Gateways, Apply(g) PROVE IInv'
<1>. DEFINE ban == Head(hand[g])
<1>1. /\ pc[g] = "apply" /\ hand[g] # <<>> /\ pc' = [pc EXCEPT ![g] = "persist"]
      /\ Set(g, ban.site, ban.node, ban.ttl)
      /\ UNCHANGED <<stream, hand, inbox, worker, lost>>
  BY DEF Apply, workers
<1>2. ban \in Bans /\ ban.site \in Sites /\ ban.site \in Domains /\ ban.node \in Nodes /\ ban.ttl \in Nat
  BY <1>1, HeadType DEF IInv, Typed
<1>. HIDE DEF ban
<1>3. /\ table' \in [Gateways -> Rows]
      /\ \A h \in Gateways, e \in Domains, n \in Nodes :
           ~(h = g /\ e = ban.site /\ n = ban.node) => table'[h][e][n] = table[h][e][n]
      /\ Lapsed'
  BY <1>1, <1>2, SetTable DEF IInv
<1>4. Typed' /\ InHand'
  BY <1>1, <1>3 DEF IInv, Typed, InHand
<1>5. OneLastBan'
  <2>. SUFFICES ASSUME ~lost, NEW s \in Sites, NEW n \in Nodes
                PROVE  \E p \in Nat : \A h \in Gateways : Heard(h, s, n, p)'
    BY <1>1 DEF OneLastBan
  <2>1. PICK p \in Nat : \A h \in Gateways : Heard(h, s, n, p)
    BY DEF IInv, OneLastBan
  <2>2. ASSUME NEW h \in Gateways PROVE Heard(h, s, n, p)'
    <3>1. AtOdds(h, s, n) => AtOdds(h, s, n)'
      BY <1>1 DEF AtOdds, IInv, Typed
    <3>2. CASE h = g /\ Concerns(ban, s, n)
      <4>1. AtOdds(h, s, n)'
        BY <1>1, <3>2 DEF AtOdds, IInv, Typed, ban
      <4>. QED
        BY <1>1, <2>1, <4>1 DEF Heard, Silent, LastWord
    <3>3. CASE ~(h = g /\ Concerns(ban, s, n))
      <4>1. table'[h][s][n] = table[h][s][n]
        BY <1>3, <3>3 DEF Concerns, Domains
      <4>. QED
        BY <1>1, <2>1, <3>1, <4>1, HeardKept
    <3>. QED
      BY <3>2, <3>3
  <2>. QED
    BY <2>2
<1>. QED
  BY <1>3, <1>4, <1>5 DEF IInv

LEMMA PersistStep == ASSUME IInv, NEW g \in Gateways, Persist(g) PROVE IInv'
<1>1. /\ pc[g] = "persist" /\ pc' = [pc EXCEPT ![g] = "publish"]
      /\ UNCHANGED <<table, stream, hand, inbox, worker, lost>>
  BY DEF Persist, workers
<1>2. OneLastBan'
  <2>1. \A h \in Gateways, s \in Sites, n \in Nodes : AtOdds(h, s, n) => AtOdds(h, s, n)'
    BY <1>1 DEF AtOdds, IInv, Typed
  <2>. QED
    BY <1>1, <2>1, AgreementKept
<1>. QED
  BY <1>1, <1>2 DEF IInv, Typed, InHand, Lapsed

\* At the end of an inbox a ban has the last word.
LEMMA HeardPublished ==
  ASSUME NEW g \in Gateways, NEW s \in Sites, NEW n \in Nodes, NEW p \in Nat, Heard(g, s, n, p),
         NEW ban \in Bans, inbox[g] \in Seq(Bans), inbox'[g] = Append(inbox[g], ban),
         table' = table,
         AtOdds(g, s, n) => AtOdds(g, s, n)' \/ Concerns(ban, s, n)
  PROVE  Heard(g, s, n, IF Concerns(ban, s, n) THEN ban.ttl ELSE p)'
<1>1. /\ Len(inbox'[g]) = Len(inbox[g]) + 1 /\ Len(inbox[g]) \in Nat
      /\ inbox'[g][Len(inbox[g]) + 1] = ban
      /\ \A i \in 1..Len(inbox[g]) : inbox'[g][i] = inbox[g][i]
  BY AppendProperties, LenProperties
<1>2. CASE Concerns(ban, s, n)
  <2>1. \A i \in 1..Len(inbox'[g]) : LastWord(g, s, n, i)' => i = Len(inbox[g]) + 1
    BY <1>1, <1>2 DEF LastWord
  <2>2. ~Silent(g, s, n)'
    BY <1>1, <1>2 DEF Silent
  <2>. QED
    BY <1>1, <1>2, <2>1, <2>2 DEF Heard
<1>3. CASE ~Concerns(ban, s, n)
  <2>1. \A i \in 1..Len(inbox'[g]) :
          LastWord(g, s, n, i)' => i \in 1..Len(inbox[g]) /\ LastWord(g, s, n, i)
    BY <1>1, <1>3 DEF LastWord
  <2>2. Silent(g, s, n)' => Silent(g, s, n)
    BY <1>1 DEF Silent
  <2>. QED
    BY <1>1, <1>3, <2>1, <2>2 DEF Heard
<1>. QED
  BY <1>2, <1>3

LEMMA PublishStep == ASSUME IInv, NEW g \in Gateways, Publish(g) PROVE IInv'
<1>1. /\ pc[g] = "publish" /\ hand[g] # <<>>
      /\ pc' = [pc EXCEPT ![g] = "apply"] /\ hand' = [hand EXCEPT ![g] = Tail(hand[g])]
      /\ UNCHANGED <<table, stream, worker>>
  BY DEF Publish, workers, IInv, InHand
<1>2. Tail(hand[g]) \in Seq(Bans) /\ Head(hand[g]) \in Bans /\ Head(hand[g]).ttl \in Nat
  BY <1>1, HeadType DEF IInv, Typed
<1>. PICK ban \in Bans : ban = Head(hand[g])
  BY <1>2
<1>3. \/ /\ inbox' = [h \in Gateways |-> IF h \in Receivers(g) THEN Append(inbox[h], ban) ELSE inbox[h]]
         /\ lost' = (lost \/ \E h \in Gateways : ~Subscribed(h))
      \/ lost' = TRUE /\ UNCHANGED inbox
  BY DEF Publish
<1>4. inbox' \in [Gateways -> Seq(Bans)] /\ lost' \in BOOLEAN
  <2>1. \A h \in Gateways : inbox[h] \in Seq(Bans) /\ Append(inbox[h], ban) \in Seq(Bans)
    BY AppendProperties DEF IInv, Typed
  <2>. QED
    BY <1>3, <2>1 DEF IInv, Typed
<1>5. Typed' /\ InHand' /\ Lapsed'
  BY <1>1, <1>2, <1>4 DEF IInv, Typed, InHand, Lapsed
<1>6. OneLastBan'
  <2>. SUFFICES ASSUME ~lost', NEW s \in Sites, NEW n \in Nodes
                PROVE  \E p \in Nat : \A h \in Gateways : Heard(h, s, n, p)'
    BY DEF OneLastBan
  <2>1. ~lost /\ \A h \in Gateways : h \in Receivers(g)
    BY <1>3 DEF Receivers
  <2>2. PICK p \in Nat : \A h \in Gateways : Heard(h, s, n, p)
    BY <2>1 DEF IInv, OneLastBan
  <2>. DEFINE q == IF Concerns(ban, s, n) THEN ban.ttl ELSE p
  <2>3. q \in Nat
    BY <1>2
  <2>4. ASSUME NEW h \in Gateways PROVE Heard(h, s, n, q)'
    <3>1. inbox[h] \in Seq(Bans) /\ inbox'[h] = Append(inbox[h], ban)
      BY <1>3, <2>1 DEF IInv, Typed
    <3>2. AtOdds(h, s, n) => AtOdds(h, s, n)' \/ Concerns(ban, s, n)
      BY <1>1 DEF AtOdds, IInv, Typed
    <3>. QED
      BY <1>1, <2>2, <3>1, <3>2, HeardPublished
  <2>. QED
    BY <2>3, <2>4
<1>. QED
  BY <1>5, <1>6 DEF IInv

-----------------------------------------------------------------------------
\* The subscriber

LEMMA DeliverStep == ASSUME IInv, NEW g \in Gateways, Deliver(g) PROVE IInv'
<1>. DEFINE ban == Head(inbox[g])
<1>1. /\ inbox[g] # <<>> /\ inbox' = [inbox EXCEPT ![g] = Tail(inbox[g])]
      /\ Set(g, ban.site, ban.node, ban.ttl)
      /\ UNCHANGED <<stream, hand, pc, worker, lost>>
  BY DEF Deliver, workers
<1>2. /\ ban.site \in Domains /\ ban.node \in Nodes /\ ban.ttl \in Nat
      /\ Tail(inbox[g]) \in Seq(Bans) /\ inbox[g] \in Seq(Bans)
  BY <1>1, HeadType DEF IInv, Typed
<1>3. /\ Len(inbox[g]) \in Nat /\ Len(inbox'[g]) = Len(inbox[g]) - 1 /\ Len(inbox[g]) > 0
      /\ \A i \in 1..Len(inbox'[g]) : inbox'[g][i] = inbox[g][i + 1]
      /\ inbox[g][1] = ban
  BY <1>1, <1>2, HeadTailProperties, LenProperties, EmptySeq DEF IInv, Typed
<1>. HIDE DEF ban
<1>4. /\ table' \in [Gateways -> Rows]
      /\ table'[g][ban.site][ban.node] = Entry(ban.ttl)
      /\ \A h \in Gateways, e \in Domains, n \in Nodes :
           ~(h = g /\ e = ban.site /\ n = ban.node) => table'[h][e][n] = table[h][e][n]
      /\ Lapsed'
  BY <1>1, <1>2, SetTable DEF IInv
<1>5. Typed' /\ InHand'
  BY <1>1, <1>2, <1>4 DEF IInv, Typed, InHand
<1>6. OneLastBan'
  <2>. SUFFICES ASSUME ~lost, NEW s \in Sites, NEW n \in Nodes
                PROVE  \E p \in Nat : \A h \in Gateways : Heard(h, s, n, p)'
    BY <1>1 DEF OneLastBan
  <2>1. PICK p \in Nat : \A h \in Gateways : Heard(h, s, n, p)
    BY DEF IInv, OneLastBan
  <2>2. \A h \in Gateways : AtOdds(h, s, n)' <=> AtOdds(h, s, n)
    BY <1>1 DEF AtOdds
  <2>3. ASSUME NEW h \in Gateways, h # g PROVE Heard(h, s, n, p)'
    <3>1. inbox'[h] = inbox[h] /\ table'[h][s][n] = table[h][s][n]
      BY <1>1, <1>4, <2>3 DEF IInv, Typed, Domains
    <3>. QED
      BY <2>1, <2>2, <2>3, <3>1, HeardKept
  <2>4. Heard(g, s, n, p)'
    <3>1. ASSUME NEW i \in 1..Len(inbox'[g]), LastWord(g, s, n, i)' PROVE inbox'[g][i].ttl = p
      <4>1. i + 1 \in 1..Len(inbox[g]) /\ inbox'[g][i] = inbox[g][i + 1]
        BY <1>3
      <4>2. ASSUME NEW j \in 1..Len(inbox[g]), j > i + 1 PROVE ~Concerns(inbox[g][j], s, n)
        <5>1. j - 1 \in 1..Len(inbox'[g]) /\ j - 1 > i /\ inbox'[g][j - 1] = inbox[g][j]
          BY <1>3, <4>2
        <5>. QED
          BY <3>1, <5>1 DEF LastWord
      <4>3. LastWord(g, s, n, i + 1)
        BY <3>1, <4>1, <4>2 DEF LastWord
      <4>. QED
        BY <2>1, <4>1, <4>3 DEF Heard
    <3>2. ASSUME Silent(g, s, n)' PROVE table'[g][s][n].of \in {0, p} \/ AtOdds(g, s, n)'
      <4>1. ASSUME NEW j \in 1..Len(inbox[g]), j > 1 PROVE ~Concerns(inbox[g][j], s, n)
        <5>1. j - 1 \in 1..Len(inbox'[g]) /\ inbox'[g][j - 1] = inbox[g][j]
          BY <1>3, <4>1
        <5>. QED
          BY <3>2, <5>1 DEF Silent
      <4>2. 1 \in 1..Len(inbox[g])
        BY <1>3
      <4>3. CASE Concerns(ban, s, n)
        <5>1. LastWord(g, s, n, 1)
          BY <1>3, <4>1, <4>3 DEF LastWord
        <5>2. ban.ttl = p
          BY <1>3, <2>1, <4>2, <5>1 DEF Heard
        <5>. QED
          BY <1>4, <4>3, <5>2 DEF Concerns, Entry
      <4>4. CASE ~Concerns(ban, s, n)
        <5>1. Silent(g, s, n)
          <6>1. ASSUME NEW j \in 1..Len(inbox[g]) PROVE ~Concerns(inbox[g][j], s, n)
            <7>1. j = 1 \/ j > 1
              OBVIOUS
            <7>. QED
              BY <1>3, <4>1, <4>4, <7>1
          <6>. QED
            BY <6>1 DEF Silent
        <5>2. table'[g][s][n] = table[g][s][n]
          BY <1>4, <4>4 DEF Concerns, Domains
        <5>. QED
          BY <2>1, <2>2, <5>1, <5>2 DEF Heard
      <4>. QED
        BY <4>3, <4>4
    <3>. QED
      BY <3>1, <3>2 DEF Heard
  <2>. QED
    BY <2>3, <2>4
<1>. QED
  BY <1>4, <1>5, <1>6 DEF IInv

-----------------------------------------------------------------------------
\* Workers, operators, time

LEMMA RunEndsStep == ASSUME IInv, NEW g \in Gateways, NEW w \in Workers, RunEnds(g, w) PROVE IInv'
<1>1. /\ worker' = [worker EXCEPT ![g][w] = "wait"]
      /\ UNCHANGED <<table, stream>>
  BY DEF RunEnds
<1>2. CASE w = "sync"
  <2>1. /\ inbox' = [inbox EXCEPT ![g] = <<>>] /\ lost' = (lost \/ inbox[g] # <<>>)
        /\ UNCHANGED <<hand, pc>>
    BY <1>2 DEF RunEnds
  <2>2. Typed' /\ InHand' /\ Lapsed'
    BY <1>1, <2>1, EmptySeq DEF IInv, Typed, InHand, Lapsed
  <2>3. ASSUME ~lost' PROVE OneLastBan'
    <3>1. inbox' = inbox /\ lost' = lost
      BY <2>1, <2>3 DEF IInv, Typed
    <3>. QED
      BY <1>1, <2>1, <3>1, AgreementKept DEF AtOdds
  <2>. QED
    BY <2>2, <2>3 DEF IInv, OneLastBan
<1>3. CASE w # "sync"
  <2>1. /\ hand' = [hand EXCEPT ![g] = <<>>] /\ pc' = [pc EXCEPT ![g] = "apply"]
        /\ lost' = (lost \/ pc[g] # "apply") /\ UNCHANGED inbox
    BY <1>3 DEF RunEnds, Forgotten
  <2>2. Typed' /\ InHand' /\ Lapsed'
    BY <1>1, <2>1, EmptySeq DEF IInv, Typed, InHand, Lapsed
  <2>3. ASSUME ~lost' PROVE OneLastBan'
    <3>1. pc[g] = "apply" /\ lost' = lost
      BY <2>1, <2>3 DEF IInv, Typed
    <3>2. \A h \in Gateways, s \in Sites, n \in Nodes : AtOdds(h, s, n) => AtOdds(h, s, n)'
      BY <2>1, <3>1 DEF AtOdds, IInv, Typed
    <3>. QED
      BY <1>1, <2>1, <3>1, <3>2, AgreementKept
  <2>. QED
    BY <2>2, <2>3 DEF IInv, OneLastBan
<1>. QED
  BY <1>2, <1>3

\* What a restarted gateway has not heard it has no entry to contradict.
LEMMA RestartStep == ASSUME IInv, NEW g \in Gateways, Restart(g) PROVE IInv'
<1>1. /\ table' = [table EXCEPT ![g] = NoBans]
      /\ hand' = [hand EXCEPT ![g] = <<>>] /\ pc' = [pc EXCEPT ![g] = "apply"]
      /\ inbox' = [inbox EXCEPT ![g] = <<>>]
      /\ \E redis \in {"run", "off"} : worker' = [worker EXCEPT ![g] = [w \in Workers |-> redis]]
      /\ UNCHANGED <<stream, lost>>
  BY DEF Restart, Forgotten
<1>2. Typed'
  BY <1>1, NoBansType, EmptySeq DEF IInv, Typed
<1>3. InHand'
  BY <1>1 DEF IInv, Typed, InHand
<1>4. \A h \in Gateways, d \in Domains, n \in Nodes :
        table'[h][d][n] = IF h = g THEN Free ELSE table[h][d][n]
  BY <1>1, NoBansType DEF IInv, Typed
<1>5. Lapsed'
  BY <1>4 DEF IInv, Lapsed, Free
<1>6. OneLastBan'
  <2>. SUFFICES ASSUME ~lost, NEW s \in Sites, NEW n \in Nodes
                PROVE  \E p \in Nat : \A h \in Gateways : Heard(h, s, n, p)'
    BY <1>1 DEF OneLastBan
  <2>1. PICK p \in Nat : \A h \in Gateways : Heard(h, s, n, p)
    BY DEF IInv, OneLastBan
  <2>2. Heard(g, s, n, p)'
    <3>1. Len(inbox'[g]) = 0 /\ table'[g][s][n].of = 0
      BY <1>1, <1>4, EmptySeq DEF IInv, Typed, Free, Domains
    <3>. QED
      BY <3>1 DEF Heard
  <2>3. ASSUME NEW h \in Gateways, h # g PROVE Heard(h, s, n, p)'
    <3>1. inbox'[h] = inbox[h] /\ table'[h][s][n] = table[h][s][n]
      BY <1>1, <1>4, <2>3 DEF IInv, Typed, Domains
    <3>2. AtOdds(h, s, n)' <=> AtOdds(h, s, n)
      BY <1>1, <2>3 DEF AtOdds, IInv, Typed
    <3>. QED
      BY <2>1, <2>3, <3>1, <3>2, HeardKept
  <2>. QED
    BY <2>2, <2>3
<1>. QED
  BY <1>2, <1>3, <1>5, <1>6 DEF IInv

LEMMA SupervisorStep ==
  ASSUME IInv, NEW g \in Gateways, Supervisor(g) \/ Signal(g) PROVE IInv'
<1>1. worker' \in [Gateways -> [Workers -> {"off", "run", "wait", "over"}]]
  <2>1. CASE Signal(g)
    BY <2>1 DEF Signal, IInv, Typed
  <2>2. ASSUME NEW w \in Workers, Wake(g, w)
        PROVE  worker' \in [Gateways -> [Workers -> {"off", "run", "wait", "over"}]]
    <3>1. PICK to \in {"over", "run"} : worker' = [worker EXCEPT ![g][w] = to]
      BY <2>2 DEF Wake
    <3>. QED
      BY <3>1 DEF IInv, Typed
  <2>. QED
    BY <2>1, <2>2 DEF Supervisor
<1>2. UNCHANGED <<table, stream, hand, pc, inbox, lost>>
  BY DEF Supervisor, Wake, Signal
<1>3. OneLastBan'
  BY <1>2, AgreementKept DEF AtOdds
<1>. QED
  BY <1>1, <1>2, <1>3 DEF IInv, Typed, InHand, Lapsed

\* The operator's entries are filed under countries, and no site is one.
LEMMA OperatorStep == ASSUME IInv, NEW g \in Gateways, Operator(g) PROVE IInv'
<1>1. PICK m \in Nodes : OperatorBan(g, m) \/ OperatorLift(g, m)
  BY DEF Operator
<1>2. CountryOf[m] \in Domains /\ CountryOf[m] \notin Sites
  BY NoSiteIsACountry DEF Domains, Countries
<1>3. UNCHANGED <<stream, hand, pc, inbox, worker, lost>>
  BY <1>1 DEF OperatorBan, OperatorLift, workers
<1>4. /\ table' \in [Gateways -> Rows]
      /\ \A h \in Gateways, e \in Domains \ {CountryOf[m]}, n \in Nodes : table'[h][e][n] = table[h][e][n]
      /\ Lapsed'
  <2>1. CASE OperatorBan(g, m)
    <3>1. Set(g, CountryOf[m], m, OperatorTtl)
      BY <2>1 DEF OperatorBan
    <3>. QED
      BY <1>2, <3>1, Times, SetTable DEF IInv
  <2>2. CASE OperatorLift(g, m)
    <3>1. Writes(g, CountryOf[m], m, Free)
      BY <2>2 DEF OperatorLift, Writes
    <3>2. Free \in [left : Nat, of : Nat] /\ Free.left = 0
      BY DEF Free
    <3>. QED
      BY <1>2, <3>1, <3>2, WriteTable DEF IInv
  <2>. QED
    BY <1>1, <2>1, <2>2
<1>5. OneLastBan'
  BY <1>2, <1>3, <1>4, AgreementKept DEF AtOdds, Domains
<1>. QED
  BY <1>3, <1>4, <1>5 DEF IInv, Typed, InHand

LEMMA TickStep == ASSUME IInv, Tick PROVE IInv'
<1>1. UNCHANGED <<stream, hand, pc, inbox, worker, lost>>
  BY DEF Tick, workers
<1>2. /\ table' = [g \in Gateways |-> [d \in Domains |-> [n \in Nodes |-> Older(table[g][d][n])]]]
  BY DEF Tick
<1>3. ASSUME NEW e \in [left : Nat, of : Nat]
      PROVE  /\ Older(e) \in [left : Nat, of : Nat] /\ Older(e).of \in {0, e.of}
             /\ (e.of = 0 => e.left = 0) => (Older(e).of = 0 => Older(e).left = 0)
  BY DEF Older, Free
<1>4. \A g \in Gateways, d \in Domains, n \in Nodes :
        table[g][d][n] \in [left : Nat, of : Nat] /\ table'[g][d][n] = Older(table[g][d][n])
  BY <1>2 DEF IInv, Typed, Rows
<1>5. Typed'
  BY <1>1, <1>2, <1>3, <1>4 DEF IInv, Typed, Rows
<1>6. Lapsed'
  BY <1>3, <1>4 DEF IInv, Lapsed
<1>7. OneLastBan'
  <2>1. \A g \in Gateways, s \in Sites, n \in Nodes : table'[g][s][n].of \in {0, table[g][s][n].of}
    BY <1>3, <1>4 DEF Domains
  <2>. QED
    BY <1>1, <2>1, AgreementKept DEF AtOdds
<1>. QED
  BY <1>1, <1>5, <1>6, <1>7 DEF IInv, InHand

LEMMA StepIInv == IInv /\ [Next]_vars => IInv'
<1>. SUFFICES ASSUME IInv, [Next]_vars PROVE IInv'
  OBVIOUS
<1>1. CASE \E n \in Nodes, s \in Sites : Respond(n, s)
  BY <1>1, RespondStep
<1>2. CASE \E g \in Gateways : Process(g) \/ Restart(g)
  BY <1>2, TakeStep, ApplyStep, PersistStep, PublishStep, DeliverStep, SupervisorStep, RestartStep
     DEF Process, Breaker
<1>3. CASE \E g \in Gateways, w \in Workers : RunEnds(g, w)
  BY <1>3, RunEndsStep
<1>4. CASE \E g \in Attended : Operator(g) \/ Signal(g)
  BY <1>4, OperatorTime, OperatorStep, SupervisorStep
<1>5. CASE Tick
  BY <1>5, TickStep
<1>6. CASE UNCHANGED vars
  BY <1>6 DEF vars, workers, IInv, Typed, InHand, Lapsed, OneLastBan, Heard, Silent, LastWord, AtOdds
<1>. QED
  BY <1>1, <1>2, <1>3, <1>4, <1>5, <1>6 DEF Next

LEMMA FanoutInvariant == Spec => []IInv
<1>. QED
  BY InitIInv, StepIInv, PTL DEF Spec

-----------------------------------------------------------------------------
\* Theorems

\* Once all deltas have arrived and none was lost, the gateways agree which ban of
\* a node for a site is in force: apply_delta of the publisher's own delta puts
\* the bans of all tables into the order of the channel.
THEOREM AllTablesAgree == Spec => []TablesAgree
<1>1. IInv => TablesAgree
  <2>. SUFFICES ASSUME IInv, ~lost, Settled,
                       NEW g \in Gateways, NEW h \in Gateways, NEW s \in Sites, NEW n \in Nodes,
                       ~Available(g, s, n), ~Available(h, s, n)
                PROVE  table[g][s][n].of = table[h][s][n].of
    BY DEF TablesAgree
  <2>1. PICK p \in Nat : Heard(g, s, n, p) /\ Heard(h, s, n, p)
    BY DEF IInv, OneLastBan
  <2>2. ASSUME NEW f \in Gateways, ~Available(f, s, n), Heard(f, s, n, p)
        PROVE  table[f][s][n].of = p
    <3>1. Silent(f, s, n) /\ ~AtOdds(f, s, n)
      BY EmptySeq DEF Settled, Silent, AtOdds
    <3>2. table[f][s][n].of # 0
      BY <2>2 DEF IInv, Lapsed, Available, Domains
    <3>. QED
      BY <2>2, <3>1, <3>2 DEF Heard
  <2>. QED
    BY <2>1, <2>2
<1>. QED
  BY <1>1, FanoutInvariant, PTL

\* The signal only ever comes, until the process is restarted.
Stops == stop \in [Gateways -> BOOLEAN]

LEMMA StopsStep == Stops /\ [Next]_vars => Stops'
<1>. SUFFICES ASSUME Stops, [Next]_vars PROVE Stops'
  OBVIOUS
<1>1. CASE \E g \in Gateways : Signal(g)
  BY <1>1 DEF Signal, Stops
<1>2. CASE \E g \in Gateways : Restart(g)
  BY <1>2 DEF Restart, Stops
<1>3. CASE UNCHANGED stop
  BY <1>3 DEF Stops
<1>. QED
  BY <1>1, <1>2, <1>3, OperatorTime
     DEF Next, Respond, Process, Breaker, Take, Apply, Persist, Publish, Deliver, Supervisor, Wake,
         RunEnds, Operator, OperatorBan, OperatorLift, Tick, vars, workers

\* Once the signal watcher has broadcast the stop, supervise_until starts no worker
\* of that process again: one that waits out its backoff ends.
THEOREM NoWorkerRevived == Spec => NoneRevived
<1>1. Init => Stops
  BY DEF Init, Stops
<1>2. ASSUME IInv, Stops, Stops', [Next]_vars
      PROVE  \A g \in Gateways, w \in Workers :
               stop[g] /\ stop'[g] /\ ~Runs(g, w) => worker'[g][w] # "run"
  <2>1. CASE UNCHANGED worker
    BY <2>1 DEF Runs
  <2>2. CASE \E h \in Gateways, v \in Workers : RunEnds(h, v)
    BY <1>2, <2>2 DEF RunEnds, Runs, IInv, Typed
  <2>3. CASE \E h \in Gateways : Restart(h)
    <3>1. PICK h \in Gateways : Restart(h)
      BY <2>3
    <3>2. /\ \A g \in Gateways : g # h => worker'[g] = worker[g]
          /\ ~stop'[h]
      BY <1>2, <3>1 DEF Restart, IInv, Typed, Stops
    <3>. QED
      BY <3>2 DEF Runs
  <2>4. CASE \E h \in Gateways, v \in Workers : Wake(h, v)
    <3>1. PICK h \in Gateways, v \in Workers : Wake(h, v)
      BY <2>4
    <3>2. /\ worker'[h][v] = IF stop[h] THEN "over" ELSE "run"
          /\ \A g \in Gateways, w \in Workers : ~(g = h /\ w = v) => worker'[g][w] = worker[g][w]
      BY <1>2, <3>1 DEF Wake, IInv, Typed
    <3>. QED
      BY <3>2 DEF Runs
  <2>. QED
    BY <1>2, <2>1, <2>2, <2>3, <2>4
       DEF Next, Respond, Process, Breaker, Take, Apply, Persist, Publish, Deliver, Supervisor,
           Signal, Operator, OperatorBan, OperatorLift, Tick, vars, workers
<1>. QED
  BY <1>1, <1>2, FanoutInvariant, StopsStep, PTL DEF Spec, NoneRevived
-----------------------------------------------------------------------------
\* Counting the bans in hand

\* Shares of some sizes, as in Unapplied.
Dealt(sizes) == UNION {{g} \X (1..sizes[g]) : g \in Gateways}
DealtToOthers(sizes, g) == UNION {{h} \X (1..sizes[h]) : h \in Gateways \ {g}}

\* There are as many as the others have and g has.
LEMMA Shares ==
  ASSUME NEW sizes \in [Gateways -> Nat], NEW g \in Gateways
  PROVE  /\ Cardinality(DealtToOthers(sizes, g)) \in Nat
         /\ Cardinality(Dealt(sizes)) = Cardinality(DealtToOthers(sizes, g)) + sizes[g]
<1>1. \A h \in Gateways :
        IsFiniteSet({h} \X (1..sizes[h])) /\ Cardinality({h} \X (1..sizes[h])) = sizes[h]
  <2>. SUFFICES ASSUME NEW h \in Gateways
                PROVE  IsFiniteSet({h} \X (1..sizes[h])) /\ Cardinality({h} \X (1..sizes[h])) = sizes[h]
    OBVIOUS
  <2>1. IsFiniteSet({h}) /\ Cardinality({h}) = 1
    BY FS_Singleton
  <2>2. IsFiniteSet(1..sizes[h]) /\ Cardinality(1..sizes[h]) = sizes[h]
    BY FS_Interval
  <2>. QED
    BY <2>1, <2>2, FS_Product
<1>2. IsFiniteSet(DealtToOthers(sizes, g))
  <2>. DEFINE family == {{h} \X (1..sizes[h]) : h \in Gateways \ {g}}
  <2>1. IsFiniteSet(family)
    <3>1. IsFiniteSet(Gateways \ {g})
      BY GatewaysFinite, FS_Subset
    <3>2. [h \in Gateways \ {g} |-> {h} \X (1..sizes[h])] \in Surjection(Gateways \ {g}, family)
      BY DEF Surjection
    <3>. QED
      BY <3>1, <3>2, FS_Surjection
  <2>2. \A S \in family : IsFiniteSet(S)
    BY <1>1
  <2>. QED
    BY <2>1, <2>2, FS_UNION DEF DealtToOthers
<1>3. /\ Dealt(sizes) = DealtToOthers(sizes, g) \cup ({g} \X (1..sizes[g]))
      /\ DealtToOthers(sizes, g) \cap ({g} \X (1..sizes[g])) = {}
  BY DEF Dealt, DealtToOthers
<1>4. Cardinality(DealtToOthers(sizes, g)) \in Nat
  BY <1>2, FS_CardinalityType
<1>5. Cardinality(Dealt(sizes)) = Cardinality(DealtToOthers(sizes, g)) + sizes[g] - Cardinality({})
  <2>1. PICK others, own : others = DealtToOthers(sizes, g) /\ own = {g} \X (1..sizes[g])
    OBVIOUS
  <2>2. IsFiniteSet(others) /\ IsFiniteSet(own) /\ Cardinality(own) = sizes[g]
    BY <1>1, <1>2, <2>1
  <2>3. Cardinality(others \cup own) = Cardinality(others) + Cardinality(own) - Cardinality(others \cap own)
    BY <2>2, FS_Union
  <2>. QED
    BY <1>3, <2>1, <2>2, <2>3
<1>. QED
  BY <1>4, <1>5, FS_EmptySet

\* What one breaker has in hand changes.
LEMMA SharesMove ==
  ASSUME NEW old \in [Gateways -> Nat], NEW new \in [Gateways -> Nat], NEW g \in Gateways,
         \A h \in Gateways \ {g} : new[h] = old[h]
  PROVE  /\ Cardinality(Dealt(old)) \in Nat
         /\ Cardinality(Dealt(new)) = Cardinality(Dealt(old)) + new[g] - old[g]
<1>1. DealtToOthers(new, g) = DealtToOthers(old, g)
  BY DEF DealtToOthers
<1>. QED
  BY <1>1, Shares

Sizes == [g \in Gateways |-> Left(g)]

LEMMA UnappliedDealt == Unapplied = Dealt(Sizes) /\ Unapplied' = Dealt(Sizes')
BY DEF Unapplied, Dealt, Sizes

LEMMA SizesType == Typed /\ InHand => Sizes \in [Gateways -> Nat]
<1>. SUFFICES ASSUME Typed, InHand, NEW g \in Gateways PROVE Left(g) \in Nat
  BY DEF Sizes
<1>1. hand[g] \in Seq(Bans) /\ (pc[g] # "apply" => hand[g] # <<>>)
  BY DEF Typed, InHand
<1>2. Len(hand[g]) \in Nat /\ (hand[g] # <<>> => Len(hand[g]) > 0)
  BY <1>1, LenProperties, EmptySeq
<1>. QED
  BY <1>1, <1>2 DEF Left

Counts == bans \in Nat /\ applied \in Nat /\ missed \in Nat /\ EachEventOnce

\* The steps that move a ban or count one.
LEMMA CountsMove ==
  ASSUME Counts, Sizes \in [Gateways -> Nat], Sizes' \in [Gateways -> Nat],
         stream \in Seq(Bans), stream' \in Seq(Bans), NEW g \in Gateways,
         \A h \in Gateways \ {g} : Sizes'[h] = Sizes[h],
         bans' \in Nat, applied' \in Nat, missed' \in Nat,
         bans' + Len(stream) + Sizes[g] + applied + missed
           = bans + Len(stream') + Sizes'[g] + applied' + missed'
  PROVE  Counts'
<1>1. /\ Cardinality(Unapplied) \in Nat
      /\ Cardinality(Unapplied)' = Cardinality(Unapplied) + Sizes'[g] - Sizes[g]
  BY SharesMove, UnappliedDealt
<1>2. Len(stream) \in Nat /\ Len(stream') \in Nat
  BY LenProperties
<1>3. Sizes[g] \in Nat /\ Sizes'[g] \in Nat
  OBVIOUS
<1>4. bans = Len(stream) + Cardinality(Unapplied) + applied + missed
  BY DEF Counts, EachEventOnce
<1>5. PICK m \in Int, n \in Int : m = Cardinality(Unapplied) /\ n = Cardinality(Unapplied)'
  BY <1>1, <1>3
<1>6. PICK j \in Int, k \in Int : j = Sizes[g] /\ k = Sizes'[g]
  BY <1>3
<1>7. PICK v \in Int, w \in Int : v = Len(stream) /\ w = Len(stream')
  BY <1>2
<1>8. PICK b \in Int, a \in Int, d \in Int : b = bans /\ a = applied /\ d = missed
  BY DEF Counts
<1>9. PICK b1 \in Int, a1 \in Int, d1 \in Int : b1 = bans' /\ a1 = applied' /\ d1 = missed'
  OBVIOUS
<1>10. /\ n = m + k - j
       /\ b = v + m + a + d
       /\ b1 + v + j + a + d = b + w + k + a1 + d1
  BY <1>1, <1>4, <1>5, <1>6, <1>7, <1>8, <1>9
<1>11. b1 = w + n + a1 + d1
  BY <1>10
<1>12. bans' = Len(stream') + Cardinality(Unapplied)' + applied' + missed'
  BY <1>5, <1>7, <1>9, <1>11
<1>. QED
  BY <1>12 DEF Counts, EachEventOnce

LEMMA CountsStep ==
  ASSUME Typed, InHand, Sizes \in [Gateways -> Nat], Sizes' \in [Gateways -> Nat],
         stream' \in Seq(Bans), Counts, [Next]_vars
  PROVE  Counts'
<1>. stream \in Seq(Bans)
  BY DEF Typed
<1>1. ASSUME UNCHANGED <<stream, hand, pc, bans, counts>> PROVE Counts'
  BY <1>1 DEF Counts, EachEventOnce, Unapplied, Left, counts
<1>2. ASSUME NEW n \in Nodes, NEW s \in Sites, Respond(n, s) PROVE Counts'
  <2>1. PICK ban : stream' = Append(stream, ban)
    BY <1>2 DEF Respond
  <2>2. Len(stream') = Len(stream) + 1 /\ Len(stream) \in Nat
    BY <2>1, LenProperties
  <2>3. UNCHANGED <<hand, pc, applied, missed>> /\ bans' = bans + 1
    BY <1>2 DEF Respond, counts
  <2>4. Sizes' = Sizes
    BY <2>3 DEF Sizes, Left
  <2>5. PICK g \in Gateways : worker[g]["breaker"] # "off"
    BY <1>2 DEF Respond
  <2>6. Sizes[g] \in Nat
    OBVIOUS
  <2>. QED
    BY <2>2, <2>3, <2>4, <2>6, CountsMove DEF Counts
<1>3. ASSUME NEW g \in Gateways, Take(g) PROVE Counts'
  <2>1. PICK k \in 1..Len(stream) :
          /\ hand' = [hand EXCEPT ![g] = SubSeq(stream, 1, k)]
          /\ stream' = SubSeq(stream, k + 1, Len(stream))
    BY <1>3 DEF Take
  <2>2. /\ Len(stream) \in Nat /\ Len(SubSeq(stream, 1, k)) = k
        /\ Len(stream') = Len(stream) - k
    BY <2>1, SubSeqProperties, LenProperties
  <2>3. hand[g] = <<>> /\ pc[g] = "apply" /\ UNCHANGED <<pc, bans, applied, missed>>
    BY <1>3 DEF Take, InHand, counts
  <2>4. Sizes[g] = 0 /\ Sizes'[g] = k
    BY <2>1, <2>2, <2>3, EmptySeq DEF Sizes, Left, Typed
  <2>5. \A h \in Gateways \ {g} : Sizes'[h] = Sizes[h]
    BY <2>1, <2>3 DEF Sizes, Left, Typed
  <2>. QED
    BY <2>2, <2>3, <2>4, <2>5, CountsMove DEF Counts
<1>4. ASSUME NEW g \in Gateways, Apply(g) PROVE Counts'
  <2>1. /\ pc[g] = "apply" /\ pc' = [pc EXCEPT ![g] = "persist"] /\ hand' = hand
        /\ applied' = applied + 1 /\ UNCHANGED <<stream, bans, missed>>
    BY <1>4 DEF Apply
  <2>2. Len(hand[g]) \in Nat
    BY LenProperties DEF Typed
  <2>3. Sizes[g] = Len(hand[g]) /\ Sizes'[g] = Len(hand[g]) - 1
    BY <2>1, <2>2 DEF Sizes, Left, Typed
  <2>4. \A h \in Gateways \ {g} : Sizes'[h] = Sizes[h]
    BY <2>1 DEF Sizes, Left, Typed
  <2>5. Len(stream) \in Nat
    BY LenProperties
  <2>6. bans' + Len(stream) + Sizes[g] + applied + missed
          = bans + Len(stream') + Sizes'[g] + applied' + missed'
    <3>1. PICK j \in Int, k \in Int : j = Len(hand[g]) /\ k = Len(stream)
      BY <2>2, <2>5
    <3>2. bans + k + j + applied + missed = bans + k + (j - 1) + (applied + 1) + missed
      BY DEF Counts
    <3>. QED
      BY <2>1, <2>3, <3>1, <3>2
  <2>7. bans' \in Nat /\ applied' \in Nat /\ missed' \in Nat
    BY <2>1 DEF Counts
  <2>. QED
    BY <2>4, <2>6, <2>7, CountsMove
<1>5. ASSUME NEW g \in Gateways, Persist(g) PROVE Counts'
  <2>1. \A h \in Gateways : Left(h)' = Left(h)
    BY <1>5 DEF Persist, Left, Typed
  <2>. QED
    BY <1>5, <2>1 DEF Persist, counts, Counts, EachEventOnce, Unapplied
<1>6. ASSUME NEW g \in Gateways, Publish(g) PROVE Counts'
  <2>1. Len(Tail(hand[g])) = Len(hand[g]) - 1 /\ Len(hand[g]) \in Nat
    <3>1. hand[g] \in Seq(Bans) /\ hand[g] # <<>>
      BY <1>6 DEF Publish, Typed, InHand
    <3>. QED
      BY <3>1, HeadTailProperties, LenProperties
  <2>2. /\ pc[g] = "publish" /\ pc' = [pc EXCEPT ![g] = "apply"]
        /\ hand' = [hand EXCEPT ![g] = Tail(hand[g])]
    BY <1>6 DEF Publish
  <2>3. \A h \in Gateways : Left(h)' = Left(h)
    <3>1. Left(g)' = Left(g)
      BY <2>1, <2>2 DEF Left, Typed
    <3>2. \A h \in Gateways \ {g} : Left(h)' = Left(h)
      BY <2>2 DEF Left, Typed
    <3>. QED
      BY <3>1, <3>2
  <2>. QED
    BY <1>6, <2>3 DEF Publish, counts, Counts, EachEventOnce, Unapplied
<1>7. ASSUME NEW g \in Gateways, Forgotten(g), UNCHANGED <<stream, bans, applied>> PROVE Counts'
  <2>1. Sizes[g] = Left(g) /\ Sizes'[g] = 0 /\ missed' = missed + Left(g)
    BY <1>7, EmptySeq DEF Forgotten, Sizes, Left, Typed
  <2>2. \A h \in Gateways \ {g} : Sizes'[h] = Sizes[h]
    BY <1>7 DEF Forgotten, Sizes, Left, Typed
  <2>3. Sizes[g] \in Nat
    OBVIOUS
  <2>4. Len(stream) \in Nat
    BY LenProperties
  <2>5. bans' + Len(stream) + Sizes[g] + applied + missed
          = bans + Len(stream') + Sizes'[g] + applied' + missed'
    BY <1>7, <2>1, <2>3, <2>4 DEF Counts
  <2>6. bans' \in Nat /\ applied' \in Nat /\ missed' \in Nat
    BY <1>7, <2>1, <2>3 DEF Counts
  <2>. QED
    BY <2>2, <2>5, <2>6, CountsMove
<1>8. ASSUME NEW g \in Gateways, NEW w \in Workers, RunEnds(g, w) PROVE Counts'
  <2>1. CASE w = "sync"
    BY <1>1, <1>8, <2>1 DEF RunEnds, counts
  <2>2. CASE w # "sync"
    BY <1>7, <1>8, <2>2 DEF RunEnds
  <2>. QED
    BY <2>1, <2>2
<1>9. ASSUME NEW g \in Gateways, Restart(g) PROVE Counts'
  BY <1>7, <1>9 DEF Restart
<1>10. ASSUME NEW g \in Gateways, Deliver(g) \/ Supervisor(g) \/ Operator(g) \/ Signal(g) PROVE Counts'
  BY <1>1, <1>10 DEF Deliver, Supervisor, Wake, Operator, OperatorBan, OperatorLift, Signal
<1>11. CASE Tick \/ UNCHANGED vars
  BY <1>1, <1>11 DEF Tick, vars
<1>. QED
  BY <1>2, <1>3, <1>4, <1>5, <1>6, <1>8, <1>9, <1>10, <1>11, OperatorTime DEF Next, Process, Breaker

\* XREADGROUP gives each event to one breaker: a ban waits in the stream or in that
\* breaker's hand, was applied, or went with the breaker when it died.
THEOREM EventsHandledOnce == Spec => []EachEventOnce
<1>1. Init => Counts
  <2>. SUFFICES ASSUME Init PROVE Counts
    OBVIOUS
  <2>1. Unapplied = {}
    BY EmptySeq DEF Init, Unapplied, Left
  <2>. QED
    BY <2>1, FS_EmptySet, EmptySeq DEF Init, Counts, EachEventOnce
<1>. DEFINE Sized == Sizes \in [Gateways -> Nat]
<1>2. IInv /\ IInv' /\ Sized /\ Sized' /\ Counts /\ [Next]_vars => Counts'
  BY CountsStep DEF IInv, Typed
<1>3. IInv => Sized
  BY SizesType DEF IInv
<1>4. Counts => EachEventOnce
  BY DEF Counts
<1>. HIDE DEF Sized
<1>. QED
  BY <1>1, <1>2, <1>3, <1>4, FanoutInvariant, PTL DEF Spec
=============================================================================
