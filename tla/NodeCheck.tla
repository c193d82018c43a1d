----------------------------- MODULE NodeCheck -----------------------------
(***************************************************************************)
(* How the free line judges one listed node (free_pool.rs, Verifier and    *)
(* FullChecker; socks_handshake.rs): the baseline asked of the check       *)
(* service without a proxy, the node's port or SOCKS handshake under one   *)
(* timer, the latency gate, then three endpoints of the service fetched    *)
(* through the node at once, one base address of the service after another *)
(* until one agrees.  The worker does this for every listing of a run; the *)
(* checks share nothing but permits.                                       *)
(*                                                                         *)
(* Of a message its kind is kept, and of the last SOCKS5 reply the bytes   *)
(* that are left to read.  A node that conforms speaks its protocol and    *)
(* relays what the service says; one that does not may answer anything.    *)
(* Base addresses come and go, and the gateway's own address may move, at  *)
(* most MaxChanges times in all.                                           *)
(***************************************************************************)
EXTENDS Integers

CONSTANTS Bases,      \* how many base addresses the service has
          NameLens,   \* lengths of a host name in a SOCKS5 reply
          MaxChanges

ASSUME BasesAssumption == Bases \in Nat \ {0}
ASSUME LensAssumption == NameLens \subseteq 0..255

VARIABLES node, target, account, \* the node, the target of its CONNECT, credentials
          up, own, changes,      \* bases that answer, the gateway's address
          step, base,            \* where the check is, the base it is at
          baseline,              \* the address the service saw, Nothing
          reply, wire,           \* SOCKS5 reply being read, its unread bytes
          got,                   \* answers of the endpoints, by endpoint
          anon, verdict,
          missed, late           \* bases that did not answer; the node was slow

world == <<node, target, account, up, own, changes>>
handshake == <<reply, wire>>
outcome == <<anon, verdict>>
checkVars == <<world, step, base, baseline, handshake, got, outcome, missed, late>>

Nothing == -1
Elsewhere == 0 \* the address of the node's exit
NoReply == [atyp |-> "none", len |-> 0]
NoAnswers == [e \in {} |-> Nothing]
Protos == {"http", "socks5", "socks4"}

\* What the node is: whether it wants a login, resolves names (a SOCKS4 server
\* need not), forwards from the gateway's address, tells it in a header.
Peers == [proto : Protos, conforms : BOOLEAN, login : BOOLEAN, names : BOOLEAN,
          exit : {"own", "elsewhere"}, discloses : BOOLEAN]

\* Where a field makes no difference it has one value.
Plain(n) ==
  /\ n.proto # "socks4" => n.names
  /\ ~n.conforms => ~n.login /\ n.names /\ n.exit = "elsewhere" /\ ~n.discloses
  /\ n.login => n.exit = "elsewhere" /\ ~n.discloses

\* socks_target_of_base, of the first base only.  An address and a name are
\* asked for in different forms; without a target only the greeting is sent.
Targets == {"none", "address", "name"}

CheckInit ==
  /\ node \in {n \in Peers : Plain(n)}
  /\ target \in IF node.proto = "http" THEN {"none"} ELSE Targets
  \* The free line has no credentials to give; establish takes them.
  /\ account \in IF node.proto = "socks5" /\ ~node.conforms THEN BOOLEAN ELSE {FALSE}
  /\ up = 1..Bases /\ own = 1 /\ changes = 0
  /\ step = "baseline" /\ base = 1 /\ baseline = Nothing
  /\ reply = NoReply /\ wire = 0
  /\ got = NoAnswers
  /\ anon = "unknown" /\ verdict = "none"
  /\ missed = {} /\ late = FALSE

Miss(what, b) == missed' = missed \cup {<<what, b>>}

Done(v) == step' = "done" /\ verdict' = v

-----------------------------------------------------------------------------
\* The world

BaseChanges ==
  /\ step # "done" /\ changes < MaxChanges /\ changes' = changes + 1
  /\ \E b \in 1..Bases : up' = IF b \in up THEN up \ {b} ELSE up \cup {b}
  /\ UNCHANGED <<node, target, account, own, step, base, baseline, handshake, got, outcome, missed, late>>

AddressMoves ==
  /\ step # "done" /\ changes < MaxChanges /\ changes' = changes + 1
  /\ own = 1 /\ own' = 2
  /\ UNCHANGED <<node, target, account, up, step, base, baseline, handshake, got, outcome, missed, late>>

-----------------------------------------------------------------------------
\* The baseline, once for the whole run of the worker

NextBaseline ==
  /\ Miss("baseline", base)
  /\ IF base < Bases THEN step' = "baseline" /\ base' = base + 1
     ELSE step' = "connect" /\ base' = 1
  /\ UNCHANGED baseline

\* The five seconds are for the head of the answer.
AskBaseline ==
  /\ step = "baseline"
  /\ \/ base \in up /\ step' = "body" /\ UNCHANGED <<base, baseline, missed>>
     \/ base \notin up /\ NextBaseline
  /\ UNCHANGED <<world, handshake, got, outcome, late>>

\* Its body is read without a timer, and may lack the address.
ReadBaseline ==
  /\ step = "body"
  /\ \/ step' = "connect" /\ base' = 1 /\ baseline' = own /\ UNCHANGED missed
     \/ NextBaseline
  /\ UNCHANGED <<world, handshake, got, outcome, late>>

-----------------------------------------------------------------------------
\* verify: the port or the handshake, under one timer

Verifying == {"connect", "greet", "auth", "request", "bound", "reply4"}

\* The stream is dropped with what is unread.
VerifyFails ==
  /\ Done("tcp_fail") /\ wire' = 0
  /\ UNCHANGED <<world, base, baseline, reply, got, anon>>

Goes(s) ==
  /\ step' = s
  /\ UNCHANGED <<world, base, baseline, handshake, got, outcome, missed, late>>

\* What follows the TCP connection: verify_tcp, establish or greet_only.
AfterConnect ==
  CASE node.proto = "http" -> "gate"
    [] node.proto = "socks5" -> "greet"
    [] OTHER -> IF target = "none" THEN "gate" ELSE "reply4"

Connect ==
  /\ step = "connect"
  /\ \/ Goes(AfterConnect)
     \/ ~node.conforms /\ VerifyFails /\ UNCHANGED <<missed, late>>

\* Only NO_AUTH is offered: a server that wants a login refuses it.
Methods ==
  IF node.conforms THEN {IF node.login THEN "refuse" ELSE "none"}
  ELSE {"none", "login", "refuse", "other", "badversion"}

\* The next step after the method chosen, "fail" if there is none.
Choice(m) ==
  IF target = "none" THEN IF m \in {"refuse", "badversion"} THEN "fail" ELSE "gate"
  ELSE CASE m = "none" -> "request"
         [] m = "login" /\ account -> "auth"
         [] OTHER -> "fail"

Greet ==
  /\ step = "greet"
  /\ \E m \in Methods :
       \/ Choice(m) # "fail" /\ Goes(Choice(m))
       \/ Choice(m) = "fail" /\ VerifyFails /\ UNCHANGED <<missed, late>>

Auth ==
  /\ step = "auth"
  /\ \/ Goes("request")
     \/ VerifyFails /\ UNCHANGED <<missed, late>>

Replies == {[atyp |-> t, len |-> 0] : t \in {"v4", "v6"}} \cup {[atyp |-> "name", len |-> n] : n \in NameLens}

\* What a server sends after the four bytes of the head: the address (a name
\* has its length in front) and the port.
BoundBytes(r) ==
  CASE r.atyp = "v4" -> 4 + 2
    [] r.atyp = "v6" -> 16 + 2
    [] OTHER -> 1 + r.len + 2

\* Mutant: the usual form of the reply is taken for granted.
ToReadUsual(r) == 4 + 2

\* bnd_len, the length of a name included.
ToRead(r) ==
  CASE r.atyp = "v4" -> 4 + 2
    [] r.atyp = "v6" -> 16 + 2
    [] OTHER -> 1 + r.len + 2

\* The target is the service's first base.
TargetAnswers == 1 \in up

\* CONNECT: granted with an address of some form.  What does not conform may
\* leave part of it out, grant what it cannot reach, or answer what is an error
\* (version, reply, form of the address).
AskConnect ==
  /\ step = "request"
  /\ \/ /\ node.conforms => TargetAnswers
        /\ \E r \in Replies : \E sent \in {BoundBytes(r)} \cup (IF node.conforms THEN {} ELSE {0}) :
             reply' = r /\ wire' = sent
        /\ step' = "bound"
        /\ UNCHANGED <<world, base, baseline, got, outcome, missed, late>>
     \/ /\ node.conforms => ~TargetAnswers
        /\ VerifyFails /\ Miss("target", 1) /\ UNCHANGED late

ReadBound ==
  /\ step = "bound" /\ wire >= ToRead(reply)
  /\ step' = "gate" /\ wire' = wire - ToRead(reply)
  /\ UNCHANGED <<world, base, baseline, reply, got, outcome, missed, late>>

\* establish_v4: a name is sent in the form of SOCKS4a.
Granted4 == TargetAnswers /\ (target = "name" => node.names)

Reply4 ==
  /\ step = "reply4"
  /\ \/ (node.conforms => Granted4) /\ Goes("gate")
     \/ /\ node.conforms => ~Granted4
        /\ VerifyFails /\ UNCHANGED late
        /\ IF TargetAnswers THEN UNCHANGED missed ELSE Miss("target", 1)

VerifyTimeout ==
  /\ step \in Verifying
  /\ VerifyFails /\ late' = TRUE /\ UNCHANGED missed

\* The latency gate; without a baseline the pass only renews.
Gate ==
  /\ step = "gate"
  /\ \/ /\ baseline # Nothing /\ step' = "full" /\ base' = 1 /\ wire' = 0
        /\ UNCHANGED <<world, baseline, reply, got, outcome, missed, late>>
     \/ /\ baseline = Nothing /\ Done("renew") /\ wire' = 0
        /\ UNCHANGED <<world, base, baseline, reply, got, anon, missed, late>>
     \/ VerifyFails /\ late' = TRUE /\ UNCHANGED missed

-----------------------------------------------------------------------------
\* The full check: check and check_one

Endpoints == {"ip", "headers", "canary"}
Intact == 1

\* What the service would say of the node.
Faithful(e) ==
  CASE e = "ip" -> IF node.exit = "own" THEN own ELSE Elsewhere
    [] e = "headers" -> IF node.discloses THEN own ELSE Elsewhere
    [] e = "canary" -> Intact

NoAnswer == [ok |-> FALSE, base |-> base, says |-> Nothing]
Says(what) == [ok |-> TRUE, base |-> base, says |-> what]

\* Of a node that conforms: what the base says, if it is up.  Of one that does
\* not: an error, or a body with anything or nothing in it.
Answers(e) ==
  IF node.conforms
  THEN {IF base \in up /\ ~node.login THEN Says(Faithful(e)) ELSE NoAnswer}
  ELSE {NoAnswer} \cup {Says(x) : x \in {Nothing, Elsewhere, Faithful(e)}}

WithAnswer(e, a) == [x \in DOMAIN got \cup {e} |-> IF x = e THEN a ELSE got[x]]

Answer(e) ==
  /\ step = "full" /\ e \notin DOMAIN got
  /\ \E a \in Answers(e) : got' = WithAnswer(e, a)
  /\ IF base \in up THEN UNCHANGED missed ELSE Miss("full", base)
  /\ UNCHANGED <<world, step, base, baseline, handshake, outcome, late>>

AnswerTimeout(e) ==
  /\ step = "full" /\ e \notin DOMAIN got
  /\ got' = WithAnswer(e, NoAnswer)
  /\ late' = TRUE
  /\ UNCHANGED <<world, step, base, baseline, handshake, outcome, missed>>

\* classify_anonymity
Classify(seen, exit, header) ==
  CASE exit = Nothing -> "unknown"
    [] exit = seen -> "transparent"
    [] exit # Nothing /\ exit # seen /\ header = seen -> "anonymous"
    [] OTHER -> "elite"

Agreed == (\A e \in Endpoints : got[e].ok) /\ got["canary"].says = Intact

\* Mutants: the first base decides; the bases are asked in a ring; what the
\* base before said is not asked again.
NextBaseNot == Done("full_fail") /\ UNCHANGED <<base, got>>
NextBaseRing == base' = (base % Bases) + 1 /\ got' = NoAnswers /\ UNCHANGED <<step, verdict>>
NextBaseKeeps ==
  IF base < Bases
  THEN /\ base' = base + 1
       /\ got' = [e \in {x \in Endpoints : got[x].ok} |-> got[e]]
       /\ UNCHANGED <<step, verdict>>
  ELSE Done("full_fail") /\ UNCHANGED <<base, got>>

NextBase ==
  IF base < Bases
  THEN base' = base + 1 /\ got' = NoAnswers /\ UNCHANGED <<step, verdict>>
  ELSE Done("full_fail") /\ UNCHANGED <<base, got>>

Judge ==
  /\ step = "full" /\ DOMAIN got = Endpoints
  /\ \/ /\ Agreed /\ Done("pass")
        /\ anon' = Classify(baseline, got["ip"].says, got["headers"].says)
        /\ UNCHANGED <<base, got>>
     \/ ~Agreed /\ NextBase /\ UNCHANGED anon
  /\ UNCHANGED <<world, baseline, handshake, missed, late>>

-----------------------------------------------------------------------------
\* ReadBaseline is the one step that nothing bounds.
Check ==
  \/ AskBaseline \/ Connect \/ Greet \/ Auth \/ AskConnect \/ ReadBound \/ Reply4
  \/ VerifyTimeout \/ Gate \/ Judge
  \/ \E e \in Endpoints : Answer(e) \/ AnswerTimeout(e)

CheckNext == Check \/ ReadBaseline \/ BaseChanges \/ AddressMoves

CheckSpec == CheckInit /\ [][CheckNext]_checkVars
FairCheck == CheckSpec /\ WF_checkVars(Check)

Socks == node.proto # "http"
Working == node.conforms /\ ~node.login
AllMissed(what) == \A b \in 1..Bases : <<what, b>> \in missed

\* A SOCKS5 tunnel that establish hands over is at the first byte of the
\* target: of the handshake nothing is left unread, whatever the form of the
\* address in the reply (ipv4, ipv6, a name of any length, the empty one too).
StreamAligned == node.conforms /\ step = "gate" => wire = 0

\* A node that works and answers in time is never written down for trouble of
\* the check service at one base: the full check fails only if every base
\* failed to answer while it was asked, the pass is reduced to a renewal only
\* if no base gave a baseline.  The handshake is the exception: the first base
\* alone is its target, and it must be resolved by the node.
WorkingNodePasses ==
  Working /\ ~late =>
    /\ verdict = "full_fail" => AllMissed("full")
    /\ verdict = "renew" => AllMissed("baseline")
    /\ verdict = "tcp_fail" =>
         \/ Socks /\ <<"target", 1>> \in missed
         \/ node.proto = "socks4" /\ target = "name" /\ ~node.names

\* A pass rests on one base: the three answers were given by it, whole, the
\* canary intact.  The level is the node's, if it conforms and the gateway's
\* address is still the one of the baseline.
VerdictIsGrounded ==
  verdict = "pass" =>
    /\ \A e \in Endpoints : got[e].ok /\ got[e].base = base
    /\ got["canary"].says = Intact
    /\ node.conforms /\ own = baseline =>
         anon = CASE node.exit = "own" -> "transparent"
                  [] node.exit # "own" /\ node.discloses -> "anonymous"
                  [] OTHER -> "elite"

\* Every check comes to a verdict, or waits for the body of the baseline for
\* ever: nothing else in it waits without a timer or starts over.
ChecksEnd == <>(verdict # "none") \/ <>[](step = "body")

\* The baseline takes five seconds per base at most, so that every check comes
\* to a verdict.
EveryCheckEnds == <>(verdict # "none")

\* Trouble of the check service is not counted as a failure of the node.
OutageIsNotTheNode ==
  Working /\ ~late /\ (node.proto = "socks4" => node.names) => verdict # "tcp_fail"
=============================================================================
