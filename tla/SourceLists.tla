---------------------------- MODULE SourceLists -----------------------------
(***************************************************************************)
(* The lists of the free pool's sources (free_pool.rs): what each kind of   *)
(* source makes of an answer, and which of all that is listed is looked at. *)
(*                                                                          *)
(* An answer is a sequence of items.  An item has an address and what the   *)
(* parsers tell apart about it: whether its ip is "public", "bogon" or      *)
(* "malformed" and its port usable, the anonymity and the country claimed,  *)
(* and what is written of protocols in its row in front of the address and  *)
(* behind it.                                                               *)
(***************************************************************************)
EXTENDS Naturals, Sequences, SequencesExt

Item(addr, before) ==
  [addr |-> addr, ip |-> "public", port |-> TRUE, claims |-> "none", country |-> "none",
   before |-> before, after |-> "none"]

\* FreeProto::from_token
FromToken(token) == IF token \in {"http", "https", "socks4", "socks5"} THEN token ELSE "none"

\* is_routable_ip
IsRoutable(item) == item.ip = "public"

Raw(s, item, proto, country) ==
  [addr |-> item.addr, proto |-> proto, source |-> s, country |-> country]

Usable(item) == IsRoutable(item) /\ item.port

\* ApiSource::parse: the first protocol listed; what claims to be transparent is
\* left out, an unknown claim is not.
ApiParse(s, items) ==
  LET kept == SelectSeq(items, LAMBDA i : Usable(i) /\ i.claims # "transparent")
      proto(i) == IF FromToken(i.before) = "none" THEN "http" ELSE FromToken(i.before) IN
  [k \in 1..Len(kept) |-> Raw(s, kept[k], proto(kept[k]), kept[k].country)]

Sniffed(marks, default) ==
  IF "socks5" \in marks THEN "socks5" ELSE IF "socks4" \in marks THEN "socks4" ELSE default

\* GitHubSource::parse_with: what the line says, else what the file is for.
GitHubParse(s, items, default) ==
  LET kept == SelectSeq(items, Usable) IN
  [k \in 1..Len(kept) |->
     Raw(s, kept[k], Sniffed({kept[k].before, kept[k].after}, default), "none")]

\* HtmlSource::extract looks for a protocol in the 200 bytes in front of the
\* address: the page's last rows, `window` of them, and the start of its own.
HtmlMarks(items, i, window) ==
  {items[i].before} \cup UNION {{items[k].before, items[k].after} :
                                  k \in {j \in 1..i - 1 : j + window >= i}}

HtmlExtract(s, items, default, window) ==
  LET all == [i \in 1..Len(items) |-> <<items[i], Sniffed(HtmlMarks(items, i, window), default)>>]
      kept == SelectSeq(all, LAMBDA x : Usable(x[1])) IN
  [k \in 1..Len(kept) |-> Raw(s, kept[k][1], kept[k][2], "none")]

Parse(s, kind, items, default, window) ==
  CASE kind = "api" -> ApiParse(s, items)
    [] kind = "html" -> HtmlExtract(s, items, default, window)
    [] kind = "github" -> GitHubParse(s, items, default)

\* fetch_all: of the listings with one address and protocol the first is kept.
FirstSeen(raws) ==
  LET first(i) == \A k \in 1..i - 1 : raws[k].addr # raws[i].addr \/ raws[k].proto # raws[i].proto IN
  [n \in 1..Cardinality({i \in 1..Len(raws) : first(i)}) |->
     raws[CHOOSE i \in 1..Len(raws) :
            first(i) /\ Cardinality({k \in 1..i : first(k)}) = n]]

\* cap_intake, a stable sort: those known as elite, then the others, each in the
\* order of the sources, which is the order they come in.
CapIntake(raws, cap, elite) ==
  IF Len(raws) <= cap THEN raws
  ELSE SubSeq(SelectSeq(raws, LAMBDA r : r.addr \in elite)
              \o SelectSeq(raws, LAMBDA r : r.addr \notin elite), 1, cap)

\* egress_of
EgressOf(proto) == IF proto = "https" THEN "http" ELSE proto

\* geo_verdict: only a country that is claimed, known and another one is a mismatch.
GeoVerdict(claimed, found) ==
  IF claimed = "none" \/ found = "none" THEN "skipped"
  ELSE IF claimed \in {"zz", found} THEN "match" ELSE "mismatch"
=============================================================================
