----------------------------- MODULE MCFreePool -----------------------------
(* Small instances of FreePool for TLC. *)
EXTENDS FreePool

CONSTANTS a, b, s, t

\* One source, an API: an address under two protocols, another one, and rows that
\* are not to be looked at.
Api == [x \in {s} |-> "api"]
ApiRows == [x \in {s} |->
  <<[Item(a, "https") EXCEPT !.country = "us"], Item(a, "socks5"), Item(b, "ftp"),
    [Item(b, "socks4") EXCEPT !.claims = "transparent"], [Item(a, "socks4") EXCEPT !.ip = "bogon"]>>]
AnyRows == [x \in {s} |-> SUBSET (1..3) \cup {4..5}]

\* Two files that list one address each, the same in every fetch.
Files == [x \in {s, t} |-> "github"]
FileRows == [x \in {s, t} |-> <<Item(IF x = s THEN a ELSE b, "none")>>]
AllRows == [x \in {s, t} |-> {{1}}]

AllHttp == [x \in Sources |-> "http"]
OneSource == <<s>>
TwoSources == <<s, t>>

\* On rows with a usable address, a protocol in front of it and no claims, and
\* windows without other rows, the three parsers agree.
ASSUME ParsersAgree ==
  \A x, y \in {"none", "socks4", "socks5"} :
    LET rows == <<Item(a, x), Item(b, y)>> IN
    /\ ApiParse(s, rows) = GitHubParse(s, rows, "http")
    /\ ApiParse(s, rows) = HtmlExtract(s, rows, "http", 0)
=============================================================================
