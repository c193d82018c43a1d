--------------------------- MODULE MCNodeRegistry ---------------------------
(* A small instance of NodeRegistry for TLC. *)
EXTENDS NodeRegistry

CONSTANTS a1, a2, a3

Post(a, country) ==
  [addr |-> a, blanks |-> FALSE, ip |-> "v4", port |-> 1, country |-> country, tier |-> "res",
   provider |-> "p", weight |-> 1, user |-> "none", password |-> FALSE]

ProviderGroups == {<<"p", "US">>, <<"p", "JP">>}

\* An address that may come back in another group, a second one that the free pool
\* may hold, a third one that is injected and spelled with blanks; and posts that
\* are refused, for one field each.
SomePosts ==
  {Post(a1, "us"), Post(a1, "JP"), Post(a2, "US"),
   [Post(a3, "US") EXCEPT !.blanks = TRUE, !.user = "name", !.password = TRUE, !.tier = "mobile"],
   [Post(a2, "JP") EXCEPT !.ip = "v6"], [Post(a2, "JP") EXCEPT !.port = 0], Post(a2, "USA"),
   [Post(a2, "JP") EXCEPT !.tier = "free"], [Post(a2, "JP") EXCEPT !.provider = "Free-HTTP"],
   [Post(a2, "JP") EXCEPT !.weight = 2], [Post(a2, "JP") EXCEPT !.password = TRUE]}

\* A list of one.
OneSeed == {Normalized(Post(a1, "US"))}

\* One entry that is well formed, one that is not on the loopback.
OneInjected ==
  LET entry == [addr |-> a3, parts |-> 6, loopback |-> TRUE, numbers |-> TRUE, weight |-> 1] IN
  {entry, [entry EXCEPT !.addr = a2, !.loopback = FALSE]}
=============================================================================
