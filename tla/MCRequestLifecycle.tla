------------------------- MODULE MCRequestLifecycle -------------------------
(* Small instances of RequestLifecycle for TLC. *)
EXTENDS RequestLifecycle

Asks(t, p) == [tier |-> t, proto |-> p]
Kind(h, u, c) == [head |-> h, user |-> u, creds |-> c, host |-> TRUE, key |-> "default"]
NoWish == Asks("any", "any")
Hostless == [Kind(NoWish, NoWish, FALSE) EXCEPT !.host = FALSE]
WithKey(k) == [Kind(NoWish, NoWish, FALSE) EXCEPT !.key = k]

\* With credentials and without, with a tier and without, http and socks, asked
\* for in a header or in the user name.
AllSorts == {Kind(NoWish, NoWish, TRUE), Kind(Asks("free", "any"), NoWish, TRUE),
             Kind(NoWish, Asks("paid", "any"), FALSE), Kind(Asks("any", "socks"), NoWish, TRUE),
             Kind(NoWish, Asks("any", "socks"), FALSE), Hostless, WithKey("none"), WithKey("own")}
\* One request with two wishes.
TwoWishes == {Kind(Asks("paid", "any"), Asks("free", "any"), FALSE)}

Env(k, g) == [apiKey |-> k, gate |-> g]
\* Nothing set, a key of the operator's with the gate open, an error.
Startups == {Env("unset", TRUE), Env("own", FALSE), Env("default", FALSE)}
Defaults == {Env("unset", TRUE)}
=============================================================================
