---------------------------- MODULE MCQuarantine ----------------------------
(* Small instances of Quarantine for TLC. *)
EXTENDS Quarantine

CONSTANTS d1, d2, d3, i1, i2

\* Two entries of one domain, and two more domains.
TwoOfOne == {<<d1, i1>>, <<d1, i2>>, <<d2, i1>>, <<d3, i1>>}
=============================================================================
