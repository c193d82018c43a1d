--------------------------- MODULE MCPaidWeights ----------------------------
(* Small instances of PaidWeights for TLC. *)
EXTENDS PaidWeights, TLC

CONSTANTS a1, a2, a3, g1, g2

TwoGroups == (a1 :> g1) @@ (a2 :> g1) @@ (a3 :> g2)
OneGroup == (a1 :> g1) @@ (a2 :> g1)
NoWeights == {}
=============================================================================
