---------------------------- MODULE MCBanFanout -----------------------------
(* Small instances of BanFanout for TLC. *)
EXTENDS BanFanout, TLC

SameCountry == [n \in Nodes |-> "us"]
=============================================================================
