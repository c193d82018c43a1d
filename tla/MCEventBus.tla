----------------------------- MODULE MCEventBus -----------------------------
(* Small instances of EventBus for TLC. *)
EXTENDS EventBus

OneShard == [e \in Events |-> 0]

\* The first event goes to the first shard, all others to the second.
TwoShards == LET first == CHOOSE e \in Events : TRUE IN
             [e \in Events |-> IF e = first THEN 0 ELSE 1]
=============================================================================
