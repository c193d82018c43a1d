---------------------------- MODULE MCSelection -----------------------------
(* Small instances of Selection for TLC. *)
EXTENDS Selection, TLC

Node(addr, tier, login) == [addr |-> addr, tier |-> tier, login |-> login]

\* A free node that may come back with another login, and one of another tier.
Rotated == {Node("a", "free", "old"), Node("a", "free", "new"), Node("b", "dc", "old")}

\* The address of a free node that may come back as one of a datacenter.
Promoted == {Node("a", "free", "old"), Node("a", "dc", "old"), Node("b", "dc", "old")}

\* Three tiers.
Three == {Node("a", "free", "old"), Node("b", "dc", "old"), Node("c", "residential", "old")}

RequestSymmetry == Permutations(Requests)
=============================================================================
