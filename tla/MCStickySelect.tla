--------------------------- MODULE MCStickySelect ---------------------------
(* Small instances of StickySelect for TLC. *)
EXTENDS StickySelect

CONSTANTS a1, a2

Node(a, c, w) == [addr |-> a, country |-> c, weight |-> w]

\* Nodes that come, go and are derated in the country they are in.
InPlace == {Node(a1, "US", 1), Node(a1, "US", 0), Node(a2, "US", 1)}

\* A node that is registered anew in another country.
Moved == {Node(a1, "US", 1), Node(a1, "DE", 1)}

SameCase == [c \in Countries |-> c]
\* A client writes the country of the node in lower case.
LowerCase == [c \in Countries |-> "US"]
=============================================================================
