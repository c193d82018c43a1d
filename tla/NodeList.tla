------------------------------ MODULE NodeList ------------------------------
(***************************************************************************)
(* What the control plane promises about the list of managed nodes: it     *)
(* changes by one operator's change at a time, and what a restart brings   *)
(* back is the list that was answered or, of a change that was not         *)
(* answered OK, the list with that one change.  NodeRegistry, with its     *)
(* file, its lock and its roll-backs, implements this.                     *)
(***************************************************************************)
EXTENDS FiniteSets

CONSTANTS Registrable, \* the nodes operators register
          Groups, Weights,
          Seeds        \* the list of a first start

VARIABLES listed,      \* the managed nodes, as the operators were told
          doubt        \* the other list a restart may bring back, if any

vars == <<listed, doubt>>

AddrsOf(list) == {n.addr : n \in list}

\* The weight of a group: all nodes of a provider in a country.
WithWeight(list, g, w) == {IF n.group = g THEN [n EXCEPT !.weight = w] ELSE n : n \in list}

OneChange(list) ==
  {list \cup {n} : n \in {m \in Registrable : m.addr \notin AddrsOf(list)}}
    \cup {list \ {n} : n \in list}
    \cup {WithWeight(list, g, w) : g \in Groups, w \in Weights}

Init == listed = Seeds /\ doubt = {}

Attempt ==
  /\ \E next \in OneChange(listed) : doubt' = {next} \ {listed}
  /\ UNCHANGED listed

\* The change is answered, refused, or a restart decides.
Settle ==
  /\ listed' \in {listed} \cup doubt
  /\ doubt' = {}

Next == Attempt \/ Settle

Spec == Init /\ [][Next]_vars
=============================================================================
