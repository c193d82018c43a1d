---------------------------- MODULE NodeRegistry ----------------------------
(***************************************************************************)
(* The nodes operators manage at run time: the list of node_registry.rs    *)
(* under its mutex, the file it is kept in, the live pool of the router,   *)
(* and the handlers of admin.rs that change all three.  A handler looks at *)
(* the pool before it waits for the mutex; the free pool is merged into    *)
(* the live pool without it; the process may die between any two steps.    *)
(*                                                                         *)
(* A group is a provider in a country; free and injected nodes have groups *)
(* of their own.  The pool's own write lock makes each call of the router  *)
(* one step.  Weights written by the arbitrage and the autotune switch are *)
(* not persisted and not here (PaidWeights).                               *)
(*                                                                         *)
(* A node arrives as it is spelled in a request, is brought into its       *)
(* normal form or refused, and is read from the file through the same      *)
(* checks: a list the program wrote and cannot read keeps it from          *)
(* starting.                                                               *)
(***************************************************************************)
EXTENDS Naturals, FiniteSets

CONSTANTS Addrs, Groups, Weights,
          Posted,      \* the nodes operators ask for, as they are spelled
          Seeds,       \* the list while there is no file
          FreeAddrs,   \* addresses the free pool may hold
          TestSpecs,   \* the entries of TEST_POOL_NODES
          KeepsFile,   \* NODES_FILE is not the empty string
          Handlers,
          MaxManaged,  \* MAX_MANAGED_NODES
          MaxWeight    \* MAX_WEIGHT

\* The groups of the free pool and of TEST_POOL_NODES.
Free == <<"free-http", "any">>
Test == <<"test", "any">>

\* canonical_tier: short names are written out.
CanonicalTier(t) ==
  CASE t = "res" -> "residential" [] t = "dc" -> "datacenter" [] OTHER -> t

\* The normal form of a country: two letters in capitals.  Others have none.
CountryCode == [US |-> "US", us |-> "US", JP |-> "JP"]

\* Names the free pool would sweep away, in any case of letters.
Reserved == {"free", "Free", "free-http", "Free-HTTP"}

\* normalize_and_validate: refused (400) unless each field passes,
Valid(r) ==
  /\ r.ip = "v4" /\ r.port > 0
  /\ r.country \in DOMAIN CountryCode
  /\ CanonicalTier(r.tier) \in {"datacenter", "residential", "mobile"}
  /\ r.provider \notin {""} \cup Reserved
  /\ r.weight <= MaxWeight
  /\ r.user # "empty" /\ (r.password => r.user # "none")

\* and then without blanks, its group spelled in one way.
Normalized(r) ==
  [addr |-> r.addr, group |-> <<r.provider, CountryCode[r.country]>>, weight |-> r.weight]

Registrable == {Normalized(r) : r \in {p \in Posted : Valid(p)}}

\* Six parts, a loopback address, a port and a weight; other entries are skipped.
Injected ==
  {[addr |-> t.addr, group |-> Test, weight |-> t.weight] :
     t \in {u \in TestSpecs : u.parts = 6 /\ u.loopback /\ u.numbers}}

Nodes == [addr : Addrs, group : Groups, weight : Weights]
Unmanaged == [addr : Addrs, group : {Free, Test}, weight : Weights \cup {1}]

\* What may be posted: an address spelled with or without blanks around it, with
\* credentials whose name may be missing or empty.
Spellings == [addr : Addrs, blanks : BOOLEAN, ip : {"v4", "v6", "junk"}, port : {0, 1},
              country : STRING, tier : STRING, provider : STRING, weight : Nat,
              user : {"none", "empty", "name"}, password : BOOLEAN]

AddrsOf(set) == {n.addr : n \in set}
OnePerAddr(set) == \A m, n \in set : m.addr = n.addr => m = n

\* load_file and ensure_unique_and_bounded: what passes for a list.  Of the checks
\* of each node only that of its weight can fail on a normal form.
Loads(list) ==
  /\ Cardinality(list) <= MaxManaged /\ OnePerAddr(list)
  /\ \A n \in list : n.weight <= MaxWeight

ASSUME GroupNames == {Free, Test} \cap Groups = {} /\ FreeAddrs \subseteq Addrs
ASSUME SeedNodes  == /\ Registrable \subseteq Nodes /\ Seeds \subseteq Registrable
                     /\ MaxManaged \in Nat /\ MaxWeight \in Nat /\ Weights \subseteq Nat
                     /\ Posted \subseteq Spellings /\ IsFiniteSet(Seeds) /\ Loads(Seeds)
ASSUME TestNodes  == /\ Injected \subseteq Unmanaged
                     /\ AddrsOf(Injected) \cap AddrsOf(Seeds) = {}

VARIABLES disk,    \* the list load() would return: the file, or the seeds
          managed, \* NodeRegistry.nodes
          pool,    \* the pool of the router
          lock,    \* holders of the registry's mutex
          pc, job  \* per handler: its next step, and the change it makes

handlers == <<lock, pc, job>>
vars == <<disk, managed, pool, handlers>>

Jobs == [op : {"add", "remove", "weight", "none"}, node : Nodes \cup Unmanaged]
NoJob == [op |-> "none", node |-> CHOOSE n \in Nodes : TRUE]
Labels == {"idle", "lock", "persist", "apply", "rollback"}

WithWeight(set, g, w) == {IF n.group = g THEN [n EXCEPT !.weight = w] ELSE n : n \in set}

\* The change a job makes, to the list as to the pool.
Changed(set, j) ==
  CASE j.op = "add"    -> set \cup {j.node}
    [] j.op = "remove" -> {n \in set : n.addr # j.node.addr}
    [] j.op = "weight" -> WithWeight(set, j.node.group, j.node.weight)

Init ==
  /\ disk = Seeds
  /\ managed = Seeds
  /\ pool = Seeds \cup Injected
  /\ lock = {}
  /\ pc = [h \in Handlers |-> "idle"]
  /\ job = [h \in Handlers |-> NoJob]

Goto(h, from, to) == pc[h] = from /\ pc' = [pc EXCEPT ![h] = to]
Finish(h, from) == Goto(h, from, "idle") /\ job' = [job EXCEPT ![h] = NoJob]

\* get_node_by_addr returns the first node of an address: a free copy of a
\* managed address always comes after the managed node.
Found(n) == n \in pool /\ (n.group = Free => AddrsOf(pool \ {n}) \cap {n.addr} = {})

-----------------------------------------------------------------------------
\* The handlers look at the pool: 409, 404 and 409 again end them here.

Request(h, op, node) ==
  /\ Goto(h, "idle", "lock")
  /\ job' = [job EXCEPT ![h] = [op |-> op, node |-> node]]
  /\ UNCHANGED <<disk, managed, pool, lock>>

\* The address is compared with the pool as it was spelled; a node that is not
\* valid is refused before the mutex.
RequestAdd(h) ==
  \E r \in Posted :
    /\ r.blanks \/ r.addr \notin AddrsOf(pool)
    /\ Valid(r)
    /\ Request(h, "add", Normalized(r))

RequestRemove(h) ==
  \E n \in pool : Found(n) /\ n.group # Free /\ Request(h, "remove", n)

\* The group is that of the node as it is found now.
RequestWeight(h) ==
  \E n \in pool, w \in Weights :
    w <= MaxWeight /\ Found(n) /\ Request(h, "weight", [n EXCEPT !.weight = w])

-----------------------------------------------------------------------------
\* add, remove and set_group_weight of the registry

\* Mutant: an address in the list is not refused.
AcceptsAnyAddr(j) ==
  /\ j.op = "add" => Cardinality(managed) < MaxManaged
  /\ j.op = "remove" => j.node.addr \in AddrsOf(managed)

Accepts(j) ==
  /\ j.op = "add" => /\ j.node.addr \notin AddrsOf(managed)
                     /\ Cardinality(managed) < MaxManaged
  /\ j.op = "remove" => j.node.addr \in AddrsOf(managed)

\* A weight of a group without managed nodes only goes to the pool.
Persistent(j) == j.op = "weight" => \E n \in managed : n.group = j.node.group

Lock(h) ==
  /\ lock = {}
  /\ \/ /\ Accepts(job[h])
        /\ Goto(h, "lock", IF Persistent(job[h]) THEN "persist" ELSE "apply")
        /\ lock' = {h}
        /\ UNCHANGED job
     \/ ~Accepts(job[h]) /\ Finish(h, "lock") /\ UNCHANGED lock
  /\ UNCHANGED <<disk, managed, pool>>

\* A temporary file and a rename: the whole new list or the old one.
Persist(h) ==
  /\ Goto(h, "persist", "apply")
  /\ disk' = IF KeepsFile THEN Changed(managed, job[h]) ELSE disk
  /\ UNCHANGED <<managed, pool, lock, job>>

\* Mutant: the change is made although it could not be written.
PersistFailureIgnored(h) ==
  Goto(h, "persist", "apply") /\ UNCHANGED <<disk, managed, pool, lock, job>>

PersistFails(h) ==
  /\ KeepsFile /\ Finish(h, "persist")
  /\ lock' = {}
  /\ UNCHANGED <<disk, managed, pool>>

\* What the router makes of it: add_node refuses an address that is in the pool,
\* remove_node one that is not.
Applies(j) ==
  /\ j.op = "add" => j.node.addr \notin AddrsOf(pool)
  /\ j.op = "remove" => j.node.addr \in AddrsOf(pool)

\* The router, then the list in memory; the mutex is released.
Apply(h) ==
  /\ Finish(h, "apply")
  /\ Applies(job[h])
  /\ pool' = Changed(pool, job[h])
  /\ managed' = Changed(managed, job[h])
  /\ lock' = {}
  /\ UNCHANGED disk

Refused(h) ==
  /\ Goto(h, "apply", "rollback")
  /\ ~Applies(job[h])
  /\ UNCHANGED <<disk, managed, pool, lock, job>>

\* The old list is written back; when that fails it is logged.
Rollback(h) ==
  /\ Finish(h, "rollback")
  /\ disk' \in IF KeepsFile THEN {managed, disk} ELSE {disk}
  /\ lock' = {}
  /\ UNCHANGED <<managed, pool>>

-----------------------------------------------------------------------------
\* replace_vendor_nodes by the free pool, and the process

\* Mutant: the fresh nodes replace whatever has their address.
MergeByAddr ==
  /\ \E set \in SUBSET FreeAddrs :
       pool' = {n \in pool : n.group # Free /\ n.addr \notin set}
                 \cup {[addr |-> a, group |-> Free, weight |-> 1] : a \in set}
  /\ UNCHANGED <<disk, managed, handlers>>

\* All free nodes are replaced; addresses are not compared with the others'.
Merge ==
  /\ \E set \in SUBSET FreeAddrs :
       pool' = {n \in pool : n.group # Free}
                 \cup {[addr |-> a, group |-> Free, weight |-> 1] : a \in set}
  /\ UNCHANGED <<disk, managed, handlers>>

\* The process dies and comes back: load, which exits when the list does not pass,
\* and the assembly of the pool.
Restart ==
  /\ Loads(disk)
  /\ managed' = disk
  /\ pool' = disk \cup Injected
  /\ lock' = {}
  /\ pc' = [h \in Handlers |-> "idle"]
  /\ job' = [h \in Handlers |-> NoJob]
  /\ UNCHANGED disk

Handle(h) ==
  \/ RequestAdd(h) \/ RequestRemove(h) \/ RequestWeight(h)
  \/ Lock(h) \/ Persist(h) \/ PersistFails(h)
  \/ Apply(h) \/ Refused(h) \/ Rollback(h)

Next == (\E h \in Handlers : Handle(h)) \/ Merge \/ Restart

Spec == Init /\ [][Next]_vars

-----------------------------------------------------------------------------
\* Properties

\* Every variable keeps its type, and the mutex has one holder: the handler
\* between its checks and its answer.
TypeOK ==
  /\ disk \subseteq Nodes /\ managed \subseteq Nodes
  /\ pool \subseteq Nodes \cup Unmanaged
  /\ pc \in [Handlers -> Labels] /\ job \in [Handlers -> Jobs]
  /\ lock = {h \in Handlers : pc[h] \in {"persist", "apply", "rollback"}}
  /\ \A g, h \in lock : g = h

\* A restart never refuses the file the program itself wrote: whenever it dies,
\* the list on disk has one node per address, no more nodes than allowed and no
\* weight above the limit.
FileLoads == Loads(disk)

\* The pool serves exactly the managed nodes, besides free and injected ones,
\* whatever is merged or refused meanwhile: none is missing, none is left over.
PoolServesManaged == {n \in pool : n.group \in Groups} = managed

\* "The same address must be answered 409 too, or a second node of that address
\* would be added": no POST is turned away by the router after it was written.
AddressTakenIs409 == [][\A h \in Handlers : ~(Refused(h) /\ job[h].op = "add")]_vars

List == INSTANCE NodeList WITH listed <- managed, doubt <- {disk} \ {managed}

\* "An error means the state is unchanged", and OK means it is on disk: the list
\* changes by one operator's change at a time, and a restart brings back the
\* list that was answered, or that list with the one change left in doubt.
ImplementsNodeList == List!Spec
=============================================================================
