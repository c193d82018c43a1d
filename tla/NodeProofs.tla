----------------------------- MODULE NodeProofs -----------------------------
(***************************************************************************)
(* What decides which nodes serve, in three parts.  First the managed      *)
(* nodes, for any addresses, posts, handlers and limits.  What the         *)
(* inductive invariant adds to the properties is what the holder of the    *)
(* mutex may rely on: the list still accepts its change, and once the      *)
(* change is written the file is the list with that change.  The file may  *)
(* otherwise be any list that loads, as a roll-back may fail.              *)
(*                                                                         *)
(* Then the check of one node, for any number of bases, any lengths of     *)
(* names and any changes of the world.  The invariant says, step by step,  *)
(* what is left on the wire, which bases were missed so far, and that what *)
(* the endpoints said is of the base being asked and, if the node          *)
(* conforms, true of some moment between the baseline and now.             *)
(*                                                                         *)
(* Last, the worker of the free pool, for any sources, listings and        *)
(* capacities.  The invariant ties what a run without the check service    *)
(* was told to the lifetimes it left, and what the pool serves to entries  *)
(* no failure has touched outside this run.                                *)
(***************************************************************************)
EXTENDS NodeRegistry, NodeCheck, FreePool, FiniteSetTheorems, TLAPS

\* Every variable keeps its type, whether or not there is a node for NoJob.
Typed ==
  /\ disk \subseteq Nodes /\ managed \subseteq Nodes
  /\ pool \subseteq Nodes \cup Unmanaged
  /\ pc \in [Handlers -> Labels] /\ job \in [Handlers -> Jobs \cup {NoJob}]

Mutex ==
  /\ lock = {h \in Handlers : pc[h] \in {"persist", "apply", "rollback"}}
  /\ \A g, h \in lock : g = h

\* A change that may be made to a list.
Sound(j) ==
  /\ j \in Jobs /\ j.op \in {"add", "remove", "weight"}
  /\ j.op = "add" => j.node \in Registrable
  /\ j.op = "weight" => j.node.weight \in Weights /\ j.node.weight <= MaxWeight

\* A handler past its look at the pool has such a change; past the mutex the list
\* accepts it, and past the file it is written, if it is one of the list.
InHand(h) ==
  /\ pc[h] # "idle" => Sound(job[h])
  /\ pc[h] \in {"persist", "apply", "rollback"} => Accepts(job[h])
  /\ pc[h] = "persist" => Persistent(job[h])
  /\ pc[h] \in {"apply", "rollback"} /\ Persistent(job[h]) /\ KeepsFile
       => disk = Changed(managed, job[h])

\* A list that a start accepts.
Passes(list) == IsFiniteSet(list) /\ Loads(list)

IInv ==
  /\ Typed /\ Mutex
  /\ \A h \in Handlers : InHand(h)
  /\ Passes(disk) /\ Passes(managed)
  /\ PoolServesManaged

-----------------------------------------------------------------------------
\* Nodes and changes

\* What WithWeight makes of one node.
Reweighted(n, g, w) == IF n.group = g THEN [n EXCEPT !.weight = w] ELSE n

\* A new weight changes neither address nor group.
LEMMA ReweightedFields ==
  ASSUME NEW n \in Nodes \cup Unmanaged, NEW g, NEW w \in Weights
  PROVE  /\ Reweighted(n, g, w).addr = n.addr
         /\ Reweighted(n, g, w).group = n.group
         /\ Reweighted(n, g, w).weight \in {w, n.weight}
         /\ n \in Nodes => Reweighted(n, g, w) \in Nodes
         /\ n \in Unmanaged => Reweighted(n, g, w) \in Unmanaged
BY DEF Nodes, Unmanaged, Reweighted

\* Managed nodes are told from the others by their group.
LEMMA GroupsApart ==
  /\ \A n \in Nodes : n.group \in Groups
  /\ \A n \in Unmanaged : n.group \notin Groups
BY GroupNames DEF Nodes, Unmanaged

\* What operators post is a managed node with a legal weight.
LEMMA RegistrableSound ==
  /\ Registrable \subseteq Nodes
  /\ \A n \in Registrable : n.weight <= MaxWeight
  /\ \A r \in Posted : Valid(r) => Normalized(r) \in Registrable
<1>1. Registrable = {Normalized(r) : r \in {p \in Posted : Valid(p)}}
  BY DEF Registrable
<1>2. \A r : Valid(r) => Normalized(r).weight <= MaxWeight
  BY DEF Valid, Normalized
<1>. QED
  BY <1>1, <1>2, SeedNodes

\* The change of a list or pool is one of the same nodes.
LEMMA ChangedType ==
  ASSUME NEW j, Sound(j), NEW set
  PROVE  /\ set \subseteq Nodes => Changed(set, j) \subseteq Nodes
         /\ set \subseteq Nodes \cup Unmanaged => Changed(set, j) \subseteq Nodes \cup Unmanaged
<1>1. CASE j.op = "add"
  BY <1>1, RegistrableSound DEF Sound, Changed
<1>2. CASE j.op = "remove"
  BY <1>2 DEF Changed
<1>3. CASE j.op = "weight"
  <2>1. Changed(set, j) = {Reweighted(n, j.node.group, j.node.weight) : n \in set}
    BY <1>3 DEF Changed, WithWeight, Reweighted
  <2>. QED
    BY <1>3, <2>1, ReweightedFields DEF Sound
<1>. QED
  BY <1>1, <1>2, <1>3 DEF Sound

\* An accepted change of a list that loads is a list that loads.
LEMMA ChangedPasses ==
  ASSUME NEW j, Sound(j), Accepts(j), Passes(managed), managed \subseteq Nodes
  PROVE  Passes(Changed(managed, j))
<1>. DEFINE after == Changed(managed, j)
<1>1. CASE j.op = "add"
  <2>1. after = managed \cup {j.node}
    BY <1>1 DEF Changed
  <2>2. IsFiniteSet(after) /\ Cardinality(after) <= MaxManaged
    <3>1. /\ IsFiniteSet(managed) /\ j.node \notin managed
          /\ Cardinality(managed) < MaxManaged /\ Cardinality(managed) \in Nat
      BY <1>1, FS_CardinalityType DEF Accepts, AddrsOf, Passes
    <3>2. IsFiniteSet(after) /\ Cardinality(after) = Cardinality(managed) + 1
      BY <2>1, <3>1, FS_AddElement
    <3>. QED
      BY <3>1, <3>2, SeedNodes
  <2>3. OnePerAddr(after)
    BY <1>1, <2>1 DEF Accepts, Passes, Loads, OnePerAddr, AddrsOf
  <2>4. \A n \in after : n.weight <= MaxWeight
    BY <1>1, <2>1, RegistrableSound DEF Sound, Passes, Loads
  <2>. QED
    BY <2>2, <2>3, <2>4 DEF Passes, Loads
<1>2. CASE j.op = "remove"
  <2>1. after \subseteq managed
    BY <1>2 DEF Changed
  <2>2. IsFiniteSet(after) /\ Cardinality(after) <= MaxManaged
    <3>1. IsFiniteSet(after) /\ Cardinality(after) <= Cardinality(managed)
      BY <2>1, FS_Subset DEF Passes
    <3>. QED
      BY <3>1, FS_CardinalityType, SeedNodes DEF Passes, Loads
  <2>. QED
    BY <2>1, <2>2 DEF Passes, Loads, OnePerAddr
<1>3. CASE j.op = "weight"
  <2>. DEFINE f == [n \in managed |-> Reweighted(n, j.node.group, j.node.weight)]
  <2>1. after = {Reweighted(n, j.node.group, j.node.weight) : n \in managed}
    BY <1>3 DEF Changed, WithWeight, Reweighted
  <2>2. IsFiniteSet(after) /\ Cardinality(after) <= MaxManaged
    <3>1. f \in Surjection(managed, after)
      BY <2>1 DEF Surjection
    <3>2. IsFiniteSet(after) /\ Cardinality(after) <= Cardinality(managed)
      <4>. HIDE DEF f, after
      <4>. QED
        BY <3>1, FS_Surjection DEF Passes
    <3>. QED
      BY <3>2, FS_CardinalityType, SeedNodes DEF Passes, Loads
  <2>3. OnePerAddr(after)
    BY <1>3, <2>1, ReweightedFields DEF Sound, Passes, Loads, OnePerAddr
  <2>4. \A n \in after : n.weight <= MaxWeight
    BY <1>3, <2>1, ReweightedFields DEF Sound, Passes, Loads
  <2>. QED
    BY <2>2, <2>3, <2>4 DEF Passes, Loads
<1>. QED
  BY <1>1, <1>2, <1>3 DEF Sound

\* A pool that serves the list serves the changed list when it is changed alike.
LEMMA ChangedServes ==
  ASSUME NEW j, Sound(j), PoolServesManaged, Typed
  PROVE  {n \in Changed(pool, j) : n.group \in Groups} = Changed(managed, j)
<1>1. CASE j.op = "add"
  BY <1>1, RegistrableSound, GroupsApart DEF Sound, Changed, PoolServesManaged
<1>2. CASE j.op = "remove"
  BY <1>2 DEF Changed, PoolServesManaged
<1>3. CASE j.op = "weight"
  <2>. DEFINE New(n) == Reweighted(n, j.node.group, j.node.weight)
  <2>1. Changed(pool, j) = {New(n) : n \in pool} /\ Changed(managed, j) = {New(n) : n \in managed}
    BY <1>3 DEF Changed, WithWeight, Reweighted
  <2>2. \A n \in pool : New(n).group = n.group
    BY <1>3, ReweightedFields DEF Sound, Typed
  <2>. QED
    BY <2>1, <2>2 DEF PoolServesManaged
<1>. QED
  BY <1>1, <1>2, <1>3 DEF Sound

\* A change that is not one of the list leaves the list as it is.
LEMMA ChangedNothing ==
  ASSUME NEW j, Sound(j), ~Persistent(j), managed \subseteq Nodes
  PROVE  Changed(managed, j) = managed
BY DEF Persistent, Changed, WithWeight

-----------------------------------------------------------------------------
\* The invariant

LEMMA InitIInv == Init => IInv
<1>. SUFFICES ASSUME Init PROVE IInv
  OBVIOUS
<1>1. Typed
  BY SeedNodes, TestNodes DEF Init, Typed, Labels
<1>2. Mutex
  BY DEF Init, Mutex
<1>3. \A h \in Handlers : InHand(h)
  BY DEF Init, InHand
<1>4. Passes(disk) /\ Passes(managed)
  BY SeedNodes DEF Init, Passes
<1>5. PoolServesManaged
  BY SeedNodes, TestNodes, GroupsApart DEF Init, PoolServesManaged
<1>. QED
  BY <1>1, <1>2, <1>3, <1>4, <1>5 DEF IInv

\* A handler's look at the pool: the change it asks for is a sound one.
LEMMA RequestSound ==
  ASSUME IInv, NEW h \in Handlers, RequestAdd(h) \/ RequestRemove(h) \/ RequestWeight(h)
  PROVE  \E op \in {"add", "remove", "weight"}, n \in Nodes \cup Unmanaged :
           Request(h, op, n) /\ Sound([op |-> op, node |-> n])
<1>1. CASE RequestAdd(h)
  <2>1. PICK r \in Posted : Valid(r) /\ Request(h, "add", Normalized(r))
    BY <1>1 DEF RequestAdd
  <2>. QED
    BY <2>1, RegistrableSound DEF Sound, Jobs
<1>2. CASE RequestRemove(h)
  <2>1. PICK n \in pool : Request(h, "remove", n)
    BY <1>2 DEF RequestRemove
  <2>. QED
    BY <2>1 DEF Sound, Jobs, IInv, Typed
<1>3. CASE RequestWeight(h)
  <2>1. PICK n \in pool, w \in Weights :
          w <= MaxWeight /\ Request(h, "weight", [n EXCEPT !.weight = w])
    BY <1>3 DEF RequestWeight
  <2>2. n \in Nodes \cup Unmanaged
    BY DEF IInv, Typed
  <2>3. [n EXCEPT !.weight = w] \in Nodes \cup Unmanaged /\ [n EXCEPT !.weight = w].weight = w
    BY <2>2 DEF Nodes, Unmanaged
  <2>. QED
    BY <2>1, <2>3 DEF Sound, Jobs
<1>. QED
  BY <1>1, <1>2, <1>3

LEMMA RequestStep ==
  ASSUME IInv, NEW h \in Handlers, RequestAdd(h) \/ RequestRemove(h) \/ RequestWeight(h)
  PROVE  IInv'
<1>1. PICK op \in {"add", "remove", "weight"}, n \in Nodes \cup Unmanaged :
        Request(h, op, n) /\ Sound([op |-> op, node |-> n])
  BY RequestSound
<1>2. Typed' /\ Mutex'
  BY <1>1 DEF IInv, Typed, Mutex, Request, Goto, Labels, Jobs
<1>3. ASSUME NEW g \in Handlers PROVE InHand(g)'
  <2>1. CASE g = h
    BY <1>1, <2>1 DEF IInv, Typed, InHand, Request, Goto
  <2>2. CASE g # h
    BY <1>1, <2>2 DEF IInv, Typed, InHand, Request, Goto, Accepts, Persistent
  <2>. QED
    BY <2>1, <2>2
<1>. QED
  BY <1>1, <1>2, <1>3 DEF IInv, Request, Passes, PoolServesManaged

LEMMA LockStep == ASSUME IInv, NEW h \in Handlers, Lock(h) PROVE IInv'
<1>1. Typed'
  BY DEF IInv, Typed, Lock, Goto, Finish, Labels
<1>2. Mutex'
  BY DEF IInv, Typed, Mutex, Lock, Goto, Finish
<1>3. ASSUME NEW g \in Handlers PROVE InHand(g)'
  <2>1. CASE g = h
    BY <2>1 DEF IInv, Typed, Mutex, InHand, Lock, Goto, Finish, Accepts, Persistent
  <2>2. CASE g # h
    BY <2>2 DEF IInv, Typed, Mutex, InHand, Lock, Goto, Finish, Accepts, Persistent
  <2>. QED
    BY <2>1, <2>2
<1>. QED
  BY <1>1, <1>2, <1>3 DEF IInv, Lock, Passes, PoolServesManaged

\* Who holds the mutex holds it alone: what a step of the holder does to file and
\* list concerns nobody else.
LEMMA OthersWork ==
  ASSUME IInv, NEW h \in lock, NEW g \in Handlers, g # h,
         pc'[g] = pc[g], job'[g] = job[g]
  PROVE  InHand(g)'
<1>1. pc[g] \notin {"persist", "apply", "rollback"}
  BY DEF IInv, Mutex
<1>. QED
  BY <1>1 DEF IInv, InHand

LEMMA PersistStep ==
  ASSUME IInv, NEW h \in Handlers, Persist(h) \/ PersistFails(h)
  PROVE  IInv'
<1>. DEFINE after == Changed(managed, job[h])
<1>1. h \in lock /\ Sound(job[h]) /\ Accepts(job[h]) /\ Persistent(job[h])
  BY DEF IInv, Mutex, InHand, Persist, PersistFails, Goto, Finish
<1>2. after \subseteq Nodes /\ Passes(after)
  BY <1>1, ChangedType, ChangedPasses DEF IInv, Typed
<1>3. UNCHANGED <<managed, pool>> /\ disk' \in {disk, after}
  BY DEF Persist, PersistFails
<1>4. Typed'
  BY <1>2, <1>3 DEF IInv, Typed, Persist, PersistFails, Goto, Finish, Labels
<1>5. Mutex'
  BY DEF IInv, Typed, Mutex, Persist, PersistFails, Goto, Finish
<1>6. ASSUME NEW g \in Handlers PROVE InHand(g)'
  <2>1. CASE g = h
    BY <1>1, <2>1 DEF IInv, Typed, InHand, Persist, PersistFails, Goto, Finish, Accepts, Persistent
  <2>2. CASE g # h
    <3>1. pc'[g] = pc[g] /\ job'[g] = job[g]
      BY <2>2 DEF IInv, Typed, Persist, PersistFails, Goto, Finish
    <3>. QED
      BY <1>1, <2>2, <3>1, OthersWork
  <2>. QED
    BY <2>1, <2>2
<1>. QED
  BY <1>2, <1>3, <1>4, <1>5, <1>6 DEF IInv, Passes, PoolServesManaged

LEMMA ApplyStep ==
  ASSUME IInv, NEW h \in Handlers, Apply(h)
  PROVE  IInv'
<1>1. h \in lock /\ Sound(job[h]) /\ Accepts(job[h])
  BY DEF IInv, Mutex, InHand, Apply, Finish, Goto
<1>2. /\ managed' \subseteq Nodes /\ pool' \subseteq Nodes \cup Unmanaged
      /\ Passes(managed') /\ disk' = disk
  BY <1>1, ChangedType, ChangedPasses DEF IInv, Typed, Apply
<1>3. PoolServesManaged'
  BY <1>1, ChangedServes DEF IInv, PoolServesManaged, Apply
<1>4. Typed' /\ Mutex'
  BY <1>2 DEF IInv, Typed, Mutex, Apply, Finish, Goto, Labels
<1>5. ASSUME NEW g \in Handlers PROVE InHand(g)'
  <2>1. CASE g = h
    BY <2>1 DEF IInv, Typed, InHand, Apply, Finish, Goto
  <2>2. CASE g # h
    <3>1. pc'[g] = pc[g] /\ job'[g] = job[g]
      BY <2>2 DEF IInv, Typed, Apply, Finish, Goto
    <3>. QED
      BY <1>1, <2>2, <3>1, OthersWork
  <2>. QED
    BY <2>1, <2>2
<1>. QED
  BY <1>2, <1>3, <1>4, <1>5 DEF IInv, Passes

LEMMA RefusedStep ==
  ASSUME IInv, NEW h \in Handlers, Refused(h) \/ Rollback(h)
  PROVE  IInv'
<1>1. h \in lock /\ Sound(job[h]) /\ Accepts(job[h])
  BY DEF IInv, Mutex, InHand, Refused, Rollback, Finish, Goto
<1>2. UNCHANGED <<managed, pool>> /\ disk' \in {disk, managed}
  BY DEF Refused, Rollback
<1>3. Typed' /\ Mutex'
  BY <1>2 DEF IInv, Typed, Mutex, Refused, Rollback, Finish, Goto, Labels
<1>4. ASSUME NEW g \in Handlers PROVE InHand(g)'
  <2>1. CASE g = h
    BY <1>1, <2>1 DEF IInv, Typed, InHand, Refused, Rollback, Finish, Goto, Accepts, Persistent
  <2>2. CASE g # h
    <3>1. pc'[g] = pc[g] /\ job'[g] = job[g]
      BY <2>2 DEF IInv, Typed, Refused, Rollback, Finish, Goto
    <3>. QED
      BY <1>1, <2>2, <3>1, OthersWork
  <2>. QED
    BY <2>1, <2>2
<1>. QED
  BY <1>2, <1>3, <1>4 DEF IInv, Passes, PoolServesManaged

\* The free pool's merge replaces nodes of its own group only.
LEMMA MergeStep == ASSUME IInv, Merge PROVE IInv'
<1>1. PICK set \in SUBSET FreeAddrs :
        pool' = {n \in pool : n.group # Free}
                  \cup {[addr |-> a, group |-> Free, weight |-> 1] : a \in set}
  BY DEF Merge
<1>2. Typed' /\ Mutex'
  BY <1>1, GroupNames DEF IInv, Typed, Mutex, Merge, handlers, Unmanaged
<1>3. PoolServesManaged'
  BY <1>1, GroupNames DEF IInv, PoolServesManaged, Merge
<1>4. \A g \in Handlers : InHand(g)'
  BY DEF IInv, InHand, Merge, handlers, Accepts, Persistent
<1>. QED
  BY <1>2, <1>3, <1>4 DEF IInv, Merge, Passes

LEMMA RestartStep == ASSUME IInv, Restart PROVE IInv'
<1>1. Typed' /\ Mutex'
  BY TestNodes DEF IInv, Typed, Mutex, Restart, Labels
<1>2. PoolServesManaged'
  BY TestNodes, GroupsApart DEF IInv, Typed, PoolServesManaged, Restart
<1>3. \A g \in Handlers : InHand(g)'
  BY DEF InHand, Restart
<1>. QED
  BY <1>1, <1>2, <1>3 DEF IInv, Restart, Passes

LEMMA StepIInv == IInv /\ [Next]_vars => IInv'
<1>. SUFFICES ASSUME IInv, [Next]_vars PROVE IInv'
  OBVIOUS
<1>1. CASE UNCHANGED vars
  BY <1>1
     DEF IInv, vars, handlers, Typed, Mutex, InHand, Accepts, Persistent, Passes, PoolServesManaged
<1>2. ASSUME NEW h \in Handlers, Handle(h) PROVE IInv'
  BY <1>2, RequestStep, LockStep, PersistStep, ApplyStep, RefusedStep DEF Handle
<1>. QED
  BY <1>1, <1>2, MergeStep, RestartStep DEF Next

LEMMA RegistryInvariant == Spec => []IInv
BY InitIInv, StepIInv, PTL DEF Spec

-----------------------------------------------------------------------------
\* What follows

\* Every state is well typed and the mutex is held by one handler at most, provided
\* there is a node that NoJob can name.
THEOREM TypeCorrect == ASSUME Nodes # {} PROVE Spec => []TypeOK
<1>1. IInv => TypeOK
  BY DEF IInv, Typed, Mutex, TypeOK, NoJob, Jobs
<1>. QED
  BY <1>1, RegistryInvariant, PTL

\* Whenever the process dies, the next start accepts the list it finds.
THEOREM FileAlwaysLoads == Spec => []FileLoads
<1>1. IInv => FileLoads
  BY DEF IInv, Passes, FileLoads
<1>. QED
  BY <1>1, RegistryInvariant, PTL

\* Between any two steps the pool serves the managed nodes, all and only those,
\* besides free and injected ones.
THEOREM PoolFollowsList == Spec => []PoolServesManaged
<1>1. IInv => PoolServesManaged
  BY DEF IInv
<1>. QED
  BY <1>1, RegistryInvariant, PTL

\* What is written is one operator's change of the list.
LEMMA ChangedOnce ==
  ASSUME NEW j, Sound(j), Accepts(j), Persistent(j), Passes(managed), managed \subseteq Nodes
  PROVE  Changed(managed, j) \in List!OneChange(managed)
<1>1. CASE j.op = "add"
  BY <1>1 DEF Sound, Accepts, Changed, List!OneChange, List!AddrsOf, AddrsOf
<1>2. CASE j.op = "remove"
  <2>1. PICK n \in managed : n.addr = j.node.addr
    BY <1>2 DEF Accepts, AddrsOf
  <2>2. Changed(managed, j) = managed \ {n}
    BY <1>2, <2>1 DEF Changed, Passes, Loads, OnePerAddr
  <2>. QED
    BY <2>2 DEF List!OneChange
<1>3. CASE j.op = "weight"
  <2>1. j.node.group \in Groups /\ j.node.weight \in Weights
    BY <1>3, GroupsApart DEF Sound, Persistent
  <2>2. Changed(managed, j) = List!WithWeight(managed, j.node.group, j.node.weight)
    BY <1>3 DEF Changed, WithWeight, List!WithWeight
  <2>. QED
    BY <2>1, <2>2 DEF List!OneChange
<1>. QED
  BY <1>1, <1>2, <1>3 DEF Sound

\* The registry keeps the promise of NodeList, if it keeps a file: the list changes
\* by one operator's change at a time, and a restart brings back that list or, of a
\* change not answered OK, the list with that change.
THEOREM RegistryImplementsList == ASSUME KeepsFile PROVE Spec => ImplementsNodeList
<1>. USE DEF List!vars
<1>1. Init => List!Init
  BY DEF Init, List!Init
<1>2. IInv /\ [Next]_vars => [List!Next]_(List!vars)
  <2>. SUFFICES ASSUME IInv, [Next]_vars PROVE [List!Next]_(List!vars)
    OBVIOUS
  <2>1. ASSUME UNCHANGED <<disk, managed>> PROVE [List!Next]_(List!vars)
    BY <2>1
  <2>2. ASSUME NEW h \in Handlers, Persist(h) PROVE List!Attempt
    <3>1. Sound(job[h]) /\ Accepts(job[h]) /\ Persistent(job[h])
      BY <2>2 DEF IInv, InHand, Persist, Goto
    <3>2. Changed(managed, job[h]) \in List!OneChange(managed)
      BY <3>1, ChangedOnce DEF IInv, Typed
    <3>. QED
      BY <2>2, <3>2 DEF Persist, List!Attempt
  <2>3. ASSUME NEW h \in Handlers, Apply(h) PROVE [List!Next]_(List!vars)
    <3>1. Sound(job[h]) /\ managed \subseteq Nodes
      BY <2>3 DEF IInv, Typed, InHand, Apply, Finish, Goto
    <3>2. CASE Persistent(job[h])
      <4>1. managed' = disk /\ disk' = disk
        BY <2>3, <3>2 DEF IInv, InHand, Apply, Finish, Goto
      <4>. QED
        BY <4>1 DEF List!Next, List!Settle
    <3>3. CASE ~Persistent(job[h])
      BY <2>1, <2>3, <3>1, <3>3, ChangedNothing DEF Apply
    <3>. QED
      BY <3>2, <3>3
  <2>4. ASSUME NEW h \in Handlers, Rollback(h) PROVE [List!Next]_(List!vars)
    <3>1. managed' = managed /\ disk' \in {managed, disk}
      BY <2>4 DEF Rollback
    <3>. QED
      BY <3>1 DEF List!Next, List!Settle
  <2>5. CASE Restart
    BY <2>5 DEF Restart, List!Next, List!Settle
  <2>6. ASSUME NEW h \in Handlers, Handle(h), ~Persist(h), ~Apply(h), ~Rollback(h)
        PROVE  UNCHANGED <<disk, managed>>
    BY <2>6
       DEF Handle, RequestAdd, RequestRemove, RequestWeight, Request, Lock, PersistFails, Refused
  <2>7. CASE Merge \/ UNCHANGED vars
    BY <2>1, <2>7 DEF Merge, vars
  <2>. QED
    BY <2>1, <2>2, <2>3, <2>4, <2>5, <2>6, <2>7 DEF Next, List!Next
<1>. QED
  BY <1>1, <1>2, RegistryInvariant, PTL DEF Spec, ImplementsNodeList, List!Spec

-----------------------------------------------------------------------------
\* The check of one node

Asking == {"baseline", "body"}

CheckTyped ==
  /\ node \in Peers /\ target \in Targets
  /\ own \in {1, 2} /\ base \in 1..Bases /\ baseline \in {Nothing, 1, 2}

\* The verdict ends the check.
Ends == step = "done" <=> verdict # "none"

\* Only a reply being read leaves bytes on the wire, and as many as will be read.
Stream ==
  /\ step \in Asking \cup {"connect", "greet", "auth", "request", "reply4"} => wire = 0
  /\ step = "bound" =>
       reply \in Replies /\ (node.conforms => wire = BoundBytes(reply))
  /\ StreamAligned

\* Each base was asked for the baseline, and it is from before now.
Baselines ==
  /\ step \in Asking =>
       baseline = Nothing /\ \A b \in 1..Bases : b < base => <<"baseline", b>> \in missed
  /\ step \notin Asking /\ baseline = Nothing => AllMissed("baseline")
  /\ step = "full" => baseline # Nothing
  /\ baseline <= own

\* Which nodes the steps of a handshake are for.
Handshakes ==
  /\ step \in {"greet", "auth", "request", "bound"} => node.proto = "socks5"
  /\ step = "reply4" => node.proto = "socks4"
  /\ Working => step # "auth"

\* What an endpoint says of a node that conforms: true at some moment since the baseline.
True(e, x) ==
  /\ e = "ip" => IF node.exit = "own" THEN x \in baseline..own ELSE x = Elsewhere
  /\ e = "headers" => IF node.discloses THEN x \in baseline..own ELSE x = Elsewhere
  /\ e = "canary" => x = Intact

Answered ==
  /\ step \notin {"full", "done"} => got = NoAnswers
  /\ step = "full" =>
       /\ DOMAIN got \subseteq Endpoints
       /\ \A e \in DOMAIN got : got[e].base = base
       /\ node.conforms => \A e \in DOMAIN got : got[e].ok => True(e, got[e].says)

\* A working node in time fails an endpoint only where the base is missed.
Excused ==
  step = "full" /\ Working /\ ~late =>
    /\ \A b \in 1..Bases : b < base => <<"full", b>> \in missed
    /\ \A e \in DOMAIN got : ~got[e].ok => <<"full", base>> \in missed

CheckInv ==
  /\ CheckTyped /\ Ends /\ Stream /\ Baselines /\ Handshakes /\ Answered /\ Excused
  /\ WorkingNodePasses /\ VerdictIsGrounded

-----------------------------------------------------------------------------
\* Operators

\* The gateway reads as many bytes as the form of the address takes.
LEMMA ReadsWhatIsSent ==
  ASSUME NEW r \in Replies
  PROVE  ToRead(r) = BoundBytes(r) /\ BoundBytes(r) \in Nat
BY LensAssumption DEF Replies, ToRead, BoundBytes

-----------------------------------------------------------------------------
\* The invariant

LEMMA CheckStarts == CheckInit => CheckInv
<1>. SUFFICES ASSUME CheckInit PROVE CheckInv
  OBVIOUS
<1>1. CheckTyped
  BY BasesAssumption DEF CheckInit, CheckTyped, Targets
<1>2. Ends /\ Stream /\ Baselines /\ Handshakes
  BY DEF CheckInit, Ends, Stream, StreamAligned, Baselines, Handshakes, Asking, Nothing
<1>3. Answered /\ Excused /\ WorkingNodePasses /\ VerdictIsGrounded
  BY DEF CheckInit, Answered, Excused, WorkingNodePasses, VerdictIsGrounded
<1>. QED
  BY <1>1, <1>2, <1>3 DEF CheckInv

\* What the check and the world around it leave alone.
LEMMA WorldStep == ASSUME CheckInv, BaseChanges \/ AddressMoves PROVE CheckInv'
<1>1. /\ UNCHANGED <<node, target, account, step, base, baseline, reply, wire, got, anon, verdict,
                     missed, late>>
      /\ step # "done" /\ own' \in {1, 2} /\ own <= own'
  BY DEF CheckInv, CheckTyped, BaseChanges, AddressMoves, handshake, outcome
<1>2. CheckTyped' /\ Ends' /\ Stream' /\ Handshakes' /\ Excused'
  BY <1>1 DEF CheckInv, CheckTyped, Ends, Stream, StreamAligned, Handshakes, Working, Excused
<1>3. Baselines'
  BY <1>1 DEF CheckInv, CheckTyped, Baselines, AllMissed, Nothing
<1>4. Answered'
  <2>1. ASSUME NEW e, NEW x, True(e, x) PROVE True(e, x)'
    BY <1>1, <2>1 DEF CheckInv, CheckTyped, True, Nothing
  <2>. QED
    BY <1>1, <2>1 DEF CheckInv, Answered
<1>5. WorkingNodePasses' /\ VerdictIsGrounded'
  BY <1>1 DEF CheckInv, Ends, WorkingNodePasses, VerdictIsGrounded
<1>. QED
  BY <1>2, <1>3, <1>4, <1>5 DEF CheckInv

LEMMA BaselineStep == ASSUME CheckInv, AskBaseline \/ ReadBaseline PROVE CheckInv'
<1>. USE DEF world, handshake, outcome
<1>1. /\ UNCHANGED <<node, target, account, up, own, reply, wire, got, anon, verdict, late>>
      /\ step \in Asking /\ step' \in Asking \cup {"connect"} /\ base' \in 1..Bases
      /\ missed \subseteq missed'
  BY BasesAssumption DEF CheckInv, CheckTyped, AskBaseline, ReadBaseline, NextBaseline, Miss, Asking
<1>2. Baselines' /\ baseline' \in {Nothing, 1, 2}
  <2>1. CASE NextBaseline
    <3>1. /\ baseline' = baseline /\ baseline = Nothing /\ own' = own
          /\ \A b \in 1..Bases : b < base => <<"baseline", b>> \in missed
      BY <1>1, <2>1 DEF CheckInv, Baselines, NextBaseline
    <3>2. \A b \in 1..Bases : b <= base => <<"baseline", b>> \in missed'
      <4>1. \A b \in 1..Bases : b <= base => b < base \/ b = base
        BY DEF CheckInv, CheckTyped
      <4>. QED
        BY <2>1, <3>1, <4>1 DEF NextBaseline, Miss
    <3>3. CASE base < Bases
      <4>1. step' = "baseline" /\ base' = base + 1
        BY <2>1, <3>3 DEF NextBaseline
      <4>. QED
        BY <3>1, <3>2, <4>1 DEF CheckInv, CheckTyped, Baselines, Asking, Nothing
    <3>4. CASE ~(base < Bases)
      <4>1. step' = "connect" /\ \A b \in 1..Bases : b <= base
        BY <2>1, <3>4, BasesAssumption DEF NextBaseline, CheckInv, CheckTyped
      <4>. QED
        BY <3>1, <3>2, <4>1 DEF CheckInv, CheckTyped, Baselines, AllMissed, Asking, Nothing
    <3>. QED
      BY <3>3, <3>4
  <2>2. CASE step' = "body" /\ UNCHANGED <<base, baseline, missed>>
    BY <1>1, <2>2 DEF CheckInv, CheckTyped, Baselines, AllMissed, Asking, Nothing
  <2>3. CASE step' = "connect" /\ base' = 1 /\ baseline' = own /\ UNCHANGED missed
    BY <1>1, <2>3 DEF CheckInv, CheckTyped, Baselines, AllMissed, Asking, Nothing
  <2>. QED
    BY <2>1, <2>2, <2>3 DEF AskBaseline, ReadBaseline
<1>3. CheckTyped' /\ Ends' /\ Stream' /\ Handshakes' /\ Excused' /\ Answered'
  BY <1>1, <1>2
     DEF CheckInv, CheckTyped, Ends, Stream, StreamAligned, Handshakes, Working, Excused, Answered,
         Asking
<1>4. WorkingNodePasses' /\ VerdictIsGrounded'
  BY <1>1 DEF CheckInv, Ends, WorkingNodePasses, VerdictIsGrounded, Asking
<1>. QED
  BY <1>2, <1>3, <1>4 DEF CheckInv

\* A step of the handshake that goes on to another, or to the gate.
LEMMA GoesStep ==
  ASSUME CheckInv, NEW s \in {"greet", "auth", "request", "reply4", "gate"}, Goes(s),
         step \notin Asking \cup {"full", "done"}, wire = 0,
         s \in {"greet", "auth", "request"} => node.proto = "socks5",
         s = "reply4" => node.proto = "socks4",
         Working => s # "auth"
  PROVE  CheckInv'
<1>1. /\ UNCHANGED <<node, target, account, up, own, base, baseline, reply, wire, got, anon, verdict,
                     missed, late>>
      /\ step' = s
  BY DEF Goes, world, handshake, outcome
<1>2. CheckTyped' /\ Ends' /\ Stream' /\ Handshakes' /\ Excused' /\ Answered'
  BY <1>1
     DEF CheckInv, CheckTyped, Ends, Stream, StreamAligned, Handshakes, Working, Excused, Answered,
         Asking
<1>3. Baselines' /\ WorkingNodePasses' /\ VerdictIsGrounded'
  BY <1>1 DEF CheckInv, Ends, Baselines, AllMissed, WorkingNodePasses, VerdictIsGrounded, Asking
<1>. QED
  BY <1>2, <1>3 DEF CheckInv

\* A failure of the handshake that the node, the clock or the first base explains.
LEMMA FailsStep ==
  ASSUME CheckInv, VerifyFails, step \in Verifying \cup {"gate"},
         missed' \in {missed, missed \cup {<<"target", 1>>}}, late' \in {late, TRUE},
         \/ late'
         \/ ~Working
         \/ Socks /\ <<"target", 1>> \in missed'
         \/ node.proto = "socks4" /\ target = "name" /\ ~node.names
  PROVE  CheckInv'
<1>1. /\ UNCHANGED <<node, target, account, up, own, base, baseline, reply, got, anon>>
      /\ step' = "done" /\ verdict' = "tcp_fail" /\ wire' = 0
  BY DEF VerifyFails, Done, world
<1>2. CheckTyped' /\ Ends' /\ Stream' /\ Handshakes' /\ Excused' /\ Answered'
  BY <1>1
     DEF CheckInv, CheckTyped, Ends, Stream, StreamAligned, Handshakes, Working, Excused, Answered,
         Asking
<1>3. Baselines'
  <2>1. baseline = Nothing => AllMissed("baseline")
    BY DEF CheckInv, Baselines, Verifying, Asking
  <2>2. AllMissed("baseline") => AllMissed("baseline")'
    BY DEF AllMissed
  <2>. QED
    BY <1>1, <2>1, <2>2 DEF CheckInv, Baselines, Asking
<1>4. WorkingNodePasses' /\ VerdictIsGrounded'
  BY <1>1 DEF WorkingNodePasses, VerdictIsGrounded, Working, Socks
<1>. QED
  BY <1>2, <1>3, <1>4 DEF CheckInv

LEMMA ConnectStep == ASSUME CheckInv, Connect PROVE CheckInv'
<1>1. step = "connect" /\ wire = 0
  BY DEF Connect, CheckInv, Stream
<1>2. CASE Goes(AfterConnect)
  <2>1. /\ AfterConnect \in {"gate", "greet", "reply4"}
        /\ AfterConnect = "greet" => node.proto = "socks5"
        /\ AfterConnect = "reply4" => node.proto = "socks4"
    BY DEF AfterConnect, CheckInv, CheckTyped, Peers, Protos
  <2>. QED
    BY <1>1, <1>2, <2>1, GoesStep DEF Asking
<1>3. CASE ~node.conforms /\ VerifyFails /\ UNCHANGED <<missed, late>>
  BY <1>1, <1>3, FailsStep DEF Verifying, Working
<1>. QED
  BY <1>2, <1>3 DEF Connect

LEMMA GreetStep == ASSUME CheckInv, Greet PROVE CheckInv'
<1>1. step = "greet" /\ wire = 0 /\ node.proto = "socks5"
  BY DEF Greet, CheckInv, Stream, Handshakes
<1>2. PICK m \in Methods : \/ Choice(m) # "fail" /\ Goes(Choice(m))
                           \/ /\ Choice(m) = "fail" /\ VerifyFails
                              /\ UNCHANGED <<missed, late>>
  BY DEF Greet
<1>3. Choice(m) \in {"fail", "gate", "request", "auth"}
  BY DEF Choice
<1>4. Working => m = "none" /\ Choice(m) \notin {"fail", "auth"}
  BY DEF Working, Methods, Choice
<1>5. CASE Choice(m) # "fail" /\ Goes(Choice(m))
  BY <1>1, <1>3, <1>4, <1>5, GoesStep DEF Asking
<1>6. CASE Choice(m) = "fail" /\ VerifyFails /\ UNCHANGED <<missed, late>>
  BY <1>1, <1>4, <1>6, FailsStep DEF Verifying
<1>. QED
  BY <1>2, <1>5, <1>6

LEMMA AuthStep == ASSUME CheckInv, Auth PROVE CheckInv'
<1>1. step = "auth" /\ wire = 0 /\ node.proto = "socks5" /\ ~Working
  BY DEF Auth, CheckInv, Stream, Handshakes
<1>2. CASE Goes("request")
  BY <1>1, <1>2, GoesStep DEF Asking
<1>3. CASE VerifyFails /\ UNCHANGED <<missed, late>>
  BY <1>1, <1>3, FailsStep DEF Verifying
<1>. QED
  BY <1>2, <1>3 DEF Auth

LEMMA ConnectRequestStep == ASSUME CheckInv, AskConnect PROVE CheckInv'
<1>1. step = "request" /\ wire = 0 /\ node.proto = "socks5"
  BY DEF AskConnect, CheckInv, Stream, Handshakes
<1>2. CASE VerifyFails /\ Miss("target", 1) /\ UNCHANGED late
  BY <1>1, <1>2, FailsStep DEF Verifying, Miss, Socks
<1>3. CASE /\ \E r \in Replies :
                \E sent \in {BoundBytes(r)} \cup (IF node.conforms THEN {} ELSE {0}) :
                reply' = r /\ wire' = sent
           /\ step' = "bound"
           /\ UNCHANGED <<world, base, baseline, got, outcome, missed, late>>
  <2>1. /\ UNCHANGED <<node, target, account, up, own, base, baseline, got, anon, verdict, missed, late>>
        /\ step' = "bound" /\ reply' \in Replies
        /\ node.conforms => wire' = BoundBytes(reply')
    BY <1>3 DEF world, outcome
  <2>2. Stream'
    <3>1. BoundBytes(reply)' = BoundBytes(reply')
      BY DEF BoundBytes
    <3>. QED
      BY <2>1, <3>1 DEF Stream, StreamAligned, Asking
  <2>3. CheckTyped' /\ Ends' /\ Handshakes' /\ Excused' /\ Answered'
    BY <1>1, <2>1 DEF CheckInv, CheckTyped, Ends, Handshakes, Working, Excused, Answered
  <2>4. Baselines' /\ WorkingNodePasses' /\ VerdictIsGrounded'
    BY <1>1, <2>1
       DEF CheckInv, Ends, Baselines, AllMissed, WorkingNodePasses, VerdictIsGrounded, Asking
  <2>. QED
    BY <2>2, <2>3, <2>4 DEF CheckInv
<1>. QED
  BY <1>2, <1>3 DEF AskConnect

LEMMA ReadBoundStep == ASSUME CheckInv, ReadBound PROVE CheckInv'
<1>1. /\ UNCHANGED <<node, target, account, up, own, base, baseline, reply, got, anon, verdict, missed, late>>
      /\ step = "bound" /\ step' = "gate" /\ wire' = wire - ToRead(reply)
  BY DEF ReadBound, world, outcome
<1>2. node.conforms => wire' = 0
  <2>1. reply \in Replies /\ (node.conforms => wire = BoundBytes(reply))
    BY <1>1 DEF CheckInv, Stream
  <2>2. ToRead(reply) = BoundBytes(reply) /\ BoundBytes(reply) \in Nat
    BY <2>1, ReadsWhatIsSent
  <2>. QED
    BY <1>1, <2>1, <2>2
<1>3. CheckTyped' /\ Ends' /\ Stream' /\ Handshakes' /\ Excused' /\ Answered'
  BY <1>1, <1>2
     DEF CheckInv, CheckTyped, Ends, Stream, StreamAligned, Handshakes, Working, Excused, Answered,
         Asking
<1>4. Baselines' /\ WorkingNodePasses' /\ VerdictIsGrounded'
  BY <1>1 DEF CheckInv, Ends, Baselines, AllMissed, WorkingNodePasses, VerdictIsGrounded, Asking
<1>. QED
  BY <1>3, <1>4 DEF CheckInv

LEMMA Reply4Step == ASSUME CheckInv, Reply4 PROVE CheckInv'
<1>1. step = "reply4" /\ wire = 0 /\ node.proto = "socks4"
  BY DEF Reply4, CheckInv, Stream, Handshakes
<1>2. CASE Goes("gate")
  BY <1>1, <1>2, GoesStep DEF Asking
<1>3. CASE ~Goes("gate")
  <2>1. /\ VerifyFails /\ UNCHANGED late /\ (node.conforms => ~Granted4)
        /\ IF TargetAnswers THEN UNCHANGED missed ELSE Miss("target", 1)
    BY <1>3 DEF Reply4
  <2>. QED
    BY <1>1, <2>1, FailsStep DEF Verifying, Miss, Socks, Working, Granted4
<1>. QED
  BY <1>2, <1>3

LEMMA GateStep == ASSUME CheckInv, Gate PROVE CheckInv'
<1>1. step = "gate"
  BY DEF Gate
<1>2. CASE VerifyFails /\ late' = TRUE /\ UNCHANGED missed
  BY <1>1, <1>2, FailsStep
<1>3. CASE /\ baseline # Nothing /\ step' = "full" /\ base' = 1 /\ wire' = 0
           /\ UNCHANGED <<world, baseline, reply, got, outcome, missed, late>>
  <2>1. /\ UNCHANGED <<node, target, account, up, own, baseline, reply, got, anon, verdict, missed, late>>
        /\ step' = "full" /\ base' = 1 /\ wire' = 0
    BY <1>3 DEF world, outcome
  <2>2. got = NoAnswers
    BY <1>1 DEF CheckInv, Answered
  <2>3. CheckTyped' /\ Ends' /\ Stream' /\ Handshakes' /\ Excused' /\ Answered'
    BY <1>1, <2>1, <2>2, BasesAssumption
       DEF CheckInv, CheckTyped, Ends, Stream, StreamAligned, Handshakes, Working, Excused,
           Answered, Asking, NoAnswers
  <2>4. Baselines' /\ WorkingNodePasses' /\ VerdictIsGrounded'
    BY <1>1, <1>3, <2>1
       DEF CheckInv, Ends, Baselines, AllMissed, WorkingNodePasses, VerdictIsGrounded, Asking
  <2>. QED
    BY <2>3, <2>4 DEF CheckInv
<1>4. CASE /\ baseline = Nothing /\ Done("renew") /\ wire' = 0
           /\ UNCHANGED <<world, base, baseline, reply, got, anon, missed, late>>
  <2>1. /\ UNCHANGED <<node, target, account, up, own, base, baseline, reply, got, anon, missed, late>>
        /\ step' = "done" /\ verdict' = "renew" /\ wire' = 0
    BY <1>4 DEF Done, world
  <2>2. AllMissed("baseline")
    BY <1>1, <1>4 DEF CheckInv, Baselines, Asking
  <2>3. CheckTyped' /\ Ends' /\ Stream' /\ Handshakes' /\ Excused' /\ Answered'
    BY <1>1, <2>1
       DEF CheckInv, CheckTyped, Ends, Stream, StreamAligned, Handshakes, Working, Excused,
           Answered, Asking
  <2>4. Baselines' /\ WorkingNodePasses' /\ VerdictIsGrounded'
    BY <1>1, <2>1, <2>2
       DEF CheckInv, Baselines, AllMissed, WorkingNodePasses, VerdictIsGrounded, Asking
  <2>. QED
    BY <2>3, <2>4 DEF CheckInv
<1>. QED
  BY <1>2, <1>3, <1>4 DEF Gate

\* An endpoint's answer is of the base being asked; what a conforming node relays is
\* true now, and a working node relays it unless the base is down.
LEMMA AnswerSound ==
  ASSUME CheckInv, step = "full", NEW e \in Endpoints, NEW a \in Answers(e)
  PROVE  /\ a.base = base
         /\ node.conforms /\ a.ok => True(e, a.says)
         /\ Working /\ ~a.ok => base \notin up
<1>1. baseline \in {1, 2} /\ own \in {1, 2} /\ baseline <= own
  BY DEF CheckInv, CheckTyped, Baselines
<1>2. own \in baseline..own
  BY <1>1
<1>3. e \in {"ip", "headers", "canary"}
  BY DEF Endpoints
<1>4. True(e, Faithful(e))
  BY <1>2, <1>3 DEF True, Faithful
<1>5. CASE node.conforms
  <2>1. a = IF base \in up /\ ~node.login THEN Says(Faithful(e)) ELSE NoAnswer
    BY <1>5 DEF Answers
  <2>. QED
    BY <1>4, <2>1 DEF Says, NoAnswer, Working
<1>6. CASE ~node.conforms
  BY <1>6 DEF Answers, Says, NoAnswer, Working
<1>. QED
  BY <1>5, <1>6

\* One more answer, or a timer that ran out.
LEMMA AnswerStep ==
  ASSUME CheckInv, NEW e \in Endpoints, Answer(e) \/ AnswerTimeout(e)
  PROVE  CheckInv'
<1>1. /\ UNCHANGED <<node, target, account, up, own, step, base, baseline, reply, wire, anon, verdict>>
      /\ step = "full" /\ verdict = "none" /\ e \notin DOMAIN got /\ missed \subseteq missed'
  BY DEF Answer, AnswerTimeout, world, handshake, outcome, Miss, CheckInv, Ends
<1>2. PICK a : /\ got' = WithAnswer(e, a) /\ a.base = base
               /\ node.conforms /\ a.ok => True(e, a.says)
               /\ Working /\ ~late' /\ ~a.ok => <<"full", base>> \in missed'
  <2>1. CASE Answer(e)
    <3>1. PICK a \in Answers(e) : got' = WithAnswer(e, a)
      BY <2>1 DEF Answer
    <3>2. base \notin up => <<"full", base>> \in missed'
      BY <2>1 DEF Answer, Miss
    <3>. QED
      BY <1>1, <3>1, <3>2, AnswerSound
  <2>2. CASE AnswerTimeout(e)
    BY <2>2 DEF AnswerTimeout, NoAnswer
  <2>. QED
    BY <2>1, <2>2
<1>3. /\ DOMAIN got' = DOMAIN got \cup {e} /\ got'[e] = a
      /\ \A x \in DOMAIN got : got'[x] = got[x]
  BY <1>1, <1>2 DEF WithAnswer
<1>4. late => late'
  BY DEF Answer, AnswerTimeout
<1>5. CheckTyped' /\ Ends' /\ Stream' /\ Handshakes'
  BY <1>1 DEF CheckInv, CheckTyped, Ends, Stream, StreamAligned, Handshakes, Working, Asking
<1>6. Baselines'
  BY <1>1 DEF CheckInv, Baselines, AllMissed, Asking
<1>7. Answered'
  <2>1. \A x, y : True(x, y)' <=> True(x, y)
    BY <1>1 DEF True
  <2>. QED
    BY <1>1, <1>2, <1>3, <2>1 DEF CheckInv, Answered
<1>8. Excused'
  BY <1>1, <1>2, <1>3, <1>4 DEF CheckInv, Excused, Working
<1>9. WorkingNodePasses' /\ VerdictIsGrounded'
  BY <1>1 DEF WorkingNodePasses, VerdictIsGrounded
<1>. QED
  BY <1>5, <1>6, <1>7, <1>8, <1>9 DEF CheckInv

\* The level of a node that conforms, from answers that are true of one address.
LEMMA LevelIsTheNodes ==
  ASSUME CheckInv, step = "full", DOMAIN got = Endpoints, Agreed,
         node.conforms, own = baseline
  PROVE  Classify(baseline, got["ip"].says, got["headers"].says)
           = CASE node.exit = "own" -> "transparent"
               [] node.exit # "own" /\ node.discloses -> "anonymous"
               [] OTHER -> "elite"
<1>1. baseline \in {1, 2} /\ \A x \in baseline..own : x = baseline
  BY DEF CheckInv, CheckTyped, Baselines
<1>2. /\ got["ip"].says = IF node.exit = "own" THEN baseline ELSE Elsewhere
      /\ got["headers"].says = IF node.discloses THEN baseline ELSE Elsewhere
  BY <1>1 DEF CheckInv, Answered, Agreed, Endpoints, True
<1>3. baseline # Nothing /\ baseline # Elsewhere /\ Elsewhere # Nothing
  BY <1>1 DEF Nothing, Elsewhere
<1>4. CASE node.exit = "own"
  BY <1>2, <1>3, <1>4 DEF Classify
<1>5. CASE node.exit # "own" /\ node.discloses
  BY <1>2, <1>3, <1>5 DEF Classify
<1>6. CASE node.exit # "own" /\ ~node.discloses
  BY <1>2, <1>3, <1>6 DEF Classify
<1>. QED
  BY <1>4, <1>5, <1>6

LEMMA JudgeStep == ASSUME CheckInv, Judge PROVE CheckInv'
<1>1. /\ UNCHANGED <<node, target, account, up, own, baseline, reply, wire, missed, late>>
      /\ step = "full" /\ verdict = "none" /\ DOMAIN got = Endpoints
  BY DEF Judge, world, handshake, CheckInv, Ends
<1>2. baseline # Nothing
  BY <1>1 DEF CheckInv, Baselines
<1>3. Working /\ ~late /\ ~Agreed =>
        \A b \in 1..Bases : b <= base => <<"full", b>> \in missed
  <2>. SUFFICES ASSUME Working, ~late, ~Agreed, NEW b \in 1..Bases, b <= base
                PROVE  <<"full", b>> \in missed
    OBVIOUS
  <2>1. b < base => <<"full", b>> \in missed
    BY <1>1 DEF CheckInv, Excused
  <2>2. PICK e \in Endpoints : ~got[e].ok
    <3>1. got["canary"].ok => got["canary"].says = Intact
      BY <1>1 DEF CheckInv, Answered, True, Working, Endpoints
    <3>. QED
      BY <3>1 DEF Agreed, Endpoints
  <2>3. <<"full", base>> \in missed
    BY <1>1, <2>2 DEF CheckInv, Excused
  <2>4. b < base \/ b = base
    BY DEF CheckInv, CheckTyped
  <2>. QED
    BY <2>1, <2>3, <2>4
<1>4. CASE /\ Agreed /\ Done("pass")
           /\ anon' = Classify(baseline, got["ip"].says, got["headers"].says)
           /\ UNCHANGED <<base, got>>
  <2>1. step' = "done" /\ verdict' = "pass"
    BY <1>4 DEF Done
  <2>2. CheckTyped' /\ Ends' /\ Stream' /\ Handshakes' /\ Answered' /\ Excused'
    BY <1>1, <1>4, <2>1
       DEF CheckInv, CheckTyped, Ends, Stream, StreamAligned, Handshakes, Working, Answered,
           Excused, Asking
  <2>3. Baselines' /\ WorkingNodePasses'
    BY <1>1, <1>2, <1>4, <2>1 DEF CheckInv, Baselines, AllMissed, WorkingNodePasses, Asking
  <2>4. VerdictIsGrounded'
    <3>1. \A e \in Endpoints : got[e].ok /\ got[e].base = base
      BY <1>1, <1>4 DEF CheckInv, Answered, Agreed
    <3>2. got["canary"].says = Intact
      BY <1>4 DEF Agreed
    <3>3. node.conforms /\ own = baseline =>
            anon' = CASE node.exit = "own" -> "transparent"
                      [] node.exit # "own" /\ node.discloses -> "anonymous"
                      [] OTHER -> "elite"
      BY <1>1, <1>4, LevelIsTheNodes
    <3>. QED
      BY <1>1, <1>4, <3>1, <3>2, <3>3 DEF VerdictIsGrounded
  <2>. QED
    BY <2>2, <2>3, <2>4 DEF CheckInv
<1>5. CASE ~Agreed /\ NextBase /\ UNCHANGED anon /\ base < Bases
  <2>1. base' = base + 1 /\ got' = NoAnswers /\ step' = "full" /\ verdict' = "none"
    BY <1>1, <1>5 DEF NextBase
  <2>2. CheckTyped' /\ Ends' /\ Stream' /\ Handshakes'
    <3>1. base' \in 1..Bases
      BY <1>5, <2>1, BasesAssumption DEF CheckInv, CheckTyped
    <3>2. CheckTyped'
      BY <1>1, <2>1, <3>1 DEF CheckInv, CheckTyped
    <3>. QED
      BY <1>1, <2>1, <3>2 DEF CheckInv, Ends, Stream, StreamAligned, Handshakes, Working, Asking
  <2>3. Answered' /\ DOMAIN got' = {}
    BY <2>1 DEF Answered, NoAnswers
  <2>4. Excused'
    <3>1. \A b \in 1..Bases : b < base' => b <= base
      BY <2>1 DEF CheckInv, CheckTyped
    <3>. QED
      BY <1>1, <1>3, <1>5, <2>3, <3>1 DEF Excused, Working
  <2>5. Baselines' /\ WorkingNodePasses' /\ VerdictIsGrounded'
    BY <1>1, <1>2, <2>1
       DEF CheckInv, Baselines, AllMissed, WorkingNodePasses, VerdictIsGrounded, Asking
  <2>. QED
    BY <2>2, <2>3, <2>4, <2>5 DEF CheckInv
<1>6. CASE ~Agreed /\ NextBase /\ UNCHANGED anon /\ ~(base < Bases)
  <2>1. step' = "done" /\ verdict' = "full_fail" /\ UNCHANGED <<base, got>>
    BY <1>1, <1>6 DEF NextBase, Done
  <2>2. CheckTyped' /\ Ends' /\ Stream' /\ Handshakes' /\ Answered' /\ Excused'
    BY <1>1, <2>1
       DEF CheckInv, CheckTyped, Ends, Stream, StreamAligned, Handshakes, Working, Answered,
           Excused, Asking
  <2>3. Baselines' /\ VerdictIsGrounded'
    BY <1>1, <1>2, <2>1 DEF CheckInv, Baselines, AllMissed, VerdictIsGrounded, Asking
  <2>4. WorkingNodePasses'
    <3>1. \A b \in 1..Bases : b <= base
      BY <1>6, BasesAssumption DEF CheckInv, CheckTyped
    <3>. QED
      BY <1>1, <1>3, <1>6, <2>1, <3>1 DEF WorkingNodePasses, Working, AllMissed
  <2>. QED
    BY <2>2, <2>3, <2>4 DEF CheckInv
<1>. QED
  BY <1>4, <1>5, <1>6 DEF Judge

LEMMA TimeoutStep == ASSUME CheckInv, VerifyTimeout PROVE CheckInv'
BY FailsStep DEF VerifyTimeout

LEMMA CheckStep == CheckInv /\ [CheckNext]_checkVars => CheckInv'
<1>. SUFFICES ASSUME CheckInv, [CheckNext]_checkVars PROVE CheckInv'
  OBVIOUS
<1>1. CASE UNCHANGED checkVars
  <2>1. \A x, y : True(x, y)' <=> True(x, y)
    BY <1>1 DEF checkVars, world, True
  <2>2. CheckTyped' /\ Ends' /\ Stream' /\ Baselines' /\ Handshakes'
    BY <1>1
       DEF CheckInv, checkVars, world, handshake, outcome, CheckTyped, Ends, Stream, StreamAligned,
           Baselines, AllMissed, Handshakes, Working, BoundBytes
  <2>3. Answered' /\ Excused' /\ WorkingNodePasses' /\ VerdictIsGrounded'
    BY <1>1, <2>1
       DEF CheckInv, checkVars, world, handshake, outcome, Answered, Excused, WorkingNodePasses,
           VerdictIsGrounded, Working, Socks, AllMissed
  <2>. QED
    BY <2>2, <2>3 DEF CheckInv
<1>2. CASE Check
  BY <1>2, BaselineStep, ConnectStep, GreetStep, AuthStep, ConnectRequestStep, ReadBoundStep,
     Reply4Step, TimeoutStep, GateStep, JudgeStep, AnswerStep DEF Check
<1>. QED
  BY <1>1, <1>2, BaselineStep, WorldStep DEF CheckNext

LEMMA CheckInvariant == CheckSpec => []CheckInv
<1>1. CheckInit => CheckInv
  BY CheckStarts
<1>2. CheckInv /\ [CheckNext]_checkVars => CheckInv'
  BY CheckStep
<1>. QED
  BY <1>1, <1>2, PTL DEF CheckSpec

-----------------------------------------------------------------------------
\* What follows

\* A tunnel through a conforming SOCKS server is handed over with nothing of the
\* handshake left unread, for names of any length.
THEOREM TunnelsAligned == CheckSpec => []StreamAligned
<1>1. CheckInv => StreamAligned
  BY DEF CheckInv, Stream
<1>2. CheckSpec => []CheckInv
  BY CheckInvariant
<1>. QED
  BY <1>1, <1>2, PTL

\* For any number of bases that come and go: a node that works and answers in time is
\* failed in the full check only if every base was missed.
THEOREM OneBaseCostsNothing == CheckSpec => []WorkingNodePasses
<1>1. CheckInv => WorkingNodePasses
  BY DEF CheckInv
<1>2. CheckSpec => []CheckInv
  BY CheckInvariant
<1>. QED
  BY <1>1, <1>2, PTL

\* A pass rests on three answers of one base, and a conforming node is rated for what
\* it is unless the gateway's address moved meanwhile.
THEOREM PassesGrounded == CheckSpec => []VerdictIsGrounded
<1>1. CheckInv => VerdictIsGrounded
  BY DEF CheckInv
<1>2. CheckSpec => []CheckInv
  BY CheckInvariant
<1>. QED
  BY <1>1, <1>2, PTL

-----------------------------------------------------------------------------
\* The worker of the free pool

\* What the entries and the nodes made of them consist of.
EntryShape(e) ==
  e = [proto |-> e.proto, source |-> e.source, anon |-> e.anon, fails |-> e.fails, back |-> e.back,
       ttl |-> e.ttl]
NodeShape(n) == n = [addr |-> n.addr, proto |-> n.proto, source |-> n.source, weight |-> n.weight]

Shapes ==
  /\ entries = [a \in Known |-> entries[a]]
  /\ \A a \in Known : EntryShape(entries[a])
  /\ \A n \in freePool \cup snap : NodeShape(n)

\* No run outlasts a lifetime, and nothing is left of it when the worker sleeps.
Runs ==
  /\ phase \in {"sleep", "run", "merge"} /\ elapsed \in Nat
  /\ phase = "run" => elapsed <= MaxRun
  /\ phase = "sleep" => reachable /\ told = {}
  /\ phase # "run" \/ ~reachable => checks = {}

\* What was merged has neither been backed off nor lost its anonymity since, unless it
\* failed in this run: full checks, which would do so, need the check service.
Healthy(a) == entries[a].back = 0 /\ (RequireElite => entries[a].anon = "elite")
StaysHealthy ==
  phase = "sleep" \/ ~reachable =>
    \A a \in Served \cap Known : <<a, "fail">> \notin told => Healthy(a)

\* What answered in a run without the check service has a lifetime from its start.
Renewed ==
  ~reachable =>
    \A a \in Known : <<a, "pass">> \in told =>
      /\ entries[a].ttl \in Nat \ {0}
      /\ phase = "run" => entries[a].ttl = Ttl - elapsed

\* The snapshot is not outdated while it is merged.
SnapIsCurrent ==
  phase = "merge" => {n.addr : n \in snap} = {a \in Known : InPool(a)}

SupplyInv == Shapes /\ Runs /\ StaysHealthy /\ Renewed /\ SnapIsCurrent

LEMMA TimeTypes ==
  Ttl \in Nat /\ Interval \in Nat /\ MaxRun \in Nat /\ MaxRun < Ttl
BY PositiveTimes, RunBound

LEMMA LeastOfTwo ==
  ASSUME NEW x \in Int
  PROVE  /\ x > 0 => Max({x, 0}) = x
         /\ x <= 0 => Max({x, 0}) = 0
BY DEF Max

LEMMA SupplyStarts == ASSUME SupplyInit PROVE SupplyInv
<1>1. Known = {} /\ entries = [a \in {} |-> {}]
  BY DEF SupplyInit, Known
<1>2. entries = [a \in Known |-> entries[a]]
  BY <1>1
<1>3. /\ phase = "sleep" /\ elapsed \in Nat /\ reachable = TRUE
      /\ checks = {} /\ snap = {} /\ told = {} /\ freePool = {}
  BY TimeTypes DEF SupplyInit
<1>4. Shapes
  BY <1>1, <1>2, <1>3 DEF Shapes
<1>5. Runs /\ Renewed /\ SnapIsCurrent
  BY <1>3 DEF Runs, Renewed, SnapIsCurrent
<1>6. StaysHealthy
  BY <1>1 DEF StaysHealthy
<1>. QED
  BY <1>4, <1>5, <1>6 DEF SupplyInv

\* A step that leaves the registry, the run and the addresses in the pool alone.
LEMMA RestStep ==
  ASSUME SupplyInv, UNCHANGED <<entries, phase, elapsed, reachable, checks, snap, told>>,
         Served' = Served, \A n \in freePool' : NodeShape(n)
  PROVE  SupplyInv'
<1>1. Known' = Known /\ \A a : InPool(a)' = InPool(a)
  BY DEF Known, InPool
<1>2. Shapes' /\ Runs'
  BY <1>1 DEF SupplyInv, Shapes, Runs
<1>3. StaysHealthy' /\ Renewed' /\ SnapIsCurrent'
  BY <1>1 DEF SupplyInv, StaysHealthy, Healthy, Renewed, SnapIsCurrent
<1>. QED
  BY <1>2, <1>3 DEF SupplyInv

LEMMA ScaleStep == ASSUME SupplyInv, NEW s \in Sources, Scale(s) PROVE SupplyInv'
<1>1. PICK w : freePool' = {IF n.source = s THEN [n EXCEPT !.weight = w] ELSE n : n \in freePool}
  BY DEF Scale
<1>. DEFINE scaled(n) == IF n.source = s THEN [n EXCEPT !.weight = w] ELSE n
<1>2. \A n \in freePool : scaled(n).addr = n.addr /\ NodeShape(scaled(n))
  BY DEF SupplyInv, Shapes, NodeShape
<1>3. Served' = Served /\ \A n \in freePool' : NodeShape(n)
  <2>1. freePool' = {scaled(n) : n \in freePool}
    BY <1>1
  <2>. HIDE DEF scaled
  <2>2. {n.addr : n \in freePool'} = {n.addr : n \in freePool}
    BY <1>2, <2>1
  <2>. QED
    BY <1>2, <2>1, <2>2 DEF Served
<1>4. UNCHANGED <<entries, phase, elapsed, reachable, checks, snap, told>>
  BY DEF Scale, registry, run
<1>. QED
  BY <1>3, <1>4, RestStep

LEMMA FetchStep == ASSUME SupplyInv, Fetch PROVE SupplyInv'
<1>1. /\ phase = "sleep" /\ phase' = "run" /\ elapsed' = 0 /\ reachable' \in BOOLEAN
      /\ UNCHANGED <<entries, checks, snap, told, freePool>>
  BY DEF Fetch, registry, router
<1>2. Known' = Known /\ Served' = Served
  BY <1>1 DEF Known, Served
<1>3. told = {} /\ checks = {}
  BY <1>1 DEF SupplyInv, Runs
<1>4. Shapes' /\ Runs'
  BY <1>1, <1>2, <1>3, TimeTypes DEF SupplyInv, Shapes, Runs
<1>5. StaysHealthy' /\ Renewed' /\ SnapIsCurrent'
  BY <1>1, <1>2, <1>3 DEF SupplyInv, StaysHealthy, Healthy, Renewed, SnapIsCurrent
<1>. QED
  BY <1>4, <1>5 DEF SupplyInv

LEMMA VerifyPassStep == ASSUME SupplyInv, NEW r, VerifyPass(r) PROVE SupplyInv'
<1>1. phase = "run" /\ UNCHANGED <<phase, elapsed, reachable, snap, freePool>>
  BY DEF VerifyPass, router
<1>2. CASE reachable /\ UNCHANGED <<entries, told>>
  <2>1. Known' = Known
    BY <1>2 DEF Known
  <2>. QED
    BY <1>1, <1>2, <2>1 DEF SupplyInv, Shapes, Runs, StaysHealthy, Renewed, SnapIsCurrent
<1>3. CASE ~reachable /\ Renew(r.addr) /\ Tell(r.addr, "pass") /\ UNCHANGED checks
  <2>1. Left(Ttl) = Ttl - elapsed /\ Ttl - elapsed \in Nat \ {0}
    BY <1>1, TimeTypes, LeastOfTwo DEF Left, SupplyInv, Runs
  <2>2. /\ Known' = Known /\ Served' = Served
        /\ entries' = [b \in Known |-> entries'[b]]
    BY <1>1, <1>3 DEF Known, Served, Renew
  <2>3. \A b \in Known :
          /\ EntryShape(entries'[b])
          /\ entries'[b].back = entries[b].back /\ entries'[b].anon = entries[b].anon
          /\ entries'[b].ttl = IF b = r.addr THEN Ttl - elapsed ELSE entries[b].ttl
    BY <1>3, <2>1 DEF Renew, SupplyInv, Shapes, EntryShape
  <2>4. told' = told \cup {<<r.addr, "pass">>}
    BY <1>3 DEF Tell
  <2>5. Shapes' /\ Runs'
    BY <1>1, <1>3, <2>2, <2>3, <2>4 DEF SupplyInv, Shapes, Runs
  <2>6. StaysHealthy'
    BY <1>1, <1>3, <2>2, <2>3, <2>4 DEF SupplyInv, StaysHealthy, Healthy
  <2>7. Renewed' /\ SnapIsCurrent'
    BY <1>1, <1>3, <2>1, <2>2, <2>3, <2>4 DEF SupplyInv, Renewed, SnapIsCurrent
  <2>. QED
    BY <2>5, <2>6, <2>7 DEF SupplyInv
<1>. QED
  BY <1>2, <1>3 DEF VerifyPass

\* What a failure, at any time, does to a set of entries.
LEMMA FailedEffect ==
  ASSUME NEW set, NEW a, NEW ago, Failed(set, a, ago),
         \A b \in DOMAIN set : EntryShape(set[b])
  PROVE  /\ entries' = [b \in DOMAIN set |-> entries'[b]]
         /\ \A b \in DOMAIN set :
              /\ EntryShape(entries'[b]) /\ entries'[b].ttl = set[b].ttl
              /\ b # a => entries'[b] = set[b]
<1>1. PICK fails, back :
        entries' = [b \in DOMAIN set |->
                      IF b # a THEN set[b] ELSE [set[b] EXCEPT !.fails = fails, !.back = back]]
  <2>. DEFINE fails(b) == Min({set[b].fails + 1, MaxFails + 1})
              back(b) == Max({Backoff(fails(b)) - ago, 0})
  <2>1. entries' = [b \in DOMAIN set |->
          IF b # a THEN set[b] ELSE [set[b] EXCEPT !.fails = fails(b), !.back = back(b)]]
    BY DEF Failed
  <2>. HIDE DEF fails, back
  <2>2. entries' = [b \in DOMAIN set |->
          IF b # a THEN set[b] ELSE [set[b] EXCEPT !.fails = fails(a), !.back = back(a)]]
    BY <2>1
  <2>. QED
    BY <2>2
<1>2. \A b \in DOMAIN set :
        entries'[b] = IF b # a THEN set[b] ELSE [set[b] EXCEPT !.fails = fails, !.back = back]
  BY <1>1
<1>3. ASSUME NEW e, EntryShape(e)
      PROVE  /\ EntryShape([e EXCEPT !.fails = fails, !.back = back])
             /\ [e EXCEPT !.fails = fails, !.back = back].ttl = e.ttl
  <2>. DEFINE failed == [e EXCEPT !.fails = fails]
  <2>1. EntryShape(failed) /\ failed.ttl = e.ttl
    BY <1>3 DEF EntryShape
  <2>. HIDE DEF failed
  <2>2. /\ EntryShape([failed EXCEPT !.back = back])
        /\ [failed EXCEPT !.back = back].ttl = failed.ttl
    BY <2>1 DEF EntryShape
  <2>. QED
    BY <2>1, <2>2 DEF failed
<1>. QED
  BY <1>1, <1>2, <1>3

LEMMA VerifyFailStep == ASSUME SupplyInv, NEW r, VerifyFail(r) PROVE SupplyInv'
<1>1. phase = "run" /\ UNCHANGED <<phase, elapsed, reachable, checks, snap, freePool>>
  BY DEF VerifyFail, router
<1>2. told' = told \cup {<<r.addr, "fail">>}
  BY DEF VerifyFail, Tell
<1>3. /\ entries' = [b \in Known |-> entries'[b]]
      /\ \A b \in Known : /\ EntryShape(entries'[b]) /\ entries'[b].ttl = entries[b].ttl
                          /\ b # r.addr => entries'[b] = entries[b]
  <2>1. Failed(entries, r.addr, elapsed)
    BY DEF VerifyFail
  <2>2. \A b \in DOMAIN entries : EntryShape(entries[b])
    BY DEF SupplyInv, Shapes, Known
  <2>. QED
    BY <2>1, <2>2, FailedEffect DEF Known
<1>4. Known' = Known /\ Served' = Served
  BY <1>1, <1>3 DEF Known, Served
<1>5. Shapes'
  BY <1>1, <1>3, <1>4 DEF SupplyInv, Shapes
<1>6. Runs'
  BY <1>1, <1>2 DEF SupplyInv, Runs
<1>7. StaysHealthy'
  BY <1>1, <1>2, <1>3, <1>4 DEF SupplyInv, StaysHealthy, Healthy
<1>8. Renewed' /\ SnapIsCurrent'
  BY <1>1, <1>2, <1>3, <1>4 DEF SupplyInv, Renewed, SnapIsCurrent
<1>. QED
  BY <1>5, <1>6, <1>7, <1>8 DEF SupplyInv

\* A full check is made of a run with the check service only, and what it writes are
\* entries.
LEMMA FullStep ==
  ASSUME SupplyInv, NEW r \in checks, FullPass(r) \/ FullFail(r)
  PROVE  SupplyInv'
<1>1. phase = "run" /\ reachable /\ UNCHANGED <<phase, elapsed, reachable, snap, freePool>>
  BY DEF FullPass, FullFail, router, SupplyInv, Runs
<1>2. \A b \in DOMAIN entries : EntryShape(entries[b])
  BY DEF SupplyInv, Shapes, Known
<1>3. /\ entries' = [b \in DOMAIN entries' |-> entries'[b]]
      /\ \A b \in DOMAIN entries' : EntryShape(entries'[b])
  <2>1. CASE FullFail(r)
    <3>1. Failed(entries, r.addr, elapsed)
      BY <2>1 DEF FullFail
    <3>. QED
      BY <1>2, <3>1, FailedEffect
  <2>2. CASE FullPass(r)
    <3>1. PICK level, found :
            \E set \in Upserted(r, level) :
              ApplyGeoVerdict(set, r.addr, ObserveGeo(r, found))
      BY <2>2 DEF FullPass
    <3>2. PICK set \in Upserted(r, level) :
            ApplyGeoVerdict(set, r.addr, ObserveGeo(r, found))
      BY <3>1
    <3>3. set = [b \in DOMAIN set |-> set[b]] /\ \A b \in DOMAIN set : EntryShape(set[b])
      <4>1. CASE r.addr \in Known
        <5>1. set = [entries EXCEPT ![r.addr].ttl = Left(Ttl), ![r.addr].fails = 0,
                                    ![r.addr].back = 0, ![r.addr].anon = level]
          BY <3>2, <4>1 DEF Upserted
        <5>. QED
          BY <1>2, <4>1, <5>1 DEF EntryShape, Known
      <4>2. CASE r.addr \notin Known
        <5>. DEFINE all == [a \in Known \cup {r.addr} |->
                              IF a = r.addr THEN NewEntry(r, level) ELSE entries[a]]
        <5>1. \A b \in DOMAIN all : EntryShape(all[b])
          BY <1>2, <4>2 DEF EntryShape, NewEntry, Known
        <5>2. set = all \/ \E a : set = Without(all, a)
          BY <3>2, <4>2 DEF Upserted
        <5>. QED
          BY <5>1, <5>2 DEF Without
      <4>. QED
        BY <4>1, <4>2
    <3>. QED
      BY <3>2, <3>3, FailedEffect DEF ApplyGeoVerdict
  <2>. QED
    BY <2>1, <2>2
<1>. QED
  BY <1>1, <1>3 DEF SupplyInv, Shapes, Runs, StaysHealthy, Renewed, SnapIsCurrent, Known

LEMMA MergeReadStep == ASSUME SupplyInv, MergeRead PROVE SupplyInv'
<1>1. /\ phase = "run" /\ checks = {} /\ phase' = "merge" /\ elapsed' = 0
      /\ UNCHANGED <<entries, reachable, checks, told, freePool>>
  BY DEF MergeRead, registry, router
<1>2. /\ Known' = Known /\ Served' = Served
      /\ \A a : InPool(a)' = InPool(a)
  BY <1>1 DEF Known, Served, InPool
<1>3. /\ {n.addr : n \in snap'} = {a \in Known : InPool(a)}
      /\ \A n \in snap' : NodeShape(n)
  <2>. DEFINE made(a) == [addr |-> a, proto |-> entries[a].proto, source |-> entries[a].source,
                          weight |-> factor[entries[a].source]]
              in == {a \in Known : InPool(a)}
  <2>1. snap' = {made(a) : a \in in}
    BY DEF MergeRead
  <2>2. \A a : made(a).addr = a /\ NodeShape(made(a))
    BY DEF NodeShape
  <2>. HIDE DEF made, in
  <2>3. {n.addr : n \in snap'} = in /\ \A n \in snap' : NodeShape(n)
    BY <2>1, <2>2
  <2>. QED
    BY <2>3 DEF in
<1>4. Shapes' /\ Runs' /\ SnapIsCurrent'
  BY <1>1, <1>2, <1>3 DEF SupplyInv, Shapes, Runs, SnapIsCurrent
<1>5. StaysHealthy' /\ Renewed'
  BY <1>1, <1>2 DEF SupplyInv, StaysHealthy, Healthy, Renewed
<1>. QED
  BY <1>4, <1>5 DEF SupplyInv

LEMMA MergeStoreStep == ASSUME SupplyInv, MergeStore PROVE SupplyInv'
<1>1. /\ phase = "merge" /\ phase' = "sleep" /\ freePool' = snap /\ snap' = {}
      /\ reachable' = TRUE /\ told' = {} /\ UNCHANGED <<entries, elapsed, checks>>
  BY DEF MergeStore, registry, EndRun
<1>2. /\ Known' = Known
      /\ Served' = {a \in Known : InPool(a)}
  BY <1>1 DEF Known, Served, SupplyInv, SnapIsCurrent
<1>3. Shapes' /\ Runs'
  BY <1>1, <1>2 DEF SupplyInv, Shapes, Runs
<1>4. StaysHealthy' /\ Renewed' /\ SnapIsCurrent'
  BY <1>1, <1>2 DEF StaysHealthy, Healthy, Renewed, SnapIsCurrent, InPool
<1>. QED
  BY <1>3, <1>4 DEF SupplyInv

LEMMA PanicStep == ASSUME SupplyInv, WorkerPanics PROVE SupplyInv'
BY TimeTypes
   DEF SupplyInv, WorkerPanics, EndRun, router, Shapes, Runs, StaysHealthy, Renewed, SnapIsCurrent,
       Known, Served

LEMMA TickStep == ASSUME SupplyInv, Tick PROVE SupplyInv'
<1>1. /\ phase \in {"sleep", "run"} /\ elapsed' = elapsed + 1 /\ (phase = "run" => elapsed < MaxRun)
      /\ UNCHANGED <<phase, reachable, checks, snap, told, freePool>>
  BY DEF Tick, router
<1>2. /\ Known' = Known /\ Served' = Served
      /\ entries' = [b \in Known |-> entries'[b]]
  BY <1>1 DEF Known, Served, Tick
<1>3. \A b \in Known :
        /\ EntryShape(entries'[b]) /\ entries'[b].anon = entries[b].anon
        /\ entries'[b].back = Less(entries[b].back)
        /\ entries'[b].ttl = Less(entries[b].ttl)
  <2>1. \A b \in Known :
          entries'[b] = [entries[b] EXCEPT !.ttl = Less(entries[b].ttl),
                                           !.back = Less(entries[b].back)]
    BY DEF Tick
  <2>2. \A b \in Known : EntryShape(entries[b])
    BY DEF SupplyInv, Shapes
  <2>. QED
    BY <2>1, <2>2 DEF EntryShape
<1>4. Less(0) = 0 /\ \A x \in Nat : x > 1 => Less(x) = x - 1
  BY LeastOfTwo DEF Less
<1>5. Shapes' /\ Runs' /\ SnapIsCurrent'
  BY <1>1, <1>2, <1>3, TimeTypes DEF SupplyInv, Shapes, Runs, SnapIsCurrent
<1>6. StaysHealthy'
  BY <1>1, <1>2, <1>3, <1>4 DEF SupplyInv, StaysHealthy, Healthy
<1>7. Renewed'
  <2>. SUFFICES ASSUME ~reachable, NEW a \in Known, <<a, "pass">> \in told
                PROVE  entries'[a].ttl \in Nat \ {0} /\ entries'[a].ttl = Ttl - (elapsed + 1)
    BY <1>1, <1>2 DEF Renewed
  <2>1. phase = "run" /\ elapsed \in Nat /\ elapsed < MaxRun
    BY <1>1 DEF SupplyInv, Runs
  <2>2. entries[a].ttl = Ttl - elapsed /\ entries[a].ttl \in Nat /\ entries[a].ttl > 1
    BY <2>1, TimeTypes DEF SupplyInv, Renewed
  <2>. QED
    BY <1>3, <1>4, <2>1, <2>2, TimeTypes
<1>. QED
  BY <1>5, <1>6, <1>7 DEF SupplyInv

LEMMA SupplyStep == SupplyInv /\ [SupplyNext]_supplyVars => SupplyInv'
<1>. SUFFICES ASSUME SupplyInv, [SupplyNext]_supplyVars PROVE SupplyInv'
  OBVIOUS
<1>1. ASSUME UNCHANGED <<registry, run, freePool>> PROVE SupplyInv'
  <2>1. Served' = Served /\ \A n \in freePool' : NodeShape(n)
    BY <1>1 DEF Served, SupplyInv, Shapes
  <2>. QED
    BY <1>1, <2>1, RestStep DEF registry, run
<1>2. CASE UNCHANGED supplyVars
  BY <1>1, <1>2 DEF supplyVars, router
<1>3. CASE Ask \/ Sweep
  BY <1>1, <1>3 DEF Ask, Sweep, PruneRead, PruneStore, router
<1>4. CASE Verdict
  <2>1. ASSUME NEW s \in Sources, Hold(s) PROVE SupplyInv'
    BY <1>1, <2>1 DEF Hold, router
  <2>. QED
    BY <1>4, <2>1, ScaleStep DEF Verdict
<1>5. CASE CheckListing
  <2>1. ASSUME NEW r, FullPass(r) \/ FullFail(r) PROVE r \in checks
    BY <2>1 DEF FullPass, FullFail
  <2>. QED
    BY <1>5, <2>1, VerifyPassStep, VerifyFailStep, FullStep DEF CheckListing
<1>. QED
  BY <1>2, <1>3, <1>4, <1>5, FetchStep, MergeReadStep, MergeStoreStep, PanicStep, TickStep
     DEF SupplyNext, Work

LEMMA SupplyInvariant == SupplySpec => []SupplyInv
<1>1. SupplyInit => SupplyInv
  BY SupplyStarts
<1>2. SupplyInv /\ [SupplyNext]_supplyVars => SupplyInv'
  BY SupplyStep
<1>. QED
  BY <1>1, <1>2, PTL DEF SupplySpec

\* run_once without its check service: a node that is served, is still known and
\* answered is merged again, however long the run took and whatever failed besides.
THEOREM OutagesCostNothing ==
  SupplySpec => OutageCostsNothing
<1>1. ASSUME SupplyInv, phase = "merge", ~reachable, MergeStore, NEW n \in freePool,
             n.addr \in Known, <<n.addr, "pass">> \in told, <<n.addr, "fail">> \notin told
      PROVE  \E m \in freePool' : m.addr = n.addr
  <2>1. n.addr \in Served
    BY DEF Served
  <2>2. InPool(n.addr)
    BY <1>1, <2>1 DEF SupplyInv, StaysHealthy, Healthy, Renewed, InPool
  <2>3. n.addr \in {m.addr : m \in snap}
    BY <1>1, <2>2 DEF SupplyInv, SnapIsCurrent
  <2>. QED
    BY <1>1, <2>3 DEF MergeStore
<1>2. ASSUME [SupplyNext]_supplyVars, phase = "merge", phase' = "sleep" PROVE MergeStore
  BY <1>2
     DEF supplyVars, run, SupplyNext, Work, Fetch, CheckListing, VerifyPass, VerifyFail, FullPass,
         FullFail, MergeRead, WorkerPanics, Tick, Ask, Verdict, Hold, Scale, Sweep, PruneRead,
         PruneStore
<1>3. SupplyInv /\ [SupplyNext]_supplyVars =>
        [phase = "merge" /\ phase' = "sleep" /\ ~reachable =>
           \A n \in freePool :
             n.addr \in Known /\ <<n.addr, "pass">> \in told /\ <<n.addr, "fail">> \notin told =>
               \E m \in freePool' : m.addr = n.addr]_supplyVars
  BY <1>1, <1>2
<1>4. SupplySpec => []SupplyInv
  BY SupplyInvariant
<1>. QED
  BY <1>3, <1>4, PTL DEF SupplySpec, OutageCostsNothing
==============================================================================
