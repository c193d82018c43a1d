-------------------------- MODULE SelectionProofs ---------------------------
(***************************************************************************)
(* Two parts of selection.  First selection without session: the           *)
(* exploration quota, for any nodes, requests and window.  A tier that has *)
(* missed a whole window is absent from it, and so is every tier a request *)
(* may still look forward to; each turn that goes to another tier is then  *)
(* a pair of that tier and the request that took it, and no pair comes     *)
(* twice, unless two tiers fall out of the window for each other, which    *)
(* needs a turn of every request for all tiers but two.                    *)
(*                                                                         *)
(* Then selection beside writers, for any nodes, sessions and requests.    *)
(* What a selection answers is judged against what was so all along: the   *)
(* addresses noted as gone are out of the pool and of the index now, and   *)
(* those noted as ill are quarantined now, so that neither the binding nor *)
(* the draw can come upon one.  Outside a write the index is the pool's.   *)
(***************************************************************************)
EXTENDS Selection, StickySelect, FiniteSetTheorems, TLAPS

Stages == {"idle", "select", "sent"}

Typed ==
  /\ pool \subseteq Nodes
  /\ window \in Seq(Tiers) /\ Len(window) <= Window
  /\ pc \in [Requests -> Stages]
  /\ allowed \in [Requests -> SUBSET Tiers]
  /\ missed \in [Tiers -> Nat]

OnlyWaiting == \A t \in Tiers : missed[t] > 0 => Waits(t)

\* What a tier has missed is at the end of the window, or is all of it.
MissedLately ==
  \A t \in Tiers :
    /\ \A i \in 1..Len(window) : i + missed[t] > Len(window) => window[i] # t
    /\ Len(window) = Window \/ missed[t] <= Len(window)

\* The last k tiers of the window, and the turns of requests for one of them: a
\* request that may take the tier now has its turn before it.
Recent(k) == {window[i] : i \in {j \in 1..Len(window) : j + k > Len(window)}}
MayTake(r, x) == pc[r] = "select" /\ x \in allowed[r]
Spent(k) == {p \in Recent(k) \X Requests : ~MayTake(p[2], p[1])}

\* The selections of others since a tier was absent from the whole window.
Turns(t) == IF missed[t] < Window THEN 0 ELSE (missed[t] - Window) + 1

TurnsSpent ==
  \A t \in Tiers :
    /\ \A k \in 0..Window : k <= Turns(t) => k <= Cardinality(Spent(k))
    /\ Turns(t) > Window => Turns(t) <= Cardinality(Spent(Window))

Outlasts == Cardinality(Tiers) * Cardinality(Requests) < Window + 2 * Cardinality(Requests)

IInv == Typed /\ OnlyWaiting /\ MissedLately /\ TurnsSpent

-----------------------------------------------------------------------------
\* Finite sets

LEMMA TiersFinite == IsFiniteSet(Tiers) /\ Cardinality(Tiers) \in Nat
<1>1. [n \in Nodes |-> n.tier] \in Surjection(Nodes, Tiers)
  BY DEF Surjection, Tiers
<1>. QED
  BY <1>1, NodesFinite, FS_Surjection, FS_CardinalityType

LEMMA SpentFinite ==
  ASSUME Typed, NEW k \in Nat
  PROVE  /\ Recent(k) \subseteq Tiers
         /\ IsFiniteSet(Spent(k)) /\ Cardinality(Spent(k)) \in Nat
<1>1. Recent(k) \subseteq Tiers
  BY DEF Typed, Recent
<1>2. Spent(k) \in SUBSET (Tiers \X Requests)
  BY <1>1 DEF Spent
<1>3. IsFiniteSet(Tiers \X Requests)
  BY TiersFinite, RequestsFinite, FS_Product
<1>. QED
  BY <1>1, <1>2, <1>3, FS_Subset, FS_CardinalityType

\* The turns of all tiers of a set but one, and but two.
LEMMA TurnsOfOthers ==
  ASSUME NEW t \in Tiers, NEW S \in SUBSET ((Tiers \ {t}) \X Requests)
  PROVE  Cardinality(S) <= (Cardinality(Tiers) - 1) * Cardinality(Requests)
<1>1. Cardinality(Tiers \ {t}) = Cardinality(Tiers) - 1 /\ IsFiniteSet(Tiers \ {t})
  BY TiersFinite, FS_RemoveElement
<1>2. /\ IsFiniteSet((Tiers \ {t}) \X Requests)
      /\ Cardinality((Tiers \ {t}) \X Requests) = (Cardinality(Tiers) - 1) * Cardinality(Requests)
  BY <1>1, RequestsFinite, FS_Product
<1>. QED
  BY <1>2, FS_Subset

LEMMA TurnsOfAllButTwo ==
  ASSUME NEW t \in Tiers, NEW u \in Tiers, t # u,
         NEW S \in SUBSET ((Tiers \ {t, u}) \X Requests)
  PROVE  Cardinality(S) <= (Cardinality(Tiers) - 2) * Cardinality(Requests)
<1>1. Cardinality(Tiers \ {t}) = Cardinality(Tiers) - 1 /\ IsFiniteSet(Tiers \ {t})
  BY TiersFinite, FS_RemoveElement
<1>2. Tiers \ {t, u} = (Tiers \ {t}) \ {u} /\ u \in Tiers \ {t}
  OBVIOUS
<1>3. Cardinality(Tiers \ {t, u}) = Cardinality(Tiers \ {t}) - 1 /\ IsFiniteSet(Tiers \ {t, u})
  BY <1>1, <1>2, FS_RemoveElement
<1>4. Cardinality(Tiers \ {t, u}) = Cardinality(Tiers) - 2
  BY <1>1, <1>3, TiersFinite
<1>5. /\ IsFiniteSet((Tiers \ {t, u}) \X Requests)
      /\ Cardinality((Tiers \ {t, u}) \X Requests) = (Cardinality(Tiers) - 2) * Cardinality(Requests)
  BY <1>3, <1>4, RequestsFinite, FS_Product
<1>. QED
  BY <1>5, FS_Subset

-----------------------------------------------------------------------------
\* What a push does to the window

LEMMA PushWindow ==
  ASSUME Typed, NEW v \in Tiers
  PROVE  /\ Pushed(v) \in Seq(Tiers) /\ Len(Pushed(v)) \in 1..Window
         /\ Pushed(v)[Len(Pushed(v))] = v
         /\ \/ /\ Len(window) < Window /\ Len(Pushed(v)) = Len(window) + 1
               /\ \A i \in 1..Len(window) : Pushed(v)[i] = window[i]
            \/ /\ Len(window) = Window /\ Len(Pushed(v)) = Window
               /\ \A i \in 1..(Window - 1) : Pushed(v)[i] = window[i + 1]
<1>. DEFINE longer == Append(window, v)
<1>1. window \in Seq(Tiers) /\ Len(window) \in Nat /\ Len(window) <= Window /\ Window \in Nat \ {0}
  BY BoundsPos DEF Typed
<1>2. longer \in Seq(Tiers) /\ Len(longer) = Len(window) + 1 /\ longer[Len(window) + 1] = v
      /\ \A i \in 1..Len(window) : longer[i] = window[i]
  BY <1>1
<1>3. Pushed(v) = IF Len(longer) > Window THEN Tail(longer) ELSE longer
  BY DEF Pushed
<1>. HIDE DEF longer
<1>4. CASE Len(window) < Window
  BY <1>1, <1>2, <1>3, <1>4
<1>5. CASE Len(window) = Window
  <2>1. Pushed(v) = Tail(longer)
    BY <1>1, <1>2, <1>3, <1>5
  <2>2. Tail(longer) \in Seq(Tiers) /\ Len(Tail(longer)) = Window
        /\ \A i \in 1..Window : Tail(longer)[i] = longer[i + 1]
    BY <1>1, <1>2, <1>5
  <2>. QED
    BY <1>1, <1>2, <1>5, <2>1, <2>2
<1>. QED
  BY <1>1, <1>4, <1>5

LEMMA PushRecent ==
  ASSUME Typed, NEW v \in Tiers, window' = Pushed(v), NEW k \in 1..Window
  PROVE  Recent(k)' = Recent(k - 1) \cup {v}
<1>. DEFINE L == Len(window)
            M == Len(window')
<1>1. L \in Nat /\ Window \in Nat \ {0} /\ L <= Window /\ M \in 1..Window /\ window'[M] = v
  BY BoundsPos, PushWindow DEF Typed
<1>2. /\ Recent(k)' = {window'[i] : i \in {j \in 1..M : j + k > M}}
      /\ Recent(k - 1) = {window[i] : i \in {j \in 1..L : j + (k - 1) > L}}
  BY DEF Recent
<1>3. CASE L < Window
  <2>1. M = L + 1 /\ \A i \in 1..L : window'[i] = window[i]
    BY <1>1, <1>3, PushWindow
  <2>. HIDE DEF L, M
  <2>. QED
    BY <1>1, <1>2, <2>1
<1>4. CASE L = Window
  <2>1. M = Window /\ \A i \in 1..(Window - 1) : window'[i] = window[i + 1]
    BY <1>1, <1>4, PushWindow
  <2>2. \A i \in 2..Window : window[i] = window'[i - 1]
    <3>1. TAKE i \in 2..Window
    <3>2. i - 1 \in 1..(Window - 1) /\ (i - 1) + 1 = i
      BY <1>1, <3>1
    <3>. QED
      BY <2>1, <3>2
  <2>. HIDE DEF L, M
  <2>3. Recent(k)' \subseteq Recent(k - 1) \cup {v}
    <3>1. SUFFICES ASSUME NEW j \in 1..M, j + k > M, j # M
                   PROVE  window'[j] \in Recent(k - 1)
      BY <1>1, <1>2
    <3>2. j + 1 \in 1..L /\ (j + 1) + (k - 1) > L /\ window'[j] = window[j + 1]
      BY <1>1, <1>4, <2>1, <3>1
    <3>. QED
      BY <1>2, <3>2
  <2>4. Recent(k - 1) \subseteq Recent(k)'
    <3>1. SUFFICES ASSUME NEW j \in 1..L, j + (k - 1) > L PROVE window[j] \in Recent(k)'
      BY <1>2
    <3>2. j \in 2..Window /\ j - 1 \in 1..M /\ (j - 1) + k > M
      BY <1>1, <1>4, <2>1, <3>1
    <3>. QED
      BY <1>2, <2>2, <3>2
  <2>5. v \in Recent(k)'
    BY <1>1, <1>2
  <2>. QED
    BY <2>3, <2>4, <2>5
<1>. QED
  BY <1>1, <1>3, <1>4

\* The oldest of a full window is all that falls out.
LEMMA OldestFalls ==
  ASSUME Typed, Len(window) = Window
  PROVE  Recent(Window) = Recent(Window - 1) \cup {window[1]}
<1>1. Window \in Nat \ {0}
  BY BoundsPos
<1>2. /\ Recent(Window) = {window[i] : i \in {j \in 1..Window : j + Window > Window}}
      /\ Recent(Window - 1) = {window[i] : i \in {j \in 1..Window : j + (Window - 1) > Window}}
  BY DEF Recent
<1>3. \A j \in 1..Window : j + Window > Window /\ (j + (Window - 1) > Window <=> j # 1)
  BY <1>1
<1>. QED
  BY <1>1, <1>2, <1>3

-----------------------------------------------------------------------------
\* The invariant

LEMMA InitIInv == Init => IInv
<1>. SUFFICES ASSUME Init PROVE IInv
  OBVIOUS
<1>1. Typed
  BY BoundsPos DEF Init, Typed, Stages
<1>2. \A t \in Tiers : missed[t] = 0 /\ Turns(t) = 0
  BY BoundsPos DEF Init, Turns
<1>3. OnlyWaiting /\ MissedLately
  BY <1>2, BoundsPos DEF Init, OnlyWaiting, MissedLately
<1>4. TurnsSpent
  BY <1>1, <1>2, SpentFinite, BoundsPos DEF TurnsSpent
<1>. QED
  BY <1>1, <1>3, <1>4 DEF IInv

LEMMA TypedStep == ASSUME Typed, [Next]_vars PROVE Typed'
<1>. USE DEF Stages, tables
<1>1. CASE UNCHANGED <<pool, window, pc, allowed, missed>>
  BY <1>1 DEF Typed
<1>2. ASSUME NEW r \in Requests, CheckQuota(r) PROVE Typed'
  <2>1. Fewest(Absent) \subseteq Tiers
    BY DEF Typed, Fewest, Absent, offered, Tiers
  <2>2. PICK set \in SUBSET Tiers : allowed' = [allowed EXCEPT ![r] = set]
    BY <1>2, <2>1 DEF CheckQuota
  <2>. QED
    BY <1>2, <2>2 DEF CheckQuota, Typed
<1>3. ASSUME NEW r \in Requests, SelectAndPush(r) PROVE Typed'
  <2>1. PICK n \in Candidates(r) :
          /\ window' = Pushed(n.tier)
          /\ missed' = [u \in Tiers |-> IF u = n.tier \/ u \notin offered THEN 0 ELSE missed[u] + 1]
    BY <1>3 DEF SelectAndPush
  <2>2. n.tier \in Tiers
    BY DEF Candidates, Typed, Tiers
  <2>3. window' \in Seq(Tiers) /\ Len(window') <= Window
    BY <2>1, <2>2, PushWindow, BoundsPos
  <2>4. missed' \in [Tiers -> Nat]
    BY <2>1 DEF Typed
  <2>. QED
    BY <1>3, <2>3, <2>4 DEF SelectAndPush, Typed
<1>4. ASSUME NEW r \in Requests, SelectNone(r) PROVE Typed'
  BY <1>4 DEF SelectNone, Typed
<1>5. ASSUME NEW r \in Requests, Answer(r) PROVE Typed'
  BY <1>5 DEF Answer, Typed
<1>6. ASSUME NEW n \in Nodes, RemoveNode(n) PROVE Typed'
  <2>1. missed' \in [Tiers -> Nat]
    BY <1>6 DEF RemoveNode, Typed
  <2>. QED
    BY <1>6, <2>1 DEF RemoveNode, Typed
<1>7. ASSUME NEW n \in Nodes, AddNode(n) PROVE Typed'
  BY <1>7 DEF AddNode, Typed
<1>8. CASE Sweep
  BY <1>1, <1>8 DEF Sweep, PruneRead, PruneStore, Evict
<1>. QED
  BY <1>1, <1>2, <1>3, <1>4, <1>5, <1>6, <1>7, <1>8 DEF Next, Request, vars

\* What a selection counts: everyone waiting but the tier it takes.
LEMMA PushMissed ==
  ASSUME Typed, NEW r \in Requests, SelectAndPush(r)
  PROVE  \E v \in offered \cap allowed[r] :
           /\ v \in Tiers /\ window' = Pushed(v)
           /\ \A u \in Tiers :
                missed'[u] = IF u = v \/ u \notin offered THEN 0 ELSE missed[u] + 1
<1>1. PICK n \in Candidates(r) :
        /\ window' = Pushed(n.tier)
        /\ missed' = [u \in Tiers |-> IF u = n.tier \/ u \notin offered THEN 0 ELSE missed[u] + 1]
  BY DEF SelectAndPush
<1>2. n.tier \in offered \cap allowed[r] /\ n.tier \in Tiers
  BY DEF Candidates, Typed, Tiers, offered
<1>. QED
  BY <1>1, <1>2

LEMMA OfferedFinite ==
  ASSUME Typed
  PROVE  offered \subseteq Tiers /\ IsFiniteSet(offered) /\ Cardinality(offered) \in Nat
<1>1. offered \subseteq Tiers
  BY DEF Typed, offered, Tiers
<1>. QED
  BY <1>1, TiersFinite, FS_Subset, FS_CardinalityType

LEMMA OnlyWaitingStep == ASSUME Typed, OnlyWaiting, [Next]_vars PROVE OnlyWaiting'
<1>. USE DEF tables
<1>1. CASE UNCHANGED <<pool, missed>>
  BY <1>1 DEF OnlyWaiting, Waits, offered
<1>2. ASSUME NEW r \in Requests, SelectAndPush(r) PROVE OnlyWaiting'
  <2>1. PICK v \in offered \cap allowed[r] :
          \A u \in Tiers : missed'[u] = IF u = v \/ u \notin offered THEN 0 ELSE missed[u] + 1
    BY <1>2, PushMissed
  <2>2. offered' = offered
    BY <1>2 DEF SelectAndPush, offered
  <2>3. ASSUME NEW u \in offered, u # v PROVE Cardinality(offered) > 1
    <3>1. {u, v} \in SUBSET offered /\ Cardinality({v}) = 1 /\ IsFiniteSet({v})
      BY <2>3, FS_Singleton
    <3>2. {u, v} = {v} \cup {u} /\ u \notin {v}
      BY <2>3
    <3>3. Cardinality({u, v}) = 2
      <4>1. Cardinality({v} \cup {u}) = Cardinality({v}) + 1
        BY <3>1, <3>2, FS_AddElement
      <4>. QED
        BY <3>1, <3>2, <4>1
    <3>4. Cardinality({u, v}) <= Cardinality(offered)
      BY <3>1, OfferedFinite, FS_Subset
    <3>. QED
      BY <3>3, <3>4, OfferedFinite
  <2>. QED
    BY <2>1, <2>2, <2>3 DEF OnlyWaiting, Waits
<1>3. ASSUME NEW n \in Nodes, RemoveNode(n) PROVE OnlyWaiting'
  BY <1>3 DEF RemoveNode, OnlyWaiting
<1>4. ASSUME NEW n \in Nodes, AddNode(n) PROVE OnlyWaiting'
  <2>1. offered \in SUBSET offered'
    BY <1>4 DEF AddNode, offered
  <2>2. IsFiniteSet(offered') /\ Cardinality(offered') \in Nat
    <3>1. offered' \in SUBSET Tiers
      BY <1>4 DEF AddNode, Typed, offered, Tiers
    <3>. QED
      BY <3>1, TiersFinite, FS_Subset, FS_CardinalityType
  <2>3. Cardinality(offered) <= Cardinality(offered')
    BY <2>1, <2>2, FS_Subset
  <2>. QED
    BY <1>4, <2>1, <2>2, <2>3, OfferedFinite DEF AddNode, OnlyWaiting, Waits
<1>5. ASSUME NEW r \in Requests, CheckQuota(r) \/ SelectNone(r) \/ Answer(r) PROVE OnlyWaiting'
  BY <1>1, <1>5 DEF CheckQuota, SelectNone, Answer
<1>6. CASE Sweep
  BY <1>1, <1>6 DEF Sweep, PruneRead, PruneStore, Evict
<1>. QED
  BY <1>1, <1>2, <1>3, <1>4, <1>5, <1>6 DEF Next, Request, vars

LEMMA MissedLatelyStep == ASSUME Typed, MissedLately, [Next]_vars PROVE MissedLately'
<1>. USE DEF tables
<1>1. Window \in Nat \ {0} /\ Len(window) \in Nat /\ Len(window) <= Window /\ missed \in [Tiers -> Nat]
  BY BoundsPos DEF Typed
<1>2. CASE UNCHANGED <<window, missed>>
  BY <1>2 DEF MissedLately
<1>3. ASSUME NEW r \in Requests, SelectAndPush(r) PROVE MissedLately'
  <2>1. PICK v \in offered \cap allowed[r] :
          /\ v \in Tiers /\ window' = Pushed(v)
          /\ \A u \in Tiers :
               missed'[u] = IF u = v \/ u \notin offered THEN 0 ELSE missed[u] + 1
    BY <1>3, PushMissed
  <2>2. SUFFICES ASSUME NEW t \in Tiers
                 PROVE  /\ \A i \in 1..Len(window') :
                             i + missed'[t] > Len(window') => window'[i] # t
                        /\ Len(window') = Window \/ missed'[t] <= Len(window')
    BY DEF MissedLately
  <2>3. Len(window') \in 1..Window /\ window'[Len(window')] = v
    BY <2>1, PushWindow
  <2>4. \/ /\ Len(window) < Window /\ Len(window') = Len(window) + 1
           /\ \A i \in 1..Len(window) : window'[i] = window[i]
        \/ /\ Len(window) = Window /\ Len(window') = Window
           /\ \A i \in 1..(Window - 1) : window'[i] = window[i + 1]
    BY <2>1, PushWindow
  <2>5. CASE missed'[t] = 0
    BY <1>1, <2>3, <2>5
  <2>6. CASE t # v /\ missed'[t] = missed[t] + 1
    <3>1. \A i \in 1..Len(window) : i + missed[t] > Len(window) => window[i] # t
      BY DEF MissedLately
    <3>2. Len(window) = Window \/ missed[t] <= Len(window)
      BY DEF MissedLately
    <3>3. CASE Len(window) < Window
      <4>1. Len(window') = Len(window) + 1 /\ \A i \in 1..Len(window) : window'[i] = window[i]
        BY <1>1, <2>4, <3>3
      <4>. QED
        BY <1>1, <2>3, <2>6, <3>1, <3>2, <3>3, <4>1
    <3>4. CASE Len(window) = Window
      <4>1. Len(window') = Window /\ \A i \in 1..(Window - 1) : window'[i] = window[i + 1]
        BY <1>1, <2>4, <3>4
      <4>2. ASSUME NEW i \in 1..Len(window'), i + missed'[t] > Len(window') PROVE window'[i] # t
        <5>1. CASE i = Window
          BY <2>3, <2>6, <4>1, <5>1
        <5>2. CASE i # Window
          <6>1. i \in 1..(Window - 1) /\ i + 1 \in 1..Len(window)
            BY <3>4, <4>1, <5>2
          <6>2. (i + 1) + missed[t] > Len(window)
            BY <1>1, <2>6, <3>4, <4>1, <4>2, <6>1
          <6>. QED
            BY <3>1, <4>1, <6>1, <6>2
        <5>. QED
          BY <5>1, <5>2
      <4>. QED
        BY <4>1, <4>2
    <3>. QED
      BY <1>1, <3>3, <3>4
  <2>. QED
    BY <2>1, <2>5, <2>6
<1>4. ASSUME NEW n \in Nodes, RemoveNode(n) PROVE MissedLately'
  <2>1. window' = window /\ \A t \in Tiers : missed'[t] = missed[t] \/ missed'[t] = 0
    BY <1>4 DEF RemoveNode
  <2>. QED
    BY <1>1, <2>1 DEF MissedLately
<1>5. ASSUME NEW n \in Nodes, AddNode(n) PROVE MissedLately'
  BY <1>2, <1>5 DEF AddNode
<1>6. ASSUME NEW r \in Requests, CheckQuota(r) \/ SelectNone(r) \/ Answer(r) PROVE MissedLately'
  BY <1>2, <1>6 DEF CheckQuota, SelectNone, Answer
<1>7. CASE Sweep
  BY <1>2, <1>7 DEF Sweep, PruneRead, PruneStore, Evict
<1>. QED
  BY <1>2, <1>3, <1>4, <1>5, <1>6, <1>7 DEF Next, Request, vars

\* Turns that are spent stay so when nothing is pushed.
LEMMA SpentStays ==
  ASSUME Typed, Typed', TurnsSpent, window' = window,
         \A t \in Tiers : missed'[t] = missed[t] \/ missed'[t] = 0,
         (\E t \in Tiers : missed[t] >= Window) => \A k \in 0..Window : Spent(k) \subseteq Spent(k)'
  PROVE  TurnsSpent'
<1>1. Window \in Nat \ {0} /\ missed \in [Tiers -> Nat]
  BY BoundsPos DEF Typed
<1>2. ASSUME NEW k \in 0..Window
      PROVE  /\ Cardinality(Spent(k)) \in Nat /\ Cardinality(Spent(k)') \in Nat
             /\ Spent(k) \subseteq Spent(k)' => Cardinality(Spent(k)) <= Cardinality(Spent(k)')
  <2>1. IsFiniteSet(Spent(k)')
    <3>1. Spent(k)' \in SUBSET (Tiers \X Requests)
      BY DEF Typed, Spent, Recent
    <3>2. IsFiniteSet(Tiers \X Requests)
      BY TiersFinite, RequestsFinite, FS_Product
    <3>. QED
      BY <3>1, <3>2, FS_Subset
  <2>2. k \in Nat
    BY <1>1
  <2>. QED
    BY <2>1, <2>2, SpentFinite, FS_Subset, FS_CardinalityType
<1>3. ASSUME NEW t \in Tiers, Turns(t)' > 0
      PROVE  Turns(t)' = Turns(t) /\ missed[t] >= Window
  BY <1>1, <1>3 DEF Turns
<1>4. ASSUME NEW t \in Tiers, NEW k \in 0..Window, k <= Turns(t)' PROVE k <= Cardinality(Spent(k)')
  <2>1. CASE k = 0
    BY <1>2, <2>1
  <2>2. CASE k > 0
    <3>1. Turns(t)' = Turns(t) /\ missed[t] >= Window
      BY <1>1, <1>3, <1>4, <2>2 DEF Turns, Typed
    <3>2. k <= Cardinality(Spent(k)) /\ Spent(k) \subseteq Spent(k)'
      BY <1>4, <3>1 DEF TurnsSpent
    <3>. QED
      BY <1>1, <1>2, <3>2
  <2>. QED
    BY <1>1, <2>1, <2>2
<1>5. ASSUME NEW t \in Tiers, Turns(t)' > Window PROVE Turns(t)' <= Cardinality(Spent(Window)')
  <2>1. Turns(t)' \in Nat
    BY <1>1 DEF Turns, Typed
  <2>2. Turns(t)' = Turns(t) /\ missed[t] >= Window
    BY <1>1, <1>3, <1>5, <2>1
  <2>3. Turns(t) <= Cardinality(Spent(Window)) /\ Spent(Window) \subseteq Spent(Window)'
    BY <1>1, <1>5, <2>2 DEF TurnsSpent
  <2>. QED
    BY <1>1, <1>2, <2>1, <2>2, <2>3
<1>. QED
  BY <1>4, <1>5 DEF TurnsSpent

\* Once a tier waits longer than the window, who looks at the window is sent to a
\* tier that is not in it.
LEMMA LookStep ==
  ASSUME Typed, OnlyWaiting, MissedLately, TurnsSpent, NEW r \in Requests, CheckQuota(r)
  PROVE  TurnsSpent'
<1>1. Window \in Nat \ {0} /\ missed \in [Tiers -> Nat] /\ Len(window) \in Nat
  BY BoundsPos DEF Typed
<1>2. Typed'
  BY TypedStep DEF Next
<1>3. ASSUME NEW t \in Tiers, missed[t] >= Window, NEW k \in 0..Window
      PROVE  Spent(k) \subseteq Spent(k)'
  <2>1. Waits(t) /\ \A i \in 1..Len(window) : window[i] # t
    BY <1>1, <1>3 DEF OnlyWaiting, MissedLately, Typed
  <2>2. ToSet(window) = {window[i] : i \in 1..Len(window)}
    BY DEF ToSet, Typed
  <2>3. t \in Absent
    BY <2>1, <2>2 DEF Absent, Waits
  <2>4. Forced
    BY <2>1, <2>3 DEF Forced, Waits
  <2>5. PICK u \in Absent : allowed' = [allowed EXCEPT ![r] = {u}]
    BY <2>4 DEF CheckQuota, Fewest
  <2>6. u \notin Recent(k)
    BY <2>2, <2>5 DEF Absent, Recent
  <2>7. Recent(k)' = Recent(k)
    BY DEF Recent, CheckQuota
  <2>8. ASSUME NEW q \in Requests, NEW x \in Recent(k), MayTake(q, x)' PROVE MayTake(q, x)
    BY <2>5, <2>6, <2>8 DEF MayTake, CheckQuota, Typed
  <2>. QED
    BY <2>7, <2>8 DEF Spent
<1>. QED
  BY <1>1, <1>2, <1>3, SpentStays DEF CheckQuota

LEMMA PushTurns ==
  ASSUME Typed, Typed', MissedLately, MissedLately', TurnsSpent, Outlasts,
         NEW r \in Requests, SelectAndPush(r)
  PROVE  TurnsSpent'
<1>1. Window \in Nat \ {0} /\ missed \in [Tiers -> Nat] /\ Len(window) \in Nat /\ Len(window) <= Window
  BY BoundsPos DEF Typed
<1>2. PICK v \in offered \cap allowed[r] :
        /\ v \in Tiers /\ window' = Pushed(v)
        /\ \A u \in Tiers :
             missed'[u] = IF u = v \/ u \notin offered THEN 0 ELSE missed[u] + 1
  BY PushMissed
<1>3. \A q \in Requests : \A x : MayTake(q, x)' => MayTake(q, x) /\ q # r
  BY DEF SelectAndPush, MayTake, Typed
<1>4. MayTake(r, v)
  BY <1>2 DEF SelectAndPush, MayTake
<1>5. ASSUME NEW k \in 0..Window
      PROVE  Cardinality(Spent(k)) \in Nat /\ IsFiniteSet(Spent(k)') /\ Cardinality(Spent(k)') \in Nat
  <2>1. Spent(k)' \in SUBSET (Tiers \X Requests)
    BY DEF Typed, Spent, Recent
  <2>2. IsFiniteSet(Tiers \X Requests)
    BY TiersFinite, RequestsFinite, FS_Product
  <2>3. IsFiniteSet(Spent(k)')
    BY <2>1, <2>2, FS_Subset
  <2>4. k \in Nat
    BY <1>1
  <2>. QED
    BY <2>3, <2>4, SpentFinite, FS_CardinalityType
<1>6. ASSUME NEW j \in 0..Window, NEW k \in 0..Window, Spent(j) \cup {<<v, r>>} \subseteq Spent(k)'
      PROVE  Cardinality(Spent(j)) + 1 <= Cardinality(Spent(k)')
  <2>1. j \in Nat
    BY <1>1
  <2>2. <<v, r>> \notin Spent(j)
    BY <1>4 DEF Spent
  <2>3. <<v, r>> \notin Spent(j) /\ IsFiniteSet(Spent(j))
    BY <2>1, <2>2, SpentFinite
  <2>4. Cardinality(Spent(j) \cup {<<v, r>>}) = Cardinality(Spent(j)) + 1
    BY <2>3, FS_AddElement
  <2>5. Cardinality(Spent(j) \cup {<<v, r>>}) <= Cardinality(Spent(k)')
    BY <1>5, <1>6, FS_Subset
  <2>. QED
    BY <2>4, <2>5
<1>7. ASSUME NEW k \in 1..Window
      PROVE  Spent(k - 1) \cup {<<v, r>>} \subseteq Spent(k)'
  <2>1. Recent(k)' = Recent(k - 1) \cup {v}
    BY <1>2, PushRecent
  <2>. QED
    BY <1>3, <2>1 DEF Spent
<1>8. ASSUME NEW t \in Tiers, missed'[t] >= Window
      PROVE  t # v /\ missed'[t] = missed[t] + 1
  BY <1>1, <1>2, <1>8
<1>9. ASSUME NEW t \in Tiers, NEW k \in 0..Window, k <= Turns(t)' PROVE k <= Cardinality(Spent(k)')
  <2>1. CASE k = 0
    BY <1>5, <2>1
  <2>2. CASE k \in 1..Window
    <3>1. missed'[t] \in Nat /\ missed[t] \in Nat /\ k \in Nat /\ k > 0
      BY <1>1, <2>2 DEF Typed
    <3>2. missed'[t] >= Window
      BY <1>1, <1>9, <3>1 DEF Turns
    <3>3. k - 1 \in 0..Window /\ k - 1 <= Turns(t)
      BY <1>1, <1>8, <1>9, <2>2, <3>1, <3>2 DEF Turns
    <3>4. k - 1 <= Cardinality(Spent(k - 1))
      BY <3>3 DEF TurnsSpent
    <3>5. Cardinality(Spent(k - 1)) + 1 <= Cardinality(Spent(k)')
      BY <1>7, <1>6, <2>2, <3>3
    <3>6. Cardinality(Spent(k - 1)) \in Nat /\ Cardinality(Spent(k)') \in Nat
      BY <1>5, <3>3
    <3>. QED
      BY <3>1, <3>4, <3>5, <3>6
  <2>. QED
    BY <1>1, <2>1, <2>2
<1>10. ASSUME NEW t \in Tiers, Turns(t)' > Window PROVE Turns(t)' <= Cardinality(Spent(Window)')
  <2>1. missed'[t] \in Nat /\ missed[t] \in Nat /\ Window \in 0..Window
    BY <1>1 DEF Typed
  <2>2. missed'[t] >= Window
    BY <1>1, <1>10, <2>1 DEF Turns
  <2>3. missed'[t] >= Window /\ t # v /\ missed'[t] = missed[t] + 1
    BY <1>8, <2>2
  <2>4. Turns(t)' = Turns(t) + 1 /\ Turns(t) >= Window /\ missed[t] >= Window /\ Turns(t) \in Nat
    BY <1>1, <1>10, <2>1, <2>3 DEF Turns
  <2>5. Turns(t) <= Cardinality(Spent(Window))
    BY <1>1, <2>4 DEF TurnsSpent
  <2>6. Len(window) = Window /\ \A i \in 1..Window : window[i] # t
    BY <1>1, <2>4 DEF MissedLately
  <2>7. /\ Recent(Window) = Recent(Window - 1) \cup {window[1]}
        /\ Recent(Window)' = Recent(Window - 1) \cup {v}
    BY <1>1, <1>2, <2>6, OldestFalls, PushRecent
  <2>8. CASE window[1] \in Recent(Window)'
    <3>1. Spent(Window) \cup {<<v, r>>} \subseteq Spent(Window)'
      BY <1>3, <2>7, <2>8 DEF Spent
    <3>2. Cardinality(Spent(Window)) + 1 <= Cardinality(Spent(Window)')
      BY <1>6, <2>1, <3>1
    <3>3. Cardinality(Spent(Window)) \in Nat /\ Cardinality(Spent(Window)') \in Nat
      BY <1>5, <2>1
    <3>. QED
      BY <2>4, <2>5, <3>2, <3>3
  <2>9. CASE window[1] \notin Recent(Window)'
    <3>1. window[1] \in Tiers /\ window[1] # t
      BY <1>1, <2>6 DEF Typed
    <3>2. t \notin Recent(Window)'
      BY <1>1, <2>3, <2>6, <2>7 DEF Recent
    <3>3. Recent(Window)' \subseteq Tiers
      BY DEF Typed, Recent
    <3>4. Spent(Window)' \subseteq Recent(Window)' \X Requests
      BY DEF Spent
    <3>5. Spent(Window)' \in SUBSET ((Tiers \ {t, window[1]}) \X Requests)
      BY <2>9, <3>2, <3>3, <3>4
    <3>6. Cardinality(Spent(Window)') <= (Cardinality(Tiers) - 2) * Cardinality(Requests)
      BY <3>1, <3>5, TurnsOfAllButTwo
    <3>7. (Cardinality(Tiers) - 2) * Cardinality(Requests) < Window
      BY <1>1, TiersFinite, RequestsFinite, FS_CardinalityType DEF Outlasts
    <3>8. Window <= Cardinality(Spent(Window)')
      BY <1>1, <1>9, <2>4
    <3>9. (Cardinality(Tiers) - 2) * Cardinality(Requests) \in Int /\ Cardinality(Spent(Window)') \in Nat
      BY <1>5, <2>1, TiersFinite, RequestsFinite, FS_CardinalityType
    <3>. QED
      BY <1>1, <3>6, <3>7, <3>8, <3>9
  <2>. QED
    BY <2>8, <2>9
<1>. QED
  BY <1>9, <1>10 DEF TurnsSpent

LEMMA StepIInv == ASSUME Outlasts PROVE IInv /\ [Next]_vars => IInv'
<1>. SUFFICES ASSUME IInv, [Next]_vars PROVE IInv'
  OBVIOUS
<1>. USE DEF tables
<1>1. Typed' /\ OnlyWaiting' /\ MissedLately'
  BY TypedStep, OnlyWaitingStep, MissedLatelyStep DEF IInv
<1>2. ASSUME window' = window, \A t \in Tiers : missed'[t] = missed[t] \/ missed'[t] = 0,
             \A q \in Requests : \A x : MayTake(q, x)' => MayTake(q, x)
      PROVE  TurnsSpent'
  <2>1. \A k \in 0..Window : Spent(k) \subseteq Spent(k)'
    BY <1>2 DEF Spent, Recent
  <2>. QED
    BY <1>1, <1>2, <2>1, SpentStays DEF IInv
<1>3. ASSUME NEW r \in Requests, CheckQuota(r) PROVE TurnsSpent'
  BY <1>3, LookStep DEF IInv
<1>4. ASSUME NEW r \in Requests, SelectAndPush(r) PROVE TurnsSpent'
  BY <1>1, <1>4, PushTurns DEF IInv
<1>5. ASSUME NEW r \in Requests, SelectNone(r) \/ Answer(r) PROVE TurnsSpent'
  BY <1>2, <1>5 DEF SelectNone, Answer, MayTake, IInv, Typed
<1>6. ASSUME NEW n \in Nodes, RemoveNode(n) \/ AddNode(n) PROVE TurnsSpent'
  BY <1>2, <1>6 DEF RemoveNode, AddNode, MayTake
<1>7. ASSUME Sweep \/ UNCHANGED vars PROVE TurnsSpent'
  <2>1. UNCHANGED <<window, missed, pc, allowed>>
    BY <1>7 DEF Sweep, PruneRead, PruneStore, Evict, vars
  <2>2. \A q \in Requests : \A x : MayTake(q, x)' => MayTake(q, x)
    BY <2>1 DEF MayTake
  <2>3. \A t \in Tiers : missed'[t] = missed[t] \/ missed'[t] = 0
    BY <2>1
  <2>. QED
    BY <1>2, <2>1, <2>2, <2>3
<1>. QED
  BY <1>1, <1>3, <1>4, <1>5, <1>6, <1>7 DEF Next, Request, IInv

LEMMA QuotaFollows == ASSUME Outlasts, IInv PROVE QuotaBound
<1>1. Window \in Nat \ {0} /\ missed \in [Tiers -> Nat] /\ Len(window) \in Nat /\ Len(window) <= Window
  BY BoundsPos DEF IInv, Typed
<1>. DEFINE others == (Cardinality(Tiers) - 1) * Cardinality(Requests)
<1>. SUFFICES ASSUME NEW t \in Tiers PROVE missed[t] < Window + others
  BY OfferedFinite DEF QuotaBound, IInv
<1>2. others \in Int /\ others >= 0
  <2>1. Cardinality({}) <= others
    BY TurnsOfOthers
  <2>. QED
    BY <2>1, TiersFinite, RequestsFinite, FS_EmptySet, FS_CardinalityType
<1>3. CASE missed[t] < Window
  BY <1>1, <1>2, <1>3
<1>4. CASE missed[t] >= Window
  <2>1. \A i \in 1..Len(window) : window[i] # t
    BY <1>1, <1>4 DEF IInv, MissedLately
  <2>2. ASSUME NEW k \in 0..Window
        PROVE  Cardinality(Spent(k)) <= others /\ Cardinality(Spent(k)) \in Nat
    <3>1. Spent(k) \in SUBSET ((Tiers \ {t}) \X Requests)
      BY <2>1 DEF Spent, Recent, IInv, Typed
    <3>. QED
      BY <1>1, <3>1, TurnsOfOthers, SpentFinite DEF IInv
  <2>3. Turns(t) = (missed[t] - Window) + 1
    BY <1>1, <1>4 DEF Turns
  <2>4. CASE Turns(t) <= Window
    <3>1. Turns(t) \in 0..Window
      BY <1>1, <1>4, <2>3, <2>4
    <3>2. Turns(t) <= Cardinality(Spent(Turns(t)))
      BY <3>1 DEF IInv, TurnsSpent
    <3>3. Cardinality(Spent(Turns(t))) <= others /\ Cardinality(Spent(Turns(t))) \in Nat
      BY <2>2, <3>1
    <3>4. missed[t] \in Nat /\ Turns(t) <= others
      BY <1>1, <1>2, <3>1, <3>2, <3>3
    <3>. HIDE DEF others
    <3>. QED
      BY <1>1, <1>2, <2>3, <3>4
  <2>5. CASE Turns(t) > Window
    <3>1. Turns(t) <= Cardinality(Spent(Window))
      BY <2>5 DEF IInv, TurnsSpent
    <3>2. Cardinality(Spent(Window)) <= others /\ Cardinality(Spent(Window)) \in Nat
      BY <1>1, <2>2
    <3>3. missed[t] \in Nat /\ Turns(t) <= others
      BY <1>1, <1>2, <2>3, <3>1, <3>2
    <3>. HIDE DEF others
    <3>. QED
      BY <1>1, <1>2, <2>3, <3>3
  <2>. QED
    BY <1>1, <2>3, <2>4, <2>5
<1>. QED
  BY <1>1, <1>3, <1>4

\* Between the look of tier_quota_forced_tier and the push of select_node_excluding
\* any other request may look and push; a tier with candidates is still taken within
\* a window and a turn of each request for each other tier.
THEOREM QuotaHolds == Spec => []QuotaBound
<1>1. CASE Outlasts
  <2>1. IInv /\ [Next]_vars => IInv'
    BY <1>1, StepIInv
  <2>2. IInv => QuotaBound
    BY <1>1, QuotaFollows
  <2>. QED
    BY <2>1, <2>2, InitIInv, PTL DEF Spec
<1>2. CASE ~Outlasts
  <2>1. QuotaBound
    BY <1>2 DEF Outlasts, QuotaBound
  <2>. QED
    BY <2>1, PTL
<1>. QED
  BY <1>1, <1>2

-----------------------------------------------------------------------------
\* Selection beside writers

\* The types the argument needs; Idle may name no request.
StickyTyped ==
  /\ pools \subseteq Registered
  /\ access \in [Selectors -> Labels]
  /\ DOMAIN ctx = Selectors /\ ctx = [r \in Selectors |-> ctx[r]]
  /\ \A r \in Selectors : access[r] # "idle" => ctx[r].spec \in Specs
  /\ pick = [r \in Selectors |-> pick[r]]
  /\ gone = [r \in Selectors |-> gone[r]]
  /\ ill = [r \in Selectors |-> ill[r]]

\* What was so all along is so now.
StillSo(r) == ill[r] \subseteq quarantined /\ \A a \in gone[r] : Out(a)

IndexOfPool == ~locked => buckets = Index(pools)

StickyInv ==
  /\ StickyTyped /\ IndexOfPool /\ NoOutdatedAnswer
  /\ \A r \in Selectors : StillSo(r)

-----------------------------------------------------------------------------
\* The invariant

LEMMA StickyStarts == StickyInit => StickyInv
BY DEF StickyInit, StickyInv, StickyTyped, Labels, IndexOfPool, StillSo, NoOutdatedAnswer

\* The first half of a write takes back what it makes usable; the index cannot.
LEMMA StorePoolsStep ==
  ASSUME StickyInv, NEW next \in SUBSET Registered, StorePools(next)
  PROVE  StickyInv'
<1>1. StickyTyped' /\ IndexOfPool'
  BY DEF StickyInv, StickyTyped, IndexOfPool, StorePools, request
<1>2. ASSUME NEW r \in Selectors PROVE StillSo(r)'
  <2>1. /\ gone'[r] = {a \in gone[r] : ~Usable(next, a)}
        /\ UNCHANGED <<quarantined, buckets, ill>>
    BY DEF StorePools
  <2>2. pools' = next
    BY DEF StorePools
  <2>. QED
    BY <2>1, <2>2 DEF StickyInv, StillSo, Out
<1>3. NoOutdatedAnswer'
  BY DEF StickyInv, NoOutdatedAnswer, StorePools, request
<1>. QED
  BY <1>1, <1>2, <1>3 DEF StickyInv

LEMMA WriteStep == ASSUME StickyInv, Write PROVE StickyInv'
<1>1. ASSUME NEW n \in Registered, StoreAdded(n) \/ StoreRemoved(n) PROVE StickyInv'
  <2>1. pools \cup {n} \in SUBSET Registered /\ pools \ {n} \in SUBSET Registered
    BY DEF StickyInv, StickyTyped
  <2>. QED
    BY <1>1, <2>1, StorePoolsStep DEF StoreAdded, StoreRemoved
<1>2. ASSUME NEW m \in Registered, NEW n \in Registered, ReplaceNode(m, n) PROVE StickyInv'
  <2>1. (pools \ {m}) \cup {n} \in SUBSET Registered
    BY DEF StickyInv, StickyTyped
  <2>. QED
    BY <1>2, <2>1, StorePoolsStep DEF ReplaceNode
<1>3. CASE StoreIndexes
  <2>1. StickyTyped' /\ IndexOfPool' /\ NoOutdatedAnswer'
    BY <1>3 DEF StickyInv, StickyTyped, IndexOfPool, NoOutdatedAnswer, StoreIndexes, request, ghosts
  <2>2. ASSUME NEW r \in Selectors PROVE StillSo(r)'
    BY <1>3 DEF StickyInv, StillSo, StoreIndexes, ghosts, Out, Usable, At, Index
  <2>. QED
    BY <2>1, <2>2 DEF StickyInv
<1>4. ASSUME NEW a \in Addresses, SetQuarantine(a) \/ LiftQuarantine(a)
      PROVE  StickyInv'
  <2>1. StickyTyped' /\ IndexOfPool' /\ NoOutdatedAnswer'
    BY <1>4
       DEF StickyInv, StickyTyped, IndexOfPool, NoOutdatedAnswer, SetQuarantine, LiftQuarantine,
           published, request, ghosts
  <2>2. ASSUME NEW r \in Selectors PROVE StillSo(r)'
    BY <1>4
       DEF StickyInv, StickyTyped, StillSo, SetQuarantine, LiftQuarantine, published, ghosts, Out
  <2>. QED
    BY <2>1, <2>2 DEF StickyInv
<1>. QED
  BY <1>1, <1>2, <1>3, <1>4 DEF Write

LEMMA BeginStep == ASSUME StickyInv, NEW r \in Selectors, Begin(r) PROVE StickyInv'
<1>1. StickyTyped' /\ IndexOfPool'
  <2>1. PICK s \in Specs : ctx' = [ctx EXCEPT ![r] = [spec |-> s, at |-> now]]
    BY DEF Begin
  <2>2. IndexOfPool' /\ pools' \subseteq Registered
    BY DEF StickyInv, StickyTyped, IndexOfPool, Begin, published
  <2>3. DOMAIN ctx' = Selectors /\ ctx' = [q \in Selectors |-> ctx'[q]]
    BY <2>1 DEF StickyInv, StickyTyped
  <2>4. \A q \in Selectors : access'[q] # "idle" => ctx'[q].spec \in Specs
    BY <2>1 DEF StickyInv, StickyTyped, Begin, Goto
  <2>5. access' \in [Selectors -> Labels]
    BY DEF StickyInv, StickyTyped, Begin, Goto, Labels
  <2>6. pick' = [q \in Selectors |-> pick'[q]] /\ ill' = [q \in Selectors |-> ill'[q]]
    BY DEF StickyInv, StickyTyped, Begin
  <2>7. gone' = [q \in Selectors |-> gone'[q]]
    BY DEF StickyInv, StickyTyped, Begin
  <2>. QED
    BY <2>2, <2>3, <2>4, <2>5, <2>6, <2>7 DEF StickyTyped
<1>2. ASSUME NEW q \in Selectors PROVE StillSo(q)'
  BY DEF StickyInv, StickyTyped, StillSo, Begin, published, Out
<1>3. NoOutdatedAnswer'
  BY DEF StickyInv, StickyTyped, NoOutdatedAnswer, Begin
<1>. QED
  BY <1>1, <1>2, <1>3 DEF StickyInv

\* A step of a selection that has begun changes neither pool nor quarantine: it is
\* sound if what it picks is in use and healthy now.
LEMMA PickStep ==
  ASSUME StickyInv, StickyTyped', NEW r \in Selectors,
         UNCHANGED <<published, quarantined, ghosts>>,
         \A q \in Selectors : \A n \in pick'[q] :
           n \in pick[q] \/ (n.addr \notin quarantined /\ ~Out(n.addr))
  PROVE  StickyInv'
<1>1. IndexOfPool' /\ \A q \in Selectors : StillSo(q)'
  BY DEF StickyInv, IndexOfPool, StillSo, published, ghosts, Out
<1>2. NoOutdatedAnswer'
  BY DEF StickyInv, NoOutdatedAnswer, StillSo, ghosts
<1>. QED
  BY <1>1, <1>2 DEF StickyInv

LEMMA SelectStep == ASSUME StickyInv, NEW r \in Selectors, Select(r) PROVE StickyInv'
<1>. USE DEF Goto, Forget, Labels, published, request,
             ghosts
<1>1. CASE AnswerBound(r)
  <2>1. StickyTyped' /\ UNCHANGED <<published, quarantined, ghosts>>
    BY <1>1 DEF StickyInv, StickyTyped, AnswerBound
  <2>2. \A q \in Selectors : \A n \in pick'[q] :
          n \in pick[q] \/ (n.addr \notin quarantined /\ ~Out(n.addr))
    BY <1>1 DEF StickyInv, StickyTyped, AnswerBound, StickyHit, Out
  <2>. QED
    BY <2>1, <2>2, PickStep
<1>2. CASE Draw(r)
  <2>1. PICK n \in Eligible(ctx[r].spec) : pick' = [pick EXCEPT ![r] = {n}]
    BY <1>2 DEF Draw
  <2>2. StickyTyped' /\ UNCHANGED <<published, quarantined, ghosts>>
    BY <1>2, <2>1 DEF StickyInv, StickyTyped, Draw
  <2>3. n.addr \notin quarantined /\ ~Out(n.addr)
    BY <2>1 DEF Eligible, Matches, Out, Usable, At
  <2>4. \A q \in Selectors : \A m \in pick'[q] :
          m \in pick[q] \/ (m.addr \notin quarantined /\ ~Out(m.addr))
    BY <2>1, <2>3 DEF StickyInv, StickyTyped
  <2>. QED
    BY <2>2, <2>4, PickStep
<1>3. CASE \/ MissSticky(r) \/ AnswerNone(r)
           \/ AdmitSession(r) \/ BindSession(r)
  <2>1. StickyTyped' /\ UNCHANGED <<published, quarantined, ghosts, pick>>
    BY <1>3 DEF StickyInv, StickyTyped, MissSticky, AnswerNone, AdmitSession, BindSession
  <2>. QED
    BY <2>1, PickStep
<1>. QED
  BY <1>1, <1>2, <1>3, BeginStep DEF Select

LEMMA StickyStep == StickyInv /\ [StickyNext]_stickyVars => StickyInv'
<1>. SUFFICES ASSUME StickyInv, [StickyNext]_stickyVars PROVE StickyInv'
  OBVIOUS
<1>1. ASSUME UNCHANGED <<published, quarantined, request, ghosts>>
      PROVE  StickyInv'
  BY <1>1
     DEF StickyInv, StickyTyped, IndexOfPool, StillSo, Out, NoOutdatedAnswer, published, request,
         ghosts
<1>2. ASSUME NEW s \in Sessions, SweepSession(s) PROVE StickyInv'
  BY <1>1, <1>2 DEF SweepSession
<1>3. CASE Tick \/ UNCHANGED stickyVars
  BY <1>1, <1>3 DEF Tick, stickyVars
<1>. QED
  BY <1>2, <1>3, WriteStep, SelectStep DEF StickyNext

LEMMA SelectInvariant == StickySpec => []StickyInv
BY StickyStarts, StickyStep, PTL DEF StickySpec

-----------------------------------------------------------------------------
\* What follows

\* No selection, by its session, by the bucket index or by the scan, answers an
\* address that was out of use or in quarantine ever since the selection began,
\* though it reads pool, index and quarantine at different moments and without a lock.
THEOREM AnswersAreCurrent == StickySpec => []NoOutdatedAnswer
<1>1. StickyInv => NoOutdatedAnswer
  BY DEF StickyInv
<1>. QED
  BY <1>1, SelectInvariant, PTL

\* Where countries are written in one case only, the bucket path refuses only what the
\* full scan would refuse, outside a write.
THEOREM BucketsMeanTheScan ==
  ASSUME \A c, d \in Countries : Fold[c] = Fold[d] => c = d
  PROVE  StickySpec => BucketAgreesWithScan
<1>1. ASSUME StickyInv, [StickyNext]_stickyVars, NEW r \in Selectors,
             access[r] = "draw", access'[r] = "idle", ~locked
      PROVE  \A n \in pools : ~Matches(n, ctx[r].spec)
  <2>1. AnswerNone(r)
    <3>1. ASSUME NEW q \in Selectors, Select(q) PROVE q = r
      BY <1>1, <3>1
         DEF StickyInv, StickyTyped, Select, Begin, AnswerBound, MissSticky, Draw, AnswerNone,
             AdmitSession, BindSession, Goto
    <3>2. access' # access
      BY <1>1
    <3>3. Select(r)
      BY <1>1, <3>1, <3>2
         DEF StickyNext, stickyVars, request, Write, StoreAdded, StoreRemoved, ReplaceNode,
             StorePools, StoreIndexes, SetQuarantine, LiftQuarantine, SweepSession, Tick
    <3>. QED
      BY <1>1, <3>3
         DEF StickyInv, StickyTyped, Select, Begin, AnswerBound, MissSticky, Draw, AdmitSession,
             BindSession, Goto
  <2>2. Eligible(ctx[r].spec) = {} /\ ctx[r].spec \in Specs
    BY <1>1, <2>1 DEF AnswerNone, StickyInv, StickyTyped
  <2>3. ASSUME NEW n \in pools, Matches(n, ctx[r].spec) PROVE FALSE
    <3>1. CASE ~ctx[r].spec.exact
      BY <2>2, <2>3, <3>1 DEF Eligible
    <3>2. CASE ctx[r].spec.exact
      <4>1. n \in buckets
        BY <1>1, <2>3 DEF StickyInv, IndexOfPool, Index, Matches
      <4>2. n.country \in Countries
        BY <1>1, NodeTypes DEF StickyInv, StickyTyped, PoolNodes
      <4>3. n.country = ctx[r].spec.country
        BY <2>2, <2>3, <3>2, <4>2 DEF Matches, CountryOk, Specs
      <4>. QED
        BY <2>2, <2>3, <3>2, <4>1, <4>3 DEF Eligible
    <3>. QED
      BY <3>1, <3>2
  <2>. QED
    BY <2>3
<1>2. StickyInv /\ [StickyNext]_stickyVars =>
        [\A r \in Selectors :
           /\ access[r] = "draw" /\ access'[r] = "idle" /\ ~locked
           => \A n \in pools : ~Matches(n, ctx[r].spec)]_stickyVars
  BY <1>1
<1>. QED
  BY <1>2, SelectInvariant, PTL DEF StickySpec, BucketAgreesWithScan
=============================================================================
