-------------------------- MODULE TenantGateProofs --------------------------
(***************************************************************************)
(* The slot accounting of a tenant account, for any number of requests and *)
(* any max_concurrency.  The inductive invariant is the type invariant     *)
(* together with SlotsAccounted (in_flight is a Nat only because it counts *)
(* a set), ConcurrencyBounded and ReleaseNeverDropped.  That bytes are     *)
(* metered once needs sums over finite sets, which the proofs about        *)
(* MapThenSumSet at the end provide.                                       *)
(***************************************************************************)
EXTENDS TenantGate, FiniteSetTheorems, TLAPS

IInv == TypeOK /\ SlotsAccounted /\ ConcurrencyBounded /\ ReleaseNeverDropped

\* Moving one request to another label moves it in or out of each At set.
LEMMA AtMoves ==
  ASSUME NEW L, NEW r \in Requests, NEW to,
         pc \in [Requests -> Labels], pc' = [pc EXCEPT ![r] = to]
  PROVE  At(L)' = IF to \in L THEN At(L) \cup {r} ELSE At(L) \ {r}
BY DEF At

\* The sets of requests at some labels are finite.
LEMMA AtFinite ==
  ASSUME NEW L
  PROVE  /\ IsFiniteSet(At(L))
         /\ Cardinality(At(L)) \in Nat
<1>1. IsFiniteSet(At(L))
  <2>1. At(L) \subseteq Requests
    BY DEF At
  <2>. QED
    BY <2>1, RequestsFinite, FS_Subset
<1>. QED
  BY <1>1, FS_CardinalityType

\* Counting a finite set after one element came or went.
LEMMA CountMoves ==
  ASSUME NEW S, IsFiniteSet(S), NEW x
  PROVE  /\ Cardinality(S) \in Nat
         /\ IsFiniteSet(S \cup {x}) /\ IsFiniteSet(S \ {x})
         /\ x \notin S => Cardinality(S \cup {x}) = Cardinality(S) + 1
         /\ x \in S => Cardinality(S \ {x}) = Cardinality(S) - 1
         /\ x \in S => Cardinality(S) >= 1
<1>1. Cardinality(S) \in Nat
  BY FS_CardinalityType
<1>2. /\ IsFiniteSet(S \cup {x})
      /\ Cardinality(S \cup {x}) =
           IF x \in S THEN Cardinality(S) ELSE Cardinality(S) + 1
  BY FS_AddElement
<1>3. /\ IsFiniteSet(S \ {x})
      /\ Cardinality(S \ {x}) =
           IF x \in S THEN Cardinality(S) - 1 ELSE Cardinality(S)
  BY FS_RemoveElement
<1>4. Cardinality(S \ {x}) \in Nat
  BY <1>3, FS_CardinalityType
<1>. QED
  BY <1>1, <1>2, <1>3, <1>4

OwnLabels == {"admitted", "cas"}
ClaimLabels == {"admitted", "cas", "undo"}

LEMMA OwnersAt == Owners = At(OwnLabels) /\ Claimants = At(ClaimLabels)
BY DEF Owners, Claimants, At, OwnLabels, ClaimLabels

LEMMA InitIInv == Init => IInv
<1>. SUFFICES ASSUME Init PROVE IInv
  OBVIOUS
<1>1. TypeOK /\ ReleaseNeverDropped
  BY BurstNat, MoneyTypes DEF Init, TypeOK, Labels, ReleaseNeverDropped
<1>2. Owners = {} /\ Claimants = {}
  BY DEF Init, Owners, Claimants, At
<1>3. SlotsAccounted /\ ConcurrencyBounded
  BY <1>2, FS_EmptySet, MaxConcNat
     DEF Init, SlotsAccounted, ConcurrencyBounded
<1>. QED
  BY <1>1, <1>3 DEF IInv

\* Steps that leave the counter alone and keep every request in or out of the
\* sets that are counted.
LEMMA QuietStep ==
  ASSUME IInv, TypeOK', ReleaseNeverDropped', inFlight' = inFlight,
         Owners' = Owners, Claimants' = Claimants
  PROVE  IInv'
BY DEF IInv, SlotsAccounted, ConcurrencyBounded

\* Each step keeps the type, given that a counter about to be decremented
\* counts at least its own claimant.
LEMMA TypeStep == ASSUME IInv, [Next]_vars PROVE TypeOK'
<1>1. CASE UNCHANGED vars
  BY <1>1 DEF IInv, TypeOK, vars, account
<1>2. CASE SetActive
  BY <1>2 DEF IInv, TypeOK, SetActive
<1>3. CASE SetBalance
  BY <1>3, MoneyTypes DEF IInv, TypeOK, SetBalance
<1>4. CASE Refill
  BY <1>4, BurstNat DEF IInv, TypeOK, Refill
<1>5. ASSUME NEW r \in Requests, Step(r)
      PROVE  TypeOK'
  <2>1. r \in Claimants => inFlight >= 1
    <3>1. IsFiniteSet(Claimants)
      BY AtFinite, OwnersAt
    <3>. QED
      BY <3>1, CountMoves DEF IInv, SlotsAccounted
  <2>2. CASE CheckActive(r)
    BY <2>2 DEF IInv, TypeOK, CheckActive, Goto, Labels, account
  <2>3. CASE CheckBalance(r)
    BY <2>3 DEF IInv, TypeOK, CheckBalance, Goto, Labels, account
  <2>4. CASE CheckRate(r)
    BY <2>4, BurstNat DEF IInv, TypeOK, CheckRate, Goto, Labels
  <2>5. CASE ClaimSlot(r)
    BY <2>5 DEF IInv, TypeOK, ClaimSlot, Goto, Labels
  <2>6. CASE UndoClaim(r)
    BY <2>1, <2>6 DEF IInv, TypeOK, UndoClaim, Goto, Labels, Claimants, At
  <2>7. CASE BeginRelease(r)
    BY <2>7, MoneyTypes DEF IInv, TypeOK, BeginRelease, Goto, Labels, account
  <2>8. CASE ExchangeSlot(r)
    BY <2>8 DEF IInv, TypeOK, ExchangeSlot, Labels
  <2>9. CASE AddBytes(r)
    BY <2>9 DEF IInv, TypeOK, AddBytes, Goto, Labels
  <2>10. CASE ChargeBalance(r)
    <3>1. bytes[r] * Price \in Int
      BY MoneyTypes DEF IInv, TypeOK
    <3>. QED
      BY <3>1, <2>10 DEF IInv, TypeOK, ChargeBalance, Goto, Labels
  <2>. QED
    BY <1>5, <2>2, <2>3, <2>4, <2>5, <2>6, <2>7, <2>8, <2>9, <2>10 DEF Step
<1>. QED
  BY <1>1, <1>2, <1>3, <1>4, <1>5 DEF Next

\* Each step keeps the invariant: only a claim, its undo and a won exchange
\* move the counter, and each moves its own request with it.
LEMMA StepIInv == ASSUME IInv, [Next]_vars PROVE IInv'
<1>. USE DEF OwnLabels, ClaimLabels
<1>1. TypeOK'
  BY TypeStep
<1>2. IsFiniteSet(Claimants) /\ IsFiniteSet(Owners)
  BY AtFinite, OwnersAt
<1>3. inFlight = Cardinality(Claimants) /\ Cardinality(Owners) <= MaxConc
  BY DEF IInv, SlotsAccounted, ConcurrencyBounded
<1>4. Cardinality(Owners) <= Cardinality(Claimants)
  BY <1>2, FS_Subset DEF Claimants
<1>5. CASE UNCHANGED <<inFlight, pc, cur>>
  <2>1. Owners' = Owners /\ Claimants' = Claimants
    BY <1>5 DEF Owners, Claimants, At
  <2>2. ReleaseNeverDropped'
    BY <1>5 DEF IInv, ReleaseNeverDropped
  <2>. QED
    BY <1>1, <1>5, <2>1, <2>2, QuietStep
<1>6. ASSUME NEW r \in Requests, Step(r)
      PROVE  IInv'
  <2>. USE DEF Goto
  <2>a. pc \in [Requests -> Labels]
    BY DEF IInv, TypeOK
  <2>b. ASSUME NEW to, pc' = [pc EXCEPT ![r] = to]
        PROVE  /\ to \in OwnLabels => Owners' = Owners \cup {r}
               /\ to \notin OwnLabels => Owners' = Owners \ {r}
               /\ to \in ClaimLabels => Claimants' = Claimants \cup {r}
               /\ to \notin ClaimLabels => Claimants' = Claimants \ {r}
    <3>1. Owners' = At(OwnLabels)' /\ Claimants' = At(ClaimLabels)'
      BY DEF Owners, Claimants, At
    <3>. QED
      BY <2>a, <2>b, <3>1, AtMoves, OwnersAt
  <2>c. /\ r \in Owners <=> pc[r] \in OwnLabels
        /\ r \in Claimants <=> pc[r] \in ClaimLabels
    BY DEF Owners, Claimants, At
  <2>d. /\ r \in Owners => Owners \cup {r} = Owners
        /\ r \notin Owners => Owners \ {r} = Owners
        /\ r \in Claimants => Claimants \cup {r} = Claimants
    OBVIOUS
  <2>e. /\ "undo" \in ClaimLabels /\ "undo" \notin OwnLabels
        /\ \A l \in {"claim", "rejected", "bytes"} :
              l \notin OwnLabels /\ l \notin ClaimLabels
    OBVIOUS
  <2>1. CASE CheckActive(r) \/ CheckBalance(r) \/ CheckRate(r)
             \/ AddBytes(r) \/ ChargeBalance(r)
    <3>1. PICK to \in {"balance", "rejected", "rate", "claim", "charge", "done"} :
             pc' = [pc EXCEPT ![r] = to]
      BY <2>1 DEF CheckActive, CheckBalance, CheckRate, AddBytes, ChargeBalance
    <3>2. pc[r] \notin ClaimLabels /\ inFlight' = inFlight /\ cur' = cur
      BY <2>1 DEF CheckActive, CheckBalance, CheckRate, AddBytes,
                  ChargeBalance, account
    <3>3. Owners' = Owners /\ Claimants' = Claimants
      BY <2>b, <2>c, <3>1, <3>2
    <3>4. ReleaseNeverDropped'
      BY <2>a, <3>1, <3>2 DEF IInv, ReleaseNeverDropped
    <3>. QED
      BY <1>1, <3>2, <3>3, <3>4, QuietStep
  <2>2. CASE ClaimSlot(r)
    <3>. DEFINE to == IF inFlight >= MaxConc THEN "undo" ELSE "admitted"
    <3>1. /\ pc[r] = "claim" /\ pc' = [pc EXCEPT ![r] = to]
          /\ inFlight' = inFlight + 1 /\ cur' = cur
      BY <2>2 DEF ClaimSlot
    <3>2. SlotsAccounted'
      BY <1>2, <1>3, <2>b, <2>c, <3>1, CountMoves DEF SlotsAccounted
    <3>3. ConcurrencyBounded'
      <4>1. CASE inFlight >= MaxConc
        <5>1. to = "undo" /\ Owners' = Owners \ {r} /\ r \notin Owners
          BY <2>b, <2>c, <2>e, <3>1, <4>1
        <5>2. Owners' = Owners
          BY <2>d, <5>1
        <5>. QED
          BY <1>3, <5>2 DEF ConcurrencyBounded
      <4>2. CASE ~(inFlight >= MaxConc)
        <5>1. Owners' = Owners \cup {r} /\ r \notin Owners
          BY <2>b, <2>c, <3>1, <4>2
        <5>2. Cardinality(Owners') = Cardinality(Owners) + 1
          BY <1>2, <5>1, CountMoves
        <5>3. Cardinality(Owners) \in Nat /\ Cardinality(Claimants) \in Nat
          BY <1>2, FS_CardinalityType
        <5>. QED
          BY <1>3, <1>4, <4>2, <5>2, <5>3, MaxConcNat DEF ConcurrencyBounded
      <4>. QED
        BY <4>1, <4>2
    <3>4. ReleaseNeverDropped'
      BY <2>a, <3>1 DEF IInv, ReleaseNeverDropped
    <3>. QED
      BY <1>1, <3>2, <3>3, <3>4 DEF IInv
  <2>3. CASE UndoClaim(r)
    <3>1. /\ pc[r] = "undo" /\ pc' = [pc EXCEPT ![r] = "rejected"]
          /\ inFlight' = inFlight - 1 /\ cur' = cur
      BY <2>3 DEF UndoClaim
    <3>a. r \notin Owners /\ r \in Claimants
      BY <2>c, <2>e, <3>1
    <3>b. Owners' = Owners \ {r} /\ Claimants' = Claimants \ {r}
      BY <2>b, <2>e, <3>1
    <3>2. Owners' = Owners /\ Claimants' = Claimants \ {r} /\ r \in Claimants
      BY <2>d, <3>a, <3>b
    <3>3. SlotsAccounted'
      BY <1>2, <1>3, <3>1, <3>2, CountMoves DEF SlotsAccounted
    <3>4. ReleaseNeverDropped'
      BY <2>a, <3>1 DEF IInv, ReleaseNeverDropped
    <3>. QED
      BY <1>1, <1>3, <3>2, <3>3, <3>4 DEF IInv, ConcurrencyBounded
  <2>4. CASE BeginRelease(r)
    <3>1. /\ pc[r] = "admitted" /\ pc' = [pc EXCEPT ![r] = "cas"]
          /\ inFlight' = inFlight /\ cur' = [cur EXCEPT ![r] = inFlight]
      BY <2>4 DEF BeginRelease, account
    <3>2. Owners' = Owners /\ Claimants' = Claimants /\ r \in Claimants
      BY <2>b, <2>c, <3>1
    <3>3. inFlight >= 1
      BY <1>2, <1>3, <3>2, CountMoves
    <3>4. ReleaseNeverDropped'
      BY <2>a, <3>1, <3>3 DEF IInv, TypeOK, ReleaseNeverDropped
    <3>. QED
      BY <1>1, <3>1, <3>2, <3>4, QuietStep
  <2>5. CASE ExchangeSlot(r)
    <3>1. pc[r] = "cas" /\ cur[r] > 0 /\ cur[r] \in Nat
      BY <2>5 DEF ExchangeSlot, IInv, TypeOK, ReleaseNeverDropped
    <3>0. cur[r] # 0
      BY <3>1
    <3>2. r \in Owners /\ r \in Claimants
      BY <2>c, <3>1
    <3>3. inFlight >= 1
      BY <1>2, <1>3, <3>2, CountMoves
    <3>4. CASE cur[r] = inFlight
      <4>1. pc' = [pc EXCEPT ![r] = "bytes"] /\ inFlight' = inFlight - 1
            /\ cur' = [cur EXCEPT ![r] = inFlight]
        BY <2>5, <3>0, <3>4 DEF ExchangeSlot
      <4>2. Owners' = Owners \ {r} /\ Claimants' = Claimants \ {r}
        BY <2>b, <2>e, <4>1
      <4>3. SlotsAccounted'
        BY <1>2, <1>3, <3>2, <4>1, <4>2, CountMoves DEF SlotsAccounted
      <4>4. ConcurrencyBounded'
        <5>1. Cardinality(Owners') = Cardinality(Owners) - 1
          BY <1>2, <3>2, <4>2, CountMoves
        <5>2. Cardinality(Owners) \in Nat
          BY <1>2, FS_CardinalityType
        <5>. QED
          BY <1>3, <5>1, <5>2, MaxConcNat DEF ConcurrencyBounded
      <4>5. ReleaseNeverDropped'
        BY <2>a, <4>1 DEF IInv, TypeOK, ReleaseNeverDropped
      <4>. QED
        BY <1>1, <4>3, <4>4, <4>5 DEF IInv
    <3>5. CASE cur[r] # inFlight
      <4>1. pc' = [pc EXCEPT ![r] = "cas"] /\ inFlight' = inFlight
            /\ cur' = [cur EXCEPT ![r] = inFlight]
        BY <2>5, <3>0, <3>5 DEF ExchangeSlot
      <4>2. Owners' = Owners /\ Claimants' = Claimants
        BY <2>b, <2>d, <3>2, <4>1
      <4>3. ReleaseNeverDropped'
        BY <2>a, <3>3, <4>1 DEF IInv, TypeOK, ReleaseNeverDropped
      <4>. QED
        BY <1>1, <4>1, <4>2, <4>3, QuietStep
    <3>. QED
      BY <3>4, <3>5
  <2>. QED
    BY <1>6, <2>1, <2>2, <2>3, <2>4, <2>5 DEF Step
<1>7. CASE SetActive \/ SetBalance \/ Refill \/ UNCHANGED vars
  BY <1>5, <1>7 DEF SetActive, SetBalance, Refill, vars, account
<1>. QED
  BY <1>6, <1>7 DEF Next

\* The invariant of the account, for every number of requests and every
\* max_concurrency: authenticate_and_throttle and release_and_meter preserve it.
THEOREM AccountInvariant == Spec => []IInv
<1>1. Init => IInv
  BY InitIInv
<1>2. IInv /\ [Next]_vars => IInv'
  BY StepIInv
<1>. QED
  BY <1>1, <1>2, PTL DEF Spec

\* Every variable keeps its type; in particular in_flight never goes below zero
\* under any interleaving of claims, undos and releases.
THEOREM TypeCorrect == Spec => []TypeOK
<1>1. IInv => TypeOK
  BY DEF IInv
<1>. QED
  BY <1>1, AccountInvariant, PTL

\* in_flight counts exactly the owners and the claims about to be undone.
THEOREM SlotAccounting == Spec => []SlotsAccounted
<1>1. IInv => SlotsAccounted
  BY DEF IInv
<1>. QED
  BY <1>1, AccountInvariant, PTL

\* authenticate_and_throttle never lets more than max_concurrency requests own
\* a slot at once.
THEOREM ConcurrencyLimit == Spec => []ConcurrencyBounded
<1>1. IInv => ConcurrencyBounded
  BY DEF IInv
<1>. QED
  BY <1>1, AccountInvariant, PTL

\* release_and_meter never mistakes a legal release for a double release.
THEOREM NoReleaseDropped == Spec => []ReleaseNeverDropped
<1>1. IInv => ReleaseNeverDropped
  BY DEF IInv
<1>. QED
  BY <1>1, AccountInvariant, PTL

\* The three sets the ledger is about, as the refinement maps them.
Refused == At({"undo", "rejected"})
Returned == At({"bytes", "charge", "done"})

\* What a request moving between two labels does to the ledger's sets.
LEMMA LedgerMoves ==
  ASSUME NEW r \in Requests, NEW to \in Labels,
         pc \in [Requests -> Labels], pc' = [pc EXCEPT ![r] = to]
  PROVE  /\ pc[r] \in {"admitted", "cas"} <=> r \in Owners
         /\ pc[r] \in {"undo", "rejected"} <=> r \in Refused
         /\ pc[r] \in {"bytes", "charge", "done"} <=> r \in Returned
         /\ Owners' = IF to \in {"admitted", "cas"}
                      THEN Owners \cup {r} ELSE Owners \ {r}
         /\ Refused' = IF to \in {"undo", "rejected"}
                       THEN Refused \cup {r} ELSE Refused \ {r}
         /\ Returned' = IF to \in {"bytes", "charge", "done"}
                        THEN Returned \cup {r} ELSE Returned \ {r}
<1>1. /\ Owners = At({"admitted", "cas"})
      /\ Owners' = At({"admitted", "cas"})'
  BY DEF Owners
<1>2. r \in Refused <=> pc[r] \in {"undo", "rejected"}
  BY DEF Refused, At
<1>3. r \in Returned <=> pc[r] \in {"bytes", "charge", "done"}
  BY DEF Returned, At
<1>4. r \in Owners <=> pc[r] \in {"admitted", "cas"}
  BY DEF Owners, At
<1>5. Refused' = IF to \in {"undo", "rejected"}
                 THEN Refused \cup {r} ELSE Refused \ {r}
  BY AtMoves DEF Refused
<1>6. Returned' = IF to \in {"bytes", "charge", "done"}
                  THEN Returned \cup {r} ELSE Returned \ {r}
  BY AtMoves DEF Returned
<1>7. Owners' = IF to \in {"admitted", "cas"}
                THEN Owners \cup {r} ELSE Owners \ {r}
  BY <1>1, AtMoves
<1>. QED
  BY <1>2, <1>3, <1>4, <1>5, <1>6, <1>7

\* One step of the account is one step of the ledger of slots, or none.
LEMMA LedgerStep == ASSUME IInv, [Next]_vars PROVE [Ledger!Next]_(Ledger!vars)
<1>. DEFINE Same == Owners' = Owners /\ Refused' = Refused /\ Returned' = Returned
<1>0. ASSUME Same PROVE [Ledger!Next]_(Ledger!vars)
  BY <1>0 DEF Ledger!vars, Refused, Returned
<1>1. CASE pc' = pc
  <2>1. Same
    BY <1>1 DEF Owners, Refused, Returned, At
  <2>. QED
    BY <1>0, <2>1
<1>2. ASSUME NEW r \in Requests, Step(r), pc' # pc
      PROVE  [Ledger!Next]_(Ledger!vars)
  <2>a. pc \in [Requests -> Labels]
    BY DEF IInv, TypeOK
  <2>1. PICK to \in Labels :
           /\ pc' = [pc EXCEPT ![r] = to]
           /\ \/ /\ pc[r] \in {"active", "balance", "rate"}
                 /\ to \in {"balance", "rate", "claim"}
              \/ /\ pc[r] \in {"active", "balance", "rate", "claim"}
                 /\ to \in {"undo", "rejected"}
              \/ pc[r] = "claim" /\ to = "admitted" /\ inFlight < MaxConc
              \/ pc[r] = "undo" /\ to = "rejected"
              \/ pc[r] = "admitted" /\ to = "cas"
              \/ pc[r] = "cas" /\ to = "bytes"
              \/ pc[r] = "bytes" /\ to = "charge"
              \/ pc[r] = "charge" /\ to = "done"
    <3>. USE DEF Goto, Labels
    <3>1. CASE CheckActive(r) \/ CheckBalance(r) \/ CheckRate(r)
      BY <3>1 DEF CheckActive, CheckBalance, CheckRate
    <3>2. CASE ClaimSlot(r)
      <4>1. inFlight \in Nat /\ MaxConc \in Nat
        BY MaxConcNat DEF IInv, TypeOK
      <4>2. CASE inFlight >= MaxConc
        BY <3>2, <4>2 DEF ClaimSlot
      <4>3. CASE inFlight < MaxConc
        BY <3>2, <4>1, <4>3 DEF ClaimSlot
      <4>. QED
        BY <4>1, <4>2, <4>3
    <3>3. CASE UndoClaim(r) \/ BeginRelease(r) \/ AddBytes(r) \/ ChargeBalance(r)
      BY <3>3 DEF UndoClaim, BeginRelease, AddBytes, ChargeBalance
    <3>4. CASE ExchangeSlot(r)
      <4>1. pc[r] = "cas" /\ cur[r] # 0
        BY <3>4 DEF ExchangeSlot, IInv, TypeOK, ReleaseNeverDropped
      <4>2. cur[r] = inFlight
        BY <1>2, <2>a, <3>4, <4>1 DEF ExchangeSlot
      <4>. QED
        BY <3>4, <4>1, <4>2 DEF ExchangeSlot
    <3>. QED
      BY <1>2, <3>1, <3>2, <3>3, <3>4 DEF Step
  <2>b. /\ pc[r] \in {"admitted", "cas"} <=> r \in Owners
        /\ pc[r] \in {"undo", "rejected"} <=> r \in Refused
        /\ pc[r] \in {"bytes", "charge", "done"} <=> r \in Returned
        /\ Owners' = IF to \in {"admitted", "cas"}
                     THEN Owners \cup {r} ELSE Owners \ {r}
        /\ Refused' = IF to \in {"undo", "rejected"}
                      THEN Refused \cup {r} ELSE Refused \ {r}
        /\ Returned' = IF to \in {"bytes", "charge", "done"}
                       THEN Returned \cup {r} ELSE Returned \ {r}
    BY <2>a, <2>1, LedgerMoves
  <2>2. CASE /\ pc[r] \in {"active", "balance", "rate"}
             /\ to \in {"balance", "rate", "claim"}
    BY <1>0, <2>b, <2>2
  <2>3. CASE /\ pc[r] \in {"active", "balance", "rate", "claim"}
             /\ to \in {"undo", "rejected"}
    <3>1. /\ r \notin Owners \cup Refused \cup Returned
          /\ Owners' = Owners /\ Refused' = Refused \cup {r} /\ Returned' = Returned
      BY <2>b, <2>3
    <3>. QED
      BY <3>1 DEF Ledger!Next, Ledger!Refuse, Ledger!Fresh, Refused, Returned
  <2>4. CASE pc[r] = "claim" /\ to = "admitted" /\ inFlight < MaxConc
    <3>1. /\ r \notin Owners \cup Refused \cup Returned
          /\ Owners' = Owners \cup {r} /\ Refused' = Refused /\ Returned' = Returned
      BY <2>b, <2>4
    <3>2. Cardinality(Owners) < MaxConc
      <4>1. IsFiniteSet(Claimants) /\ IsFiniteSet(Owners)
        BY AtFinite, OwnersAt
      <4>2. /\ Cardinality(Owners) \in Nat /\ Cardinality(Claimants) \in Nat
            /\ Cardinality(Owners) <= Cardinality(Claimants)
        BY <4>1, FS_Subset, FS_CardinalityType DEF Claimants
      <4>. QED
        BY <2>4, <4>2, MaxConcNat DEF IInv, SlotsAccounted
    <3>3. Ledger!Fresh(r)
      BY <3>1 DEF Ledger!Fresh, Refused, Returned
    <3>4. Ledger!Cardinality(Owners) = Cardinality(Owners)
      BY DEF Ledger!Cardinality, Cardinality
    <3>5. Ledger!Acquire(r)
      BY <3>1, <3>2, <3>3, <3>4 DEF Ledger!Acquire, Refused, Returned
    <3>. QED
      BY <3>5 DEF Ledger!Next
  <2>5. CASE \/ pc[r] = "undo" /\ to = "rejected"
             \/ pc[r] = "admitted" /\ to = "cas"
             \/ pc[r] = "bytes" /\ to = "charge"
             \/ pc[r] = "charge" /\ to = "done"
    BY <1>0, <2>b, <2>5
  <2>6. CASE pc[r] = "cas" /\ to = "bytes"
    <3>1. /\ r \in Owners
          /\ Owners' = Owners \ {r} /\ Refused' = Refused
          /\ Returned' = Returned \cup {r}
      BY <2>b, <2>6
    <3>. QED
      BY <3>1 DEF Ledger!Next, Ledger!Release, Refused, Returned
  <2>. QED
    BY <2>1, <2>2, <2>3, <2>4, <2>5, <2>6
<1>3. CASE SetActive \/ SetBalance \/ Refill \/ UNCHANGED vars
  BY <1>1, <1>3 DEF SetActive, SetBalance, Refill, vars
<1>. QED
  BY <1>1, <1>2, <1>3 DEF Next

\* The account implements the abstract ledger of slots: its atomic operations
\* map to an acquisition below max_concurrency, a refusal, a single release, or
\* a step the ledger does not see.
THEOREM AccountImplementsLedger == Spec => Ledger!Spec
<1>1. Init => Ledger!Init
  BY DEF Init, Ledger!Init, Owners, At
<1>2. IInv /\ [Next]_vars => [Ledger!Next]_(Ledger!vars)
  BY LedgerStep
<1>. QED
  BY <1>1, <1>2, AccountInvariant, PTL DEF Spec, Ledger!Spec
-----------------------------------------------------------------------------
\* Sums over finite sets

Chosen(S) == CHOOSE x \in S : TRUE

\* The recursive function that MapThenSumSet evaluates.
IsSums(f, S, sums) ==
  sums = [s \in SUBSET S |-> IF s = {} THEN 0 ELSE f[Chosen(s)] + sums[s \ {Chosen(s)}]]

Sums(f, S) == CHOOSE sums : IsSums(f, S, sums)

SumOver(f, S) == Sums(f, S)[S]

LEMMA SumIsSumOver == ASSUME NEW f, NEW S PROVE MapThenSumSet(LAMBDA x : f[x], S) = SumOver(f, S)
BY DEF MapThenSumSet, MapThenFoldSet, SumOver, Sums, IsSums, Chosen

\* Induction over the subsets of a finite set, in terms of a minimal counterexample.
LEMMA MinimalSubset ==
  ASSUME NEW S, IsFiniteSet(S), NEW Bad \in SUBSET SUBSET S, Bad # {}
  PROVE  \E T \in Bad : \A U \in Bad : U \subseteq T => U = T
<1>1. IsWellFoundedOn(StrictSubsetOrdering(S), SUBSET S)
  BY FS_StrictSubsetOrderingWellFounded, FS_FiniteSubsetsOfFinite
<1>2. PICK T \in Bad : \A U \in Bad : <<U, T>> \notin StrictSubsetOrdering(S)
  BY <1>1, WFMin
<1>3. ASSUME NEW U \in Bad, U \subseteq T, U # T PROVE FALSE
  <2>1. <<U, T>> \in StrictSubsetOrdering(S)
    BY <1>3 DEF StrictSubsetOrdering
  <2>. QED
    BY <1>2, <2>1
<1>. QED
  BY <1>3

LEMMA ChosenLess ==
  ASSUME NEW S, S # {}
  PROVE  Chosen(S) \in S /\ S \ {Chosen(S)} \subseteq S /\ S \ {Chosen(S)} # S
BY DEF Chosen

\* Two of them agree where both are defined.
LEMMA SumsUnique ==
  ASSUME NEW f, NEW S, NEW T \in SUBSET S, IsFiniteSet(T), NEW a, NEW b, IsSums(f, S, a), IsSums(f, T, b)
  PROVE  a[T] = b[T]
<1>. DEFINE Bad == {s \in SUBSET T : a[s] # b[s]}
<1>1. \A s \in SUBSET T :
        /\ a[s] = IF s = {} THEN 0 ELSE f[Chosen(s)] + a[s \ {Chosen(s)}]
        /\ b[s] = IF s = {} THEN 0 ELSE f[Chosen(s)] + b[s \ {Chosen(s)}]
  BY DEF IsSums
<1>2. ASSUME Bad # {} PROVE FALSE
  <2>1. PICK s \in Bad : \A U \in Bad : U \subseteq s => U = s
    <3>1. Bad \in SUBSET SUBSET T
      OBVIOUS
    <3>. HIDE DEF Bad
    <3>. QED
      BY <1>2, <3>1, MinimalSubset
  <2>2. s # {}
    BY <1>1
  <2>3. a[s \ {Chosen(s)}] = b[s \ {Chosen(s)}]
    BY <2>1, <2>2, ChosenLess
  <2>. QED
    BY <1>1, <2>2, <2>3
<1>. QED
  BY <1>2

LEMMA SumsExist == ASSUME NEW f, NEW S, IsFiniteSet(S) PROVE IsSums(f, S, Sums(f, S))
<1>. DEFINE Bad == {T \in SUBSET S : ~IsSums(f, T, Sums(f, T))}
<1>1. ASSUME Bad # {} PROVE FALSE
  <2>1. PICK T \in Bad : \A U \in Bad : U \subseteq T => U = T
    <3>1. Bad \in SUBSET SUBSET S
      OBVIOUS
    <3>. HIDE DEF Bad
    <3>. QED
      BY <1>1, <3>1, MinimalSubset
  <2>2. \A U \in SUBSET T : U # T => IsSums(f, U, Sums(f, U)) /\ IsFiniteSet(U)
    BY <2>1, FS_Subset
  <2>. DEFINE sums == [s \in SUBSET T |->
                         IF s = {} THEN 0 ELSE f[Chosen(s)] + SumOver(f, s \ {Chosen(s)})]
  <2>3. ASSUME NEW U \in SUBSET T, U # T PROVE sums[U] = SumOver(f, U)
    <3>1. Sums(f, U)[U] = IF U = {} THEN 0 ELSE f[Chosen(U)] + Sums(f, U)[U \ {Chosen(U)}]
      BY <2>2, <2>3 DEF IsSums
    <3>2. ASSUME U # {} PROVE Sums(f, U)[U \ {Chosen(U)}] = SumOver(f, U \ {Chosen(U)})
      <4>1. U \ {Chosen(U)} \in SUBSET U /\ U \ {Chosen(U)} \in SUBSET T /\ U \ {Chosen(U)} # T
        BY <3>2, ChosenLess
      <4>. QED
        BY <2>2, <2>3, <4>1, SumsUnique DEF SumOver
    <3>. QED
      BY <3>1, <3>2 DEF SumOver
  <2>4. \A s \in SUBSET T : s # {} => sums[s \ {Chosen(s)}] = SumOver(f, s \ {Chosen(s)})
    BY <2>3, ChosenLess
  <2>5. IsSums(f, T, sums)
    BY <2>4 DEF IsSums
  <2>. QED
    BY <2>1, <2>5 DEF Sums
<1>. QED
  BY <1>1

LEMMA SumChosen ==
  ASSUME NEW f, NEW S, IsFiniteSet(S)
  PROVE  SumOver(f, S) = IF S = {} THEN 0 ELSE f[Chosen(S)] + SumOver(f, S \ {Chosen(S)})
<1>1. Sums(f, S)[S] = IF S = {} THEN 0 ELSE f[Chosen(S)] + Sums(f, S)[S \ {Chosen(S)}]
  <2>1. ASSUME NEW sums, IsSums(f, S, sums)
        PROVE  sums[S] = IF S = {} THEN 0 ELSE f[Chosen(S)] + sums[S \ {Chosen(S)}]
    BY <2>1 DEF IsSums
  <2>. QED
    BY <2>1, SumsExist
<1>2. ASSUME S # {} PROVE Sums(f, S)[S \ {Chosen(S)}] = SumOver(f, S \ {Chosen(S)})
  <2>1. S \ {Chosen(S)} \in SUBSET S /\ IsFiniteSet(S \ {Chosen(S)})
    BY FS_Subset
  <2>. QED
    BY <2>1, SumsExist, SumsUnique DEF SumOver
<1>. QED
  BY <1>1, <1>2 DEF SumOver

\* A sum is an integer, and any of its terms can be taken out.
LEMMA SumStep ==
  ASSUME NEW S, IsFiniteSet(S), NEW f, \A x \in S : f[x] \in Int
  PROVE  /\ SumOver(f, S) \in Int
         /\ \A x \in S : SumOver(f, S) = f[x] + SumOver(f, S \ {x})
<1>. DEFINE Good(T) == /\ SumOver(f, T) \in Int
                       /\ \A x \in T : SumOver(f, T) = f[x] + SumOver(f, T \ {x})
            Bad == {T \in SUBSET S : ~Good(T)}
<1>1. ASSUME Bad # {} PROVE FALSE
  <2>1. PICK T \in Bad : \A U \in Bad : U \subseteq T => U = T
    <3>1. Bad \in SUBSET SUBSET S
      OBVIOUS
    <3>. HIDE DEF Bad
    <3>. QED
      BY <1>1, <3>1, MinimalSubset
  <2>2. \A U \in SUBSET T : IsFiniteSet(U) /\ (U # T => Good(U))
    BY <2>1, FS_Subset
  <2>. HIDE DEF Good
  <2>3. CASE T = {}
    <3>1. SumOver(f, T) = 0
      BY <2>2, <2>3, SumChosen
    <3>. QED
      BY <2>1, <2>3, <3>1 DEF Good
  <2>4. CASE T # {}
    <3>. DEFINE c == Chosen(T)
    <3>1. c \in T /\ T \ {c} \in SUBSET T /\ T \ {c} # T /\ f[c] \in Int
      BY <2>4, ChosenLess
    <3>. HIDE DEF c
    <3>2. SumOver(f, T) = f[c] + SumOver(f, T \ {c}) /\ SumOver(f, T \ {c}) \in Int
      BY <2>2, <2>4, <3>1, SumChosen DEF Good, c
    <3>3. ASSUME NEW x \in T, x # c PROVE SumOver(f, T) = f[x] + SumOver(f, T \ {x})
      <4>1. T \ {x} \in SUBSET T /\ T \ {x} # T /\ c \in T \ {x} /\ x \in T \ {c} /\ f[x] \in Int
        BY <3>1, <3>3
      <4>2. (T \ {x}) \ {c} = (T \ {c}) \ {x} /\ (T \ {x}) \ {c} \in SUBSET T /\ (T \ {x}) \ {c} # T
        BY <3>1
      <4>3. SumOver(f, T \ {x}) = f[c] + SumOver(f, (T \ {x}) \ {c})
        BY <2>2, <4>1 DEF Good
      <4>4. SumOver(f, T \ {c}) = f[x] + SumOver(f, (T \ {x}) \ {c})
        BY <2>2, <3>1, <4>1, <4>2 DEF Good
      <4>5. SumOver(f, (T \ {x}) \ {c}) \in Int
        BY <2>2, <4>2 DEF Good
      <4>. QED
        BY <3>1, <3>2, <4>1, <4>3, <4>4, <4>5
    <3>4. SumOver(f, T) \in Int
      BY <3>1, <3>2
    <3>. QED
      BY <2>1, <3>2, <3>3, <3>4 DEF Good
  <2>. QED
    BY <2>3, <2>4
<1>2. S \in SUBSET S
  OBVIOUS
<1>. QED
  BY <1>1, <1>2

\* A sum depends on its terms only.
LEMMA SumSame ==
  ASSUME NEW S, IsFiniteSet(S), NEW f, NEW g, \A x \in S : f[x] = g[x]
  PROVE  SumOver(f, S) = SumOver(g, S)
<1>. DEFINE Bad == {T \in SUBSET S : SumOver(f, T) # SumOver(g, T)}
<1>1. ASSUME Bad # {} PROVE FALSE
  <2>1. PICK T \in Bad : \A U \in Bad : U \subseteq T => U = T
    <3>1. Bad \in SUBSET SUBSET S
      OBVIOUS
    <3>. HIDE DEF Bad
    <3>. QED
      BY <1>1, <3>1, MinimalSubset
  <2>2. IsFiniteSet(T)
    BY FS_Subset
  <2>3. T # {}
    BY <2>2, SumChosen
  <2>4. Chosen(T) \in S /\ SumOver(f, T \ {Chosen(T)}) = SumOver(g, T \ {Chosen(T)})
    BY <2>1, <2>3, ChosenLess
  <2>. QED
    BY <2>2, <2>3, <2>4, SumChosen
<1>. QED
  BY <1>1

-----------------------------------------------------------------------------
\* Metering

Billed == {"charge", "done"}

BilledSum == totalBytes = SumOver(bytes, At(Billed))

LEMMA MeteredIsBilled == MeteredOnce <=> BilledSum
BY SumIsSumOver DEF MeteredOnce, BilledSum, Billed

LEMMA BytesInt == ASSUME TypeOK PROVE \A r \in At(Billed) : bytes[r] \in Int
BY DEF TypeOK, At

\* The next request adds its bytes when it joins the sum.
LEMMA BilledStep == ASSUME TypeOK, BilledSum, [Next]_vars PROVE BilledSum'
<1>. USE DEF Goto
<1>1. CASE UNCHANGED <<totalBytes, pc, bytes>>
  BY <1>1 DEF BilledSum, At
<1>2. ASSUME NEW r \in Requests, Step(r) PROVE BilledSum'
  <2>1. ASSUME NEW to, pc' = [pc EXCEPT ![r] = to]
        PROVE  At(Billed)' = IF to \in Billed THEN At(Billed) \cup {r} ELSE At(Billed) \ {r}
    <3>1. pc \in [Requests -> Labels]
      BY DEF TypeOK
    <3>. QED
      BY <2>1, <3>1 DEF At
  <2>2. r \in At(Billed) <=> pc[r] \in Billed
    BY DEF At
  <2>a. "charge" \in Billed /\ "done" \in Billed /\ "bytes" \notin Billed /\ "cas" \notin Billed
    BY DEF Billed
  <2>3. CASE AddBytes(r)
    <3>1. /\ pc[r] = "bytes" /\ pc' = [pc EXCEPT ![r] = "charge"]
          /\ totalBytes' = totalBytes + bytes[r] /\ bytes' = bytes
      BY <2>3 DEF AddBytes
    <3>2. r \notin At(Billed) /\ At(Billed)' = At(Billed) \cup {r} /\ bytes[r] \in Int
      <4>1. r \notin At(Billed)
        BY <2>2, <2>a, <3>1
      <4>2. At(Billed)' = At(Billed) \cup {r}
        BY <2>1, <2>a, <3>1
      <4>3. bytes[r] \in Int
        BY DEF TypeOK
      <4>. QED
        BY <4>1, <4>2, <4>3
    <3>3. IsFiniteSet(At(Billed) \cup {r}) /\ \A x \in At(Billed) \cup {r} : bytes[x] \in Int
      BY <3>2, AtFinite, FS_AddElement, BytesInt
    <3>4. (At(Billed) \cup {r}) \ {r} = At(Billed)
      BY <3>2
    <3>5. SumOver(bytes, At(Billed) \cup {r}) = bytes[r] + SumOver(bytes, At(Billed))
      BY <3>3, <3>4, SumStep
    <3>6. SumOver(bytes, At(Billed)) \in Int
      BY AtFinite, BytesInt, SumStep
    <3>. QED
      BY <3>1, <3>2, <3>5, <3>6 DEF BilledSum
  <2>4. CASE ChargeBalance(r)
    <3>1. /\ pc[r] \in Billed /\ pc' = [pc EXCEPT ![r] = "done"]
          /\ UNCHANGED <<totalBytes, bytes>>
      BY <2>4 DEF ChargeBalance, Billed
    <3>2. At(Billed)' = At(Billed)
      <4>1. At(Billed)' = At(Billed) \cup {r} /\ r \in At(Billed)
        BY <2>1, <2>2, <2>a, <3>1
      <4>. QED
        BY <4>1
    <3>. QED
      BY <3>1, <3>2 DEF BilledSum
  <2>5. CASE BeginRelease(r)
    <3>1. /\ pc[r] \notin Billed /\ pc' = [pc EXCEPT ![r] = "cas"] /\ totalBytes' = totalBytes
          /\ \A x \in Requests \ {r} : bytes'[x] = bytes[x]
      BY <2>5 DEF BeginRelease, Billed, account, TypeOK
    <3>2. At(Billed)' = At(Billed) /\ r \notin At(Billed)
      BY <2>1, <2>2, <2>a, <3>1
    <3>3. \A x \in At(Billed) : bytes'[x] = bytes[x]
      BY <3>1, <3>2 DEF At
    <3>4. SumOver(bytes', At(Billed)) = SumOver(bytes, At(Billed))
      BY <3>3, AtFinite, SumSame
    <3>. QED
      BY <3>1, <3>2, <3>4 DEF BilledSum
  <2>6. CASE \/ CheckActive(r) \/ CheckBalance(r) \/ CheckRate(r)
             \/ ClaimSlot(r) \/ UndoClaim(r) \/ ExchangeSlot(r)
    <3>1. PICK to : pc' = [pc EXCEPT ![r] = to] /\ to \notin Billed
      BY <2>6 DEF CheckActive, CheckBalance, CheckRate, ClaimSlot, UndoClaim, ExchangeSlot, Billed
    <3>2. pc[r] \notin Billed /\ UNCHANGED <<totalBytes, bytes>>
      BY <2>6 DEF CheckActive, CheckBalance, CheckRate, ClaimSlot, UndoClaim, ExchangeSlot, Billed,
                  account
    <3>3. At(Billed)' = At(Billed)
      BY <2>1, <2>2, <3>1, <3>2
    <3>. QED
      BY <3>2, <3>3 DEF BilledSum
  <2>. QED
    BY <1>2, <2>3, <2>4, <2>5, <2>6 DEF Step
<1>3. CASE SetActive \/ SetBalance \/ Refill \/ UNCHANGED vars
  BY <1>1, <1>3 DEF SetActive, SetBalance, Refill, vars, account
<1>. QED
  BY <1>2, <1>3 DEF Next

\* release_and_meter adds the bytes of a request to total_bytes once, however often
\* its exchange of in_flight has to be retried.
THEOREM BytesMeteredOnce == Spec => []MeteredOnce
<1>1. Init => BilledSum
  <2>. SUFFICES ASSUME Init PROVE BilledSum
    OBVIOUS
  <2>1. At(Billed) = {}
    BY DEF Init, At, Billed
  <2>. QED
    BY <2>1, FS_EmptySet, SumChosen DEF Init, BilledSum
<1>2. TypeOK /\ BilledSum /\ [Next]_vars => BilledSum'
  BY BilledStep
<1>. QED
  BY <1>1, <1>2, MeteredIsBilled, TypeCorrect, PTL DEF Spec
=============================================================================
