----------------------------- MODULE TenantGate -----------------------------
(***************************************************************************)
(* One tenant account (tenant.rs): the gate every request passes before it *)
(* is routed, and the release that returns its slot and bills it.  The     *)
(* account is shared by all worker threads and has no lock, so each        *)
(* operation on one of its atomics is an action: requests interleave       *)
(* between any two of them, and so do the control plane's stores.          *)
(*                                                                         *)
(* Accounts of different tenants share nothing, hence a single account;    *)
(* a key that is in no account is rejected before any state is touched.    *)
(* Money is counted in whole units (cost = bytes * Price): the rounding of *)
(* f64 is not modelled.  A request passes the gate once.                   *)
(***************************************************************************)
EXTENDS Integers, FiniteSets, FiniteSetsExt

CONSTANTS Requests,     \* the requests that present this tenant's key
          MaxConc,      \* max_concurrency of the account
          Burst,        \* tokens the rate limiter holds when full
          InitBalance,  \* balance_usd at registration
          AdminBalances,\* the balances the control plane may store
          Sizes,        \* bytes a request may have transferred
          Price         \* price of a byte in the request's tier

ASSUME RequestsFinite == IsFiniteSet(Requests)
ASSUME MaxConcNat     == MaxConc \in Nat
ASSUME BurstNat       == Burst \in Nat
ASSUME MoneyTypes     == /\ InitBalance \in Int
                         /\ AdminBalances \subseteq Int
                         /\ Sizes \subseteq Nat
                         /\ Price \in Nat

VARIABLES isActive,   \* AtomicBool is_active
          balance,    \* AtomicF64 balance_usd
          tokens,     \* cells left in the governor rate limiter
          inFlight,   \* AtomicUsize in_flight
          totalBytes, \* AtomicU64 total_bytes
          pc,         \* pc[r]: the next atomic operation of request r
          cur,        \* cur[r]: the local `cur` of the release loop
          bytes       \* bytes[r]: what r has transferred

account == <<isActive, balance, tokens, inFlight, totalBytes>>
vars == <<account, pc, cur, bytes>>

Labels == {"active", "balance", "rate", "claim", "undo", "rejected",
           "admitted", "cas", "bytes", "charge", "done", "dropped"}

Init ==
  /\ isActive = TRUE
  /\ balance = InitBalance
  /\ tokens = Burst
  /\ inFlight = 0
  /\ totalBytes = 0
  /\ pc = [r \in Requests |-> "active"]
  /\ cur = [r \in Requests |-> 0]
  /\ bytes = [r \in Requests |-> 0]

\* Move request r from one operation to the next.
Goto(r, from, to) == pc[r] = from /\ pc' = [pc EXCEPT ![r] = to]

-----------------------------------------------------------------------------
\* authenticate_and_throttle

CheckActive(r) ==
  /\ Goto(r, "active", IF isActive THEN "balance" ELSE "rejected")
  /\ UNCHANGED <<account, cur, bytes>>

CheckBalance(r) ==
  /\ Goto(r, "balance", IF balance <= 0 THEN "rejected" ELSE "rate")
  /\ UNCHANGED <<account, cur, bytes>>

CheckRate(r) ==
  /\ \/ tokens > 0 /\ Goto(r, "rate", "claim") /\ tokens' = tokens - 1
     \/ tokens = 0 /\ Goto(r, "rate", "rejected") /\ UNCHANGED tokens
  /\ UNCHANGED <<isActive, balance, inFlight, totalBytes, cur, bytes>>

\* Mutant: the comparison is off by one.
ClaimSlotOffByOne(r) ==
  /\ Goto(r, "claim", IF inFlight > MaxConc THEN "undo" ELSE "admitted")
  /\ inFlight' = inFlight + 1
  /\ UNCHANGED <<isActive, balance, tokens, totalBytes, cur, bytes>>

\* fetch_add first, compare the value it returned afterwards: the counter
\* passes max_concurrency for a moment when the answer is no.
ClaimSlot(r) ==
  /\ Goto(r, "claim", IF inFlight >= MaxConc THEN "undo" ELSE "admitted")
  /\ inFlight' = inFlight + 1
  /\ UNCHANGED <<isActive, balance, tokens, totalBytes, cur, bytes>>

UndoClaim(r) ==
  /\ Goto(r, "undo", "rejected")
  /\ inFlight' = inFlight - 1
  /\ UNCHANGED <<isActive, balance, tokens, totalBytes, cur, bytes>>

-----------------------------------------------------------------------------
\* release_and_meter, called with what the request has transferred

BeginRelease(r) ==
  /\ Goto(r, "admitted", "cas")
  /\ cur' = [cur EXCEPT ![r] = inFlight]
  /\ \E n \in Sizes : bytes' = [bytes EXCEPT ![r] = n]
  /\ UNCHANGED account

\* Mutants: the value read is stored without comparing; bytes are added on each
\* turn of the loop.
StoreSlot(r) ==
  /\ Goto(r, "cas", IF cur[r] = 0 THEN "dropped" ELSE "bytes")
  /\ inFlight' = IF cur[r] = 0 THEN inFlight ELSE cur[r] - 1
  /\ UNCHANGED <<isActive, balance, tokens, totalBytes, cur, bytes>>
ExchangeSlotMetering(r) ==
  /\ Goto(r, "cas", IF cur[r] = inFlight THEN "charge" ELSE "cas")
  /\ cur' = [cur EXCEPT ![r] = inFlight]
  /\ inFlight' = IF cur[r] = inFlight THEN cur[r] - 1 ELSE inFlight
  /\ totalBytes' = totalBytes + bytes[r]
  /\ UNCHANGED <<isActive, balance, tokens, bytes>>

\* One turn of the exchange loop.  cur = 0 would be a release without a slot,
\* dropped unbilled; an exchange that finds another value starts over from that
\* value.  (A spurious failure of the weak exchange finds the same value: it
\* changes nothing.)
ExchangeSlot(r) ==
  /\ pc[r] = "cas"
  /\ cur' = [cur EXCEPT ![r] = inFlight]
  /\ inFlight' = IF cur[r] # 0 /\ cur[r] = inFlight THEN cur[r] - 1 ELSE inFlight
  /\ pc' = [pc EXCEPT ![r] = IF cur[r] = 0 THEN "dropped"
                            ELSE IF cur[r] = inFlight THEN "bytes" ELSE "cas"]
  /\ UNCHANGED <<isActive, balance, tokens, totalBytes, bytes>>

AddBytes(r) ==
  /\ Goto(r, "bytes", "charge")
  /\ totalBytes' = totalBytes + bytes[r]
  /\ UNCHANGED <<isActive, balance, tokens, inFlight, cur, bytes>>

ChargeBalance(r) ==
  /\ Goto(r, "charge", "done")
  /\ balance' = balance - bytes[r] * Price
  /\ UNCHANGED <<isActive, tokens, inFlight, totalBytes, cur, bytes>>

-----------------------------------------------------------------------------
\* The control plane stores, and time refills the limiter.

SetActive ==
  /\ isActive' \in BOOLEAN
  /\ UNCHANGED <<balance, tokens, inFlight, totalBytes, pc, cur, bytes>>

SetBalance ==
  /\ balance' \in AdminBalances
  /\ UNCHANGED <<isActive, tokens, inFlight, totalBytes, pc, cur, bytes>>

Refill ==
  /\ tokens < Burst
  /\ tokens' = tokens + 1
  /\ UNCHANGED <<isActive, balance, inFlight, totalBytes, pc, cur, bytes>>

Step(r) ==
  \/ CheckActive(r) \/ CheckBalance(r) \/ CheckRate(r)
  \/ ClaimSlot(r) \/ UndoClaim(r)
  \/ BeginRelease(r) \/ ExchangeSlot(r) \/ AddBytes(r) \/ ChargeBalance(r)

Next == (\E r \in Requests : Step(r)) \/ SetActive \/ SetBalance \/ Refill

Spec == Init /\ [][Next]_vars

\* No operation of a request blocks: a worker thread runs it to its end.
FairSpec == Spec /\ \A r \in Requests : WF_vars(Step(r))

-----------------------------------------------------------------------------
\* Properties

At(labels) == {r \in Requests : pc[r] \in labels}

Owners == At({"admitted", "cas"})
Claimants == Owners \cup At({"undo"})

\* Every variable keeps its type; in_flight never wraps below zero.
TypeOK ==
  /\ isActive \in BOOLEAN
  /\ balance \in Int
  /\ tokens \in 0..Burst
  /\ inFlight \in Nat
  /\ totalBytes \in Nat
  /\ pc \in [Requests -> Labels]
  /\ cur \in [Requests -> Nat]
  /\ bytes \in [Requests -> Nat]

\* in_flight counts the requests that own a slot and those about to undo a
\* failed claim, and nothing else: no interleaving of fetch_add, fetch_sub and
\* the exchange loop loses or leaks a slot.
SlotsAccounted == inFlight = Cardinality(Claimants)

\* However the claims interleave, no more than max_concurrency requests are
\* past the gate at once: the overshoot of fetch_add admits nobody.
ConcurrencyBounded == Cardinality(Owners) <= MaxConc

\* A request that owns a slot is never taken for a double release: `cur` is
\* never read as zero while its reader owns a slot, so it is always billed.
ReleaseNeverDropped ==
  \A r \in Requests : /\ pc[r] # "dropped"
                      /\ pc[r] = "cas" => cur[r] > 0

\* total_bytes is the sum over the requests that have metered, each once,
\* however often their exchange had to be retried.
MeteredOnce ==
  totalBytes = MapThenSumSet(LAMBDA r : bytes[r], At({"charge", "done"}))

Ledger == INSTANCE SlotLedger
  WITH owners   <- Owners,
       refused  <- At({"undo", "rejected"}),
       returned <- At({"bytes", "charge", "done"})

\* The account implements the abstract ledger of slots, fairness included: an
\* owner is admitted only below max_concurrency and releases exactly once.
ImplementsLedger == Ledger!FairSpec

\* "a single deduction may take the balance below zero, the debt is stopped by
\* the next authenticate": no deduction finds the account already in debt.
OneDeductionIntoDebt == [][balance' < balance => balance > 0]_vars
=============================================================================
