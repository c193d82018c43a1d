----------------------------- MODULE SlotLedger -----------------------------
(***************************************************************************)
(* What a tenant account promises about concurrency, without saying how:   *)
(* every request is either refused or owns one of MaxConc slots, and every *)
(* slot that is owned is given back exactly once.  TenantGate, which works *)
(* with single atomic operations on a shared counter, implements this.     *)
(***************************************************************************)
EXTENDS Naturals, FiniteSets

CONSTANTS Requests,  \* the requests that present this tenant's key
          MaxConc    \* the tenant's max_concurrency

VARIABLES owners,    \* requests that own a slot
          refused,   \* requests turned away
          returned   \* requests that gave their slot back

vars == <<owners, refused, returned>>

Fresh(r) == r \notin owners \cup refused \cup returned

Init == owners = {} /\ refused = {} /\ returned = {}

Acquire(r) ==
  /\ Fresh(r)
  /\ Cardinality(owners) < MaxConc
  /\ owners' = owners \cup {r}
  /\ UNCHANGED <<refused, returned>>

\* A refusal may come for any reason (disabled, in debt, too fast, full).
Refuse(r) ==
  /\ Fresh(r)
  /\ refused' = refused \cup {r}
  /\ UNCHANGED <<owners, returned>>

Release(r) ==
  /\ r \in owners
  /\ owners' = owners \ {r}
  /\ returned' = returned \cup {r}
  /\ UNCHANGED refused

Next == \E r \in Requests : Acquire(r) \/ Refuse(r) \/ Release(r)

Spec == Init /\ [][Next]_vars

FairSpec == Spec /\ \A r \in Requests : WF_vars(Release(r))
=============================================================================
