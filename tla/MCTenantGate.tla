---------------------------- MODULE MCTenantGate ----------------------------
(* Small instances of TenantGate for TLC. *)
EXTENDS TenantGate

\* A top-up and a penalty: the control plane may store a negative balance.
TopUpOrPenalty == {-1, 2}
=============================================================================
