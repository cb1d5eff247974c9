----------------------------- MODULE MCAuditLog -----------------------------
(* Three connections write for two tenants with one lock key.              *)
EXTENDS AuditLog

CONSTANTS acme, bank, x1, x2, x3, b1, b2

MCTenants == {acme, bank}
MCTxns == {x1, x2, x3}
MCBodies == {b1, b2}
MCOneKey == [t \in MCTenants |-> "key"]
=============================================================================
