----------------------------- MODULE AuditTrail -----------------------------
(* What the audit log promises (docs/database-schema.md: "Audit is         *)
(* append-only with a per-tenant prev_hash/entry_hash chain"): each tenant *)
(* has one sequence of entries, and the only thing that ever happens to it *)
(* is that one entry is added at its end.  No transaction, no lock and no  *)
(* hash is visible here.                                                   *)
EXTENDS Sequences

CONSTANTS Tenants, Bodies

VARIABLE trail      \* trail[t]: the entries of tenant t, oldest first

Init == trail = [t \in Tenants |-> <<>>]

Record(t, b) == trail' = [trail EXCEPT ![t] = Append(trail[t], b)]

Next == \E t \in Tenants, b \in Bodies : Record(t, b)

Spec == Init /\ [][Next]_trail
=============================================================================
