---------------------------- MODULE MCAuditVerify ----------------------------
(* Chains of at most three rows, changed behind their back.                  *)
EXTENDS AuditVerify

CONSTANTS b1, b2, e1, e2, e3

MCBodies == {b1, b2}
MCIds == {e1, e2, e3}
MCSymmetry == Permutations(MCBodies) \cup Permutations(MCIds)
=============================================================================
