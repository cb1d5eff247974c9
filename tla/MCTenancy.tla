------------------------------ MODULE MCTenancy ------------------------------
(* Two tenants, each seeded with the address the other may invite.           *)
EXTENDS Tenancy, TLC

CONSTANTS one, two, ana, ben, w1, w2

MCTenants == {one, two}
MCEmails == {ana, ben}
MCWorkers == {w1, w2}
MCSeedTenants == <<one, two>>
MCAdminEmail == [s \in MCTenants |-> IF s = one THEN ana ELSE ben]
MCSymmetry == Permutations(MCWorkers)
=============================================================================
