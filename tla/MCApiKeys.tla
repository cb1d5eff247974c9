------------------------------ MODULE MCApiKeys ------------------------------
(* Two hosts besides the proxy, and a forged entry.                          *)
EXTENDS ApiKeys, TLC

CONSTANTS k1, c1, a1, a2, a3, home, cafe

MCKeys == {k1}
MCClients == {c1}
MCAdmins == {a1, a2, a3}
MCHosts == {home, cafe}
MCSymmetry == Permutations(MCAdmins) \cup Permutations(MCHosts)
=============================================================================
