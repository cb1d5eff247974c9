-------------------------- MODULE MCRefreshFamilies --------------------------
(* An administrator and a user; families of up to three tokens in all.      *)
EXTENDS RefreshFamilies, TLC

CONSTANTS admin, user, t1, t2, t3, r1, r2

MCUsers == {admin, user}
MCOneUser == {user}
MCTwoTokens == {t1, t2}
MCThreeTokens == {t1, t2, t3}
MCTwoRequests == {r1, r2}
MCDeep == Permutations(MCUsers) \cup Permutations(MCThreeTokens) \cup Permutations(MCTwoRequests)
=============================================================================
