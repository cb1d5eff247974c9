---------------------------- MODULE MCLoginLockout ----------------------------
(* An account with a second factor and one recovery code.                    *)
EXTENDS LoginLockout, TLC

CONSTANTS alice, c1, l1, l2, l3

MCUsers == {alice}
MCProtected == {alice}
MCCodes == {c1}
MCThreeLogins == {l1, l2, l3}
MCSymmetry == Permutations(MCThreeLogins)
=============================================================================
