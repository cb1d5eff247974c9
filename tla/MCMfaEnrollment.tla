--------------------------- MODULE MCMfaEnrollment ---------------------------
(* One user, two secrets, two requests.                                     *)
EXTENDS MfaEnrollment

CONSTANTS alice, s1, s2, r1, r2

MCUsers == {alice}
MCSecrets == {s1, s2}
MCRequests == {r1, r2}
=============================================================================
