---------------------------- MODULE LoginLockout -----------------------------
(* authenticate (backend/app/auth.py) seen from one side: the failure      *)
(* counter, the lock on the account and the recovery codes, with several   *)
(* logins of an account at once and the clock running between the steps.   *)
(* The tokens a login issues are in RefreshFamilies.                       *)
(*                                                                         *)
(* A login reads the clock, waits for the users row, reads it, judges, and *)
(* commits.  Nobody else writes the row while it is held, so the judgement *)
(* and the commit are one action here.  The audit lock taken in between    *)
(* delays a login or, when its holder wants the row for the key of its own *)
(* entry, ends one of the two, which for a login is Abort.                 *)
(*                                                                         *)
(* Left out: unknown and ambiguous e-mail addresses, which end the request *)
(* before any row of users is read.                                        *)
EXTENDS Integers, FiniteSets

CONSTANTS
    Users,
    Protected,  \* users with mfa_enabled and a row of totp_secrets
    Codes,      \* recovery codes, the same set issued to each of them
    Logins,     \* connections, each serving one login at a time
    None,
    Threshold,  \* failures that lock the account: 5
    Hold,       \* how long it stays locked: 15 minutes
    LastTick    \* bound on the clock

ASSUME LockoutAssumption ==
    /\ Protected \subseteq Users
    /\ Threshold \in Nat \ {0} /\ Hold \in Nat \ {0} /\ LastTick \in Nat
    /\ None \notin Users
    /\ Codes \cap {"totp", "wrong", "absent"} = {}

\* What a client sends for totp_code.  A code of the authenticator stays good
\* for its time step: nothing remembers it was used.
Factors == Codes \cup {"totp", "wrong", "absent"}

VARIABLES
    clock,
    failed,     \* failed_login_count
    lockedUntil,\* locked_until, 0 for NULL
    codes,      \* recovery_code_hashes
    disabled,   \* users with disabled_at set
    pc,
    try,        \* who logs in, whether the password is right, the second factor
    now,        \* the time the login has read
    seen,       \* the rows as the login has read them
    opened,     \* history: sessions each recovery code has opened
    guesses     \* history: wrong guesses answered as such since the last success

account == <<failed, lockedUntil, codes, disabled>>
local == <<try, now, seen>>
history == <<opened, guesses>>
vars == <<clock, account, pc, local, history>>

NoTry == [who |-> None, password |-> FALSE, factor |-> "absent"]
Unseen == [locked |-> 0, disabled |-> FALSE, codes |-> {}]

-----------------------------------------------------------------------------
Init ==
    /\ clock = 0
    /\ failed = [u \in Users |-> 0] /\ lockedUntil = [u \in Users |-> 0]
    /\ codes = [u \in Users |-> IF u \in Protected THEN Codes ELSE {}]
    /\ disabled = {}
    /\ pc = [l \in Logins |-> "idle"]
    /\ try = [l \in Logins |-> NoTry]
    /\ now = [l \in Logins |-> 0]
    /\ seen = [l \in Logins |-> Unseen]
    /\ opened = [u \in Users |-> [c \in Codes |-> 0]]
    /\ guesses = [u \in Users |-> 0]

\* resolve_login_identity has found the user; the clock is read here, before
\* the wait for the row.
Begin(l, t) ==
    /\ pc[l] = "idle"
    /\ pc' = [pc EXCEPT ![l] = "lockUser"]
    /\ try' = [try EXCEPT ![l] = t]
    /\ now' = [now EXCEPT ![l] = clock]
    /\ UNCHANGED <<clock, account, seen, history>>

Held(u) == \E l \in Logins : pc[l] = "judge" /\ try[l].who = u

Row(u) == [locked |-> lockedUntil[u], disabled |-> u \in disabled, codes |-> codes[u]]

\* Faulty: SELECT without FOR UPDATE.
LockUserNot(l) ==
    /\ pc[l] = "lockUser"
    /\ pc' = [pc EXCEPT ![l] = "judge"]
    /\ seen' = [seen EXCEPT ![l] = Row(try[l].who)]
    /\ UNCHANGED <<clock, account, try, now, history>>

\* SELECT ... FOR UPDATE, and the row of totp_secrets read under that lock.
LockUser(l) ==
    /\ pc[l] = "lockUser" /\ ~Held(try[l].who)
    /\ pc' = [pc EXCEPT ![l] = "judge"]
    /\ seen' = [seen EXCEPT ![l] = Row(try[l].who)]
    /\ UNCHANGED <<clock, account, try, now, history>>

\* Faulty: locked_until is not looked at.
UnavailableDisabled(l) == seen[l].disabled

Unavailable(l) == seen[l].disabled \/ seen[l].locked > now[l]

\* The second factor is a recovery code the user still has.
Recovers(l) == try[l].who \in Protected /\ try[l].factor \in seen[l].codes

Valid(l) ==
    /\ try[l].password
    /\ try[l].who \in Protected => try[l].factor = "totp" \/ Recovers(l)

End(l) ==
    /\ pc' = [pc EXCEPT ![l] = "idle"]
    /\ try' = [try EXCEPT ![l] = NoTry]
    /\ now' = [now EXCEPT ![l] = 0]
    /\ seen' = [seen EXCEPT ![l] = Unseen]

\* An audit entry and nothing else.
Deny(l) ==
    /\ pc[l] = "judge" /\ Unavailable(l)
    /\ End(l)
    /\ UNCHANGED <<clock, account, history>>

\* Faulty: a lock that grows with every failure.
FailLonger(l) ==
    LET u == try[l].who IN
    /\ pc[l] = "judge" /\ ~Unavailable(l) /\ ~Valid(l)
    /\ failed' = [failed EXCEPT ![u] = @ + 1]
    /\ lockedUntil' = [lockedUntil EXCEPT ![u] = IF failed[u] + 1 >= Threshold
                                                 THEN now[l] + Hold * (failed[u] + 1) ELSE @]
    /\ guesses' = [guesses EXCEPT ![u] = @ + 1]
    /\ End(l)
    /\ UNCHANGED <<clock, codes, disabled, opened>>

\* The count goes on from where it was: an expired lock does not reset it.
Fail(l) ==
    LET u == try[l].who IN
    /\ pc[l] = "judge" /\ ~Unavailable(l) /\ ~Valid(l)
    /\ failed' = [failed EXCEPT ![u] = @ + 1]
    /\ lockedUntil' = [lockedUntil EXCEPT ![u] = IF failed[u] + 1 >= Threshold THEN now[l] + Hold ELSE @]
    /\ guesses' = [guesses EXCEPT ![u] = @ + 1]
    /\ End(l)
    /\ UNCHANGED <<clock, codes, disabled, opened>>

\* The whole array of codes is written back, without the one just used.
Succeed(l) ==
    LET u == try[l].who
        c == try[l].factor
    IN  /\ pc[l] = "judge" /\ ~Unavailable(l) /\ Valid(l)
        /\ failed' = [failed EXCEPT ![u] = 0]
        /\ lockedUntil' = [lockedUntil EXCEPT ![u] = 0]
        /\ codes' = IF Recovers(l) THEN [codes EXCEPT ![u] = seen[l].codes \ {c}] ELSE codes
        /\ opened' = IF Recovers(l) THEN [opened EXCEPT ![u][c] = @ + 1] ELSE opened
        /\ guesses' = [guesses EXCEPT ![u] = 0]
        /\ End(l)
        /\ UNCHANGED <<clock, disabled>>

\* The handler fails, the connection is lost, the server stops.
Abort(l) ==
    /\ pc[l] # "idle"
    /\ End(l)
    /\ UNCHANGED <<clock, account, history>>

\* disable_user, which waits for the row like anyone else.
Disable(u) ==
    /\ ~Held(u)
    /\ disabled' = disabled \cup {u}
    /\ UNCHANGED <<clock, failed, lockedUntil, codes, pc, local, history>>

Tick ==
    /\ clock < LastTick
    /\ clock' = clock + 1
    /\ UNCHANGED <<account, pc, local, history>>

\* With a wrong password the second factor is never looked at.
Tries == {t \in [who : Users, password : BOOLEAN, factor : Factors] : t.password \/ t.factor = "absent"}

Step(l) ==
    \/ \E t \in Tries : Begin(l, t)
    \/ LockUser(l) \/ Deny(l) \/ Fail(l) \/ Succeed(l) \/ Abort(l)

Next == (\E l \in Logins : Step(l)) \/ (\E u \in Users : Disable(u)) \/ Tick

Spec == Init /\ [][Next]_vars

-----------------------------------------------------------------------------
\* The type invariant of the module's variables.
TypeOK ==
    /\ clock \in 0 .. LastTick
    /\ failed \in [Users -> Nat]
    /\ lockedUntil \in [Users -> 0 .. LastTick + Hold]
    /\ codes \in [Users -> SUBSET Codes]
    /\ disabled \subseteq Users
    /\ pc \in [Logins -> {"idle", "lockUser", "judge"}]
    /\ try \in [Logins -> [who : Users \cup {None}, password : BOOLEAN, factor : Factors]]
    /\ now \in [Logins -> 0 .. LastTick]
    /\ seen \in [Logins -> [locked : 0 .. LastTick + Hold, disabled : BOOLEAN, codes : SUBSET Codes]]
    /\ opened \in [Users -> [Codes -> Nat]] /\ guesses \in [Users -> Nat]

\* However many logins run at once, a guesser has Threshold - 1 wrong guesses
\* free and after those one in every Hold: no more have been answered since
\* the owner's last success than the clock allows.  This is what the counter,
\* the lock and the row lock are for (auth.py, authenticate), and it holds with
\* the clock read before the wait for the row and with a count that outlives
\* its lock.
GuessesBounded ==
    \A u \in Users : guesses[u] <= Threshold + clock \div Hold

\* A failure never shortens a lock, though it computes the end of the lock
\* from a time read before it waited for the row; only a success ends one.
LockNeverShortened ==
    [][\A u \in Users : lockedUntil'[u] >= lockedUntil[u] \/ failed'[u] = 0]_vars

\* No session is opened for an account that is locked or disabled at the
\* moment the login commits, however long before that it began.
OpensOnlyAvailable ==
    [][\A l \in Logins :
          Succeed(l) => try[l].who \notin disabled /\ lockedUntil[try[l].who] <= clock]_vars

\* A recovery code opens one session at most, however many logins present it
\* at once and whichever of them fail after the code was found good.
RecoveryCodeOnce == \A u \in Users : \A c \in Codes : opened[u][c] <= 1
=============================================================================
