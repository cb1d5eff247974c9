------------------------------ MODULE Sessions ------------------------------
(* What login, rotation, logout and disable_user promise together.  A       *)
(* session is opened by a login and named by its first token.  While it is  *)
(* open exactly one token continues it; exchanging that token puts a new    *)
(* one in its place; and once it has ended nothing opens it again.  The     *)
(* disabling of a user ends all the user's sessions at once.  No rows, no   *)
(* locks and no transactions are visible here.                              *)
CONSTANTS Users, Tokens, None

VARIABLES
    live,       \* live[f]: the token that continues session f, None if none does
    holder,     \* holder[f]: the user whose session f is, None before it opens
    handedOut,  \* tokens that have been given to clients
    disabled

vars == <<live, holder, handedOut, disabled>>

Init ==
    /\ live = [f \in Tokens |-> None]
    /\ holder = [f \in Tokens |-> None]
    /\ handedOut = {} /\ disabled = {}

Open(f, u) ==
    /\ u \notin disabled /\ f \notin handedOut
    /\ live' = [live EXCEPT ![f] = f]
    /\ holder' = [holder EXCEPT ![f] = u]
    /\ handedOut' = handedOut \cup {f}
    /\ UNCHANGED disabled

Refresh(f, t) ==
    /\ live[f] # None /\ t \notin handedOut
    /\ live' = [live EXCEPT ![f] = t]
    /\ handedOut' = handedOut \cup {t}
    /\ UNCHANGED <<holder, disabled>>

\* A logout, or a token that was exchanged before or has run out.
Close(f) ==
    /\ live' = [live EXCEPT ![f] = None]
    /\ UNCHANGED <<holder, handedOut, disabled>>

Disable(u) ==
    /\ disabled' = disabled \cup {u}
    /\ live' = [f \in Tokens |-> IF holder[f] = u THEN None ELSE live[f]]
    /\ UNCHANGED <<holder, handedOut>>

Next ==
    \/ \E f \in Tokens, u \in Users : Open(f, u)
    \/ \E f, t \in Tokens : Refresh(f, t)
    \/ \E f \in Tokens : Close(f)
    \/ \E u \in Users : Disable(u)

Spec == Init /\ [][Next]_vars
=============================================================================
