---------------------------- MODULE MfaEnrollment ----------------------------
(* setup_mfa and confirm_mfa (backend/app/main.py), each in the session    *)
(* its dependency opened (tenant_session, backend/app/deps.py).            *)
(*                                                                         *)
(* Both ask a result for its value twice in one condition.  A result of    *)
(* SQLAlchemy 2 closes itself when scalar_one_or_none has found it to hold *)
(* one row, and any further question to it raises ResourceClosedError.  So *)
(* a result is modelled by what may still be asked of it.                  *)
EXTENDS FiniteSets

CONSTANTS Users, Secrets, Requests, None

VARIABLES
    enabled,    \* users with mfa_enabled
    pending,    \* totp_enrollments: the secret of each user, or None
    confirmed,  \* totp_secrets
    pc,
    request,    \* which handler, for whom, with which secret
    result,     \* the SELECT of mfa_enabled: "none", "open" or "closed"
    answer      \* the last answer of each connection

tables == <<enabled, pending, confirmed>>
vars == <<tables, pc, request, result, answer>>

NoRequest == [op |-> "none", who |-> None, secret |-> None]

Init ==
    /\ enabled = {}
    /\ pending = [u \in Users |-> None] /\ confirmed = [u \in Users |-> None]
    /\ pc = [r \in Requests |-> "idle"]
    /\ request = [r \in Requests |-> NoRequest]
    /\ result = [r \in Requests |-> "none"]
    /\ answer = [r \in Requests |-> "none"]

\* The transaction ends, by a commit or by the rollback of an exception.
Answer(r, a) ==
    /\ answer' = [answer EXCEPT ![r] = a]
    /\ pc' = [pc EXCEPT ![r] = "idle"]
    /\ request' = [request EXCEPT ![r] = NoRequest]
    /\ result' = [result EXCEPT ![r] = "none"]

Goto(r, from, to) == pc[r] = from /\ pc' = [pc EXCEPT ![r] = to]

\* A secret the server made (setup) or one the client sends back (confirm).
Begin(r, op, u, s) ==
    /\ Goto(r, "idle", IF op = "setup" THEN "select" ELSE "pending")
    /\ request' = [request EXCEPT ![r] = [op |-> op, who |-> u, secret |-> s]]
    /\ UNCHANGED <<tables, result, answer>>

Held(u) == \E r \in Requests : result[r] # "none" /\ request[r].who = u

\* confirm_mfa: the pending enrollment and the proof that the user has it.  The
\* row of totp_enrollments, if there is one, stays locked; a second confirm of
\* the user then waits here rather than at the users row.
CheckPending(r, codeIsRight) ==
    /\ pc[r] = "pending"
    /\ IF codeIsRight /\ pending[request[r].who] = request[r].secret
       THEN pc' = [pc EXCEPT ![r] = "select"] /\ UNCHANGED <<request, result, answer>>
       ELSE Answer(r, "400")
    /\ UNCHANGED tables

\* SELECT mfa_enabled FROM users ... FOR UPDATE
SelectEnabled(r) ==
    /\ Goto(r, "select", "first")
    /\ ~Held(request[r].who)
    /\ result' = [result EXCEPT ![r] = "open"]
    /\ UNCHANGED <<tables, request, answer>>

\* current.scalar_one_or_none() is None: the user exists, so the condition
\* goes on to its second half.
AskFirst(r) ==
    /\ Goto(r, "first", "second")
    /\ result' = [result EXCEPT ![r] = "closed"]
    /\ UNCHANGED <<tables, request, answer>>

\* current.scalar() in setup_mfa, current.scalar_one() in confirm_mfa
AskSecond(r) ==
    /\ pc[r] = "second"
    /\ CASE result[r] = "closed" -> Answer(r, "500")
         [] result[r] = "open" /\ request[r].who \in enabled -> Answer(r, "409")
         [] OTHER -> pc' = [pc EXCEPT ![r] = "write"] /\ UNCHANGED <<request, result, answer>>
    /\ UNCHANGED tables

\* The writes of either handler, the audit entry and the commit.
Enroll(r) ==
    /\ pc[r] = "write" /\ request[r].op = "setup"
    /\ pending' = [pending EXCEPT ![request[r].who] = request[r].secret]
    /\ Answer(r, "secret")
    /\ UNCHANGED <<enabled, confirmed>>

Confirm(r) ==
    /\ pc[r] = "write" /\ request[r].op = "confirm"
    /\ confirmed' = [confirmed EXCEPT ![request[r].who] = request[r].secret]
    /\ pending' = [pending EXCEPT ![request[r].who] = None]
    /\ enabled' = enabled \cup {request[r].who}
    /\ Answer(r, "enabled")

Next ==
    \E r \in Requests :
        \/ \E op \in {"setup", "confirm"}, u \in Users, s \in Secrets : Begin(r, op, u, s)
        \/ \E codeIsRight \in BOOLEAN : CheckPending(r, codeIsRight)
        \/ SelectEnabled(r) \/ AskFirst(r) \/ AskSecond(r) \/ Enroll(r) \/ Confirm(r)

Spec == Init /\ [][Next]_vars

-----------------------------------------------------------------------------
\* .agents/skills/testing-phase1-auth/SKILL.md:53 says that a setup "returns
\* the base32 secret + 10 recovery codes once": for a user without a second
\* factor, with nothing failing around it, it answers with the secret.
SetupReturnsSecret ==
    [][\A r \in Requests :
          request[r].op = "setup" /\ request[r].who \notin enabled /\ pc'[r] = "idle"
              => answer'[r] = "secret"]_vars
=============================================================================
