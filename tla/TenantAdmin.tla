----------------------------- MODULE TenantAdmin -----------------------------
(* Administration of tenants over HTTP (backend/app/main.py) and the access  *)
(* tokens it is done with (deps.py, auth.py, security.py).  An administrator *)
(* is known by an access token alone; the token outlives the account.        *)
(*                                                                           *)
(* The hash chain of the audit log, its lock, passwords and lockout have     *)
(* modules of their own, and so have refresh tokens: a rotation judges and   *)
(* issues under the same lock as a login.                                    *)
EXTENDS Accounts

CONSTANTS
    MaxChanges,     \* bound on the audited changes
    MaxTokens       \* bound on the access tokens good at one time

ASSUME BoundsAssumption == MaxChanges \in Nat /\ MaxTokens \in Nat

Open == {w \in Workers : job[w].op = "write"}

Budget == Cardinality(trail) + Cardinality(Open) < MaxChanges

\* A request that will write r on behalf of u, None for the platform's own.
Begin(w, u, r) ==
    /\ job[w] = NoJob /\ Budget
    /\ job' = [job EXCEPT ![w] = [NoJob EXCEPT !.op = "write", !.step = 1, !.who = u, !.row = r]]
    /\ UNCHANGED <<db, trail, tokens, unnamed>>

CreateTenant(w, s) ==
    Begin(w, None, [table |-> "tenants", tenant |-> s, user |-> None, by |-> "platform"])

\* require_tenant_admin: the claim of the token, and the assignments as they
\* are now.  No code gives an assignment conditions.
Administers(u) == [user |-> u, admin |-> TRUE] \in tokens /\ IsAdmin(db, u)

ByAdmin(w, u, table, v) ==
    /\ Administers(u)
    /\ Begin(w, u, [table |-> table, tenant |-> u[1], user |-> v, by |-> u[1]])

\* Only the tenant of an invited user is the administrator's for certain: the
\* other requests carry ids, of any tenant.
InviteUser(w, u, e) == ByAdmin(w, u, "users", <<u[1], e>>)

DisableUser(w, u, v) == ByAdmin(w, u, "disabled", v)

AssignRole(w, u, v) == ByAdmin(w, u, "role_assignments", v)

\* Faulty: no foreign key names the tenant next to the user.
AdmittedAnywhere(w, r) ==
    \/ r.table # "role_assignments" /\ ~Present(w, r)
    \/ r.table = "role_assignments" /\ r.user \in {q.user : q \in Sees(w)}

\* The unique keys, and the foreign key (tenant_id, user_id).  A request that
\* breaks one is answered 409, and Abort is its end.
Admitted(w, r) ==
    \/ r.table # "role_assignments" /\ ~Present(w, r)
    \/ r.table = "role_assignments" /\ Holds(Sees(w), "users", r.tenant, r.user)

Insert(w) ==
    LET r == job[w].row IN
    /\ job[w].op = "write" /\ job[w].step = 1 /\ r.table # "disabled"
    /\ KeyFree(w, r) /\ Admitted(w, r)
    /\ Advance(w, {r})
    /\ UNCHANGED <<db, trail, tokens, unnamed>>

\* Faulty: row-level security does not apply to the role of the application.
VisibleAll(w, r) == r.user \in {q.user : q \in Sees(w)}

\* The policy tenant_isolation hides the users of other tenants.
Visible(w, r) == Holds(Sees(w), "users", r.tenant, r.user)

\* An UPDATE of no row is not an error.
Update(w) ==
    LET r == job[w].row IN
    /\ job[w].op = "write" /\ job[w].step = 1 /\ r.table = "disabled"
    /\ Visible(w, r) => ~UserLocked(w, r.user)
    /\ Advance(w, {q \in {r} : Visible(w, q)})
    /\ UNCHANGED <<db, trail, tokens, unnamed>>

\* Faulty: the row is committed before its entry is appended.
AuditAlone(w) ==
    /\ job[w].op = "write" /\ job[w].step = 2
    /\ db' = db \cup job[w].writes
    /\ job' = [job EXCEPT ![w].step = 3, ![w].entries = {job[w].row}]
    /\ UNCHANGED <<trail, tokens, unnamed>>

\* append_audit, whatever the statement before it has touched
Audit(w) ==
    /\ job[w].op = "write" /\ job[w].step = 2
    /\ job' = [job EXCEPT ![w].step = 3, ![w].entries = {job[w].row}]
    /\ UNCHANGED <<db, trail, tokens, unnamed>>

CommitWrite(w) ==
    /\ job[w].op = "write" /\ job[w].step = 3
    /\ db' = db \cup job[w].writes
    /\ trail' = trail \cup job[w].entries
    /\ job' = [job EXCEPT ![w] = NoJob]
    /\ UNCHANGED <<tokens, unnamed>>

-----------------------------------------------------------------------------
(* Access tokens                                                             *)
Accounts(e) == {r.user : r \in {q \in db : q.table = "users" /\ q.user[2] = e}}

\* Faulty: some account of the address, as before migration 0004.
ResolveSome(e, s) == {u \in Accounts(e) : s \in {None, u[1]}}

\* resolve_login_identity: with no tenant named, only an address of one tenant
Resolve(e, s) ==
    {u \in Accounts(e) : \/ u[1] = s
                         \/ s = None /\ Accounts(e) = {u}}

StartLogin(w, e, s) ==
    /\ job[w] = NoJob
    /\ \E u \in Resolve(e, s) :
          job' = [job EXCEPT ![w] = [NoJob EXCEPT !.op = "login", !.step = 1, !.who = u,
                                                  !.named = (s # None)]]
    /\ UNCHANGED <<db, trail, tokens, unnamed>>

\* Faulty: the row of the lookup is judged, and the lock is taken later.
LockUserLate(w) ==
    /\ job[w].op = "login" /\ job[w].step = 1
    /\ ~Disabled(job[w].who)
    /\ Advance(w, {})
    /\ UNCHANGED <<db, trail, tokens, unnamed>>

\* FOR UPDATE, and the judgement of the row as it is once it is held; of a
\* login that is turned away Abort is the end.
LockUser(w) ==
    /\ job[w].op = "login" /\ job[w].step = 1
    /\ ~UserLocked(w, job[w].who) /\ ~Disabled(job[w].who)
    /\ Advance(w, {})
    /\ UNCHANGED <<db, trail, tokens, unnamed>>

\* Faulty: the token names the tenant in place of the user.
IssueForTenant(w) ==
    LET u == job[w].who IN
    /\ job[w].op = "login" /\ job[w].step = 2
    /\ Cardinality(tokens) < MaxTokens
    /\ tokens' = tokens \cup {[user |-> u[1], admin |-> IsAdmin(db, u)]}
    /\ unnamed' = IF job[w].named THEN unnamed ELSE unnamed \cup {u}
    /\ job' = [job EXCEPT ![w] = NoJob]
    /\ UNCHANGED <<db, trail>>

\* The permissions are read, the token signed and the transaction committed.
IssueAccessToken(w) ==
    LET u == job[w].who IN
    /\ job[w].op = "login" /\ job[w].step = 2
    /\ Cardinality(tokens) < MaxTokens
    /\ tokens' = tokens \cup {[user |-> u, admin |-> IsAdmin(db, u)]}
    /\ unnamed' = IF job[w].named THEN unnamed ELSE unnamed \cup {u}
    /\ job' = [job EXCEPT ![w] = NoJob]
    /\ UNCHANGED <<db, trail>>

Expire(t) ==
    /\ tokens' = tokens \ {t}
    /\ UNCHANGED <<db, trail, unnamed, job>>

AdminNext ==
    \/ \E w \in Workers :
          \/ \E s \in Tenants : CreateTenant(w, s)
          \/ \E u \in Users, e \in Emails : InviteUser(w, u, e)
          \/ \E u, v \in Users : DisableUser(w, u, v) \/ AssignRole(w, u, v)
          \/ Insert(w) \/ Update(w) \/ Audit(w) \/ CommitWrite(w)
          \/ \E e \in Emails, s \in Tenants \cup {None} : StartLogin(w, e, s)
          \/ LockUser(w) \/ IssueAccessToken(w)
          \/ Abort(w)
    \/ \E t \in tokens : Expire(t)
=============================================================================
