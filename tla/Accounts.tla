------------------------------ MODULE Accounts ------------------------------
(* The tables behind tenant administration, and the transactions that work *)
(* on them: backend/alembic/versions/0001_secure_foundation.py, as          *)
(* backend/app/seed.py, main.py and auth.py use it.                         *)
(*                                                                          *)
(* A row is what a transaction added: an INSERT, or the setting of          *)
(* disabled_at, the row of the table "disabled" here.  No code deletes one. *)
(* Every tenant has the one role tenant_admin, the only one that code       *)
(* creates, and tenant:admin is the permission that matters.                *)
EXTENDS Integers, Sequences, FiniteSets

CONSTANTS
    Tenants,    \* slugs; a slug and the tenant's id stand for each other
    Emails,
    Workers,    \* processes that seed, administer or log someone in
    None

ASSUME NamesAssumption == Tenants \cap {"seed", "platform", None} = {}

VARIABLES
    db,         \* committed rows
    trail,      \* committed entries of audit_log: the row each one is about
    tokens,     \* access tokens not run out: whose, and with tenant:admin or not
    unnamed,    \* history: accounts opened by logins that named no tenant
    job         \* what each worker is at

vars == <<db, trail, tokens, unnamed, job>>

Users == Tenants \X Emails

Tables == {"tenants", "permissions", "users", "disabled", "roles",
           "role_permissions", "role_assignments"}

\* tenant: the tenant_id of the row; user: the one it is or points at; by: the
\* tenant of the administrator who wrote it.
Row == [table : Tables, tenant : Tenants \cup {None}, user : Users \cup {None},
        by : Tenants \cup {"seed", "platform"}]

\* who acts or logs in, whether by a login that names the tenant, the row a
\* request is about, and what the open transaction wrote.
NoJob == [op |-> "none", step |-> 0, who |-> None, named |-> TRUE, row |-> None,
          writes |-> {}, entries |-> {}]

Jobs == [op : {"none", "seed", "write", "login"}, step : Nat, who : Users \cup {None},
         named : BOOLEAN, row : {None} \cup Row, writes : SUBSET Row, entries : SUBSET Row]

Init ==
    /\ db = {} /\ trail = {} /\ tokens = {} /\ unnamed = {}
    /\ job = [w \in Workers |-> NoJob]

-----------------------------------------------------------------------------
SameKey(r, q) == <<r.table, r.tenant, r.user>> = <<q.table, q.tenant, q.user>>

Holds(rows, table, tenant, user) ==
    \E r \in rows : <<r.table, r.tenant, r.user>> = <<table, tenant, user>>

\* A statement sees what is committed and what its own transaction wrote.
Sees(w) == db \cup job[w].writes

Present(w, r) == \E q \in Sees(w) : SameKey(q, r)

\* An INSERT waits for an open transaction that has inserted the same key.
\* role_assignments has no key but its id.
KeyFree(w, r) ==
    r.table # "role_assignments" =>
        \A v \in Workers \ {w} : ~\E q \in job[v].writes : SameKey(q, r)

\* FOR UPDATE of a login and the UPDATE of disable_user hold the users row.
UserLocked(w, u) ==
    \E v \in Workers \ {w} :
        \/ job[v].op = "login" /\ job[v].step = 2 /\ job[v].who = u
        \/ \E r \in job[v].writes : r.table = "disabled" /\ r.user = u

Disabled(u) == \E r \in db : r.table = "disabled" /\ r.user = u

IsAdmin(rows, u) ==
    /\ Holds(rows, "role_assignments", u[1], u)
    /\ Holds(rows, "role_permissions", u[1], None)

Advance(w, rows) ==
    job' = [job EXCEPT ![w].step = @ + 1, ![w].writes = @ \cup rows]

\* The end of a transaction without effect: an exception, a failure of the
\* database, a crash of the process.
Abort(w) ==
    /\ job[w] # NoJob
    /\ job' = [job EXCEPT ![w] = NoJob]
    /\ UNCHANGED <<db, trail, tokens, unnamed>>

\* The type invariant of the variables.
TypeOK ==
    /\ db \subseteq Row /\ trail \subseteq Row
    /\ tokens \subseteq [user : Users, admin : BOOLEAN]
    /\ unnamed \subseteq Users
    /\ job \in [Workers -> Jobs]
=============================================================================
