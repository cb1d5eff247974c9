-------------------------------- MODULE Seed --------------------------------
(* The seed script of the development environment, backend/app/seed.py,     *)
(* which scripts/dev-up.sh runs on every start: twice at once, over what an *)
(* earlier run left, and cut off anywhere.  It is the only code that makes  *)
(* a tenant's first administrator.                                          *)
EXTENDS Accounts

CONSTANTS
    SeedTenants,    \* the slugs in the order of the script
    AdminEmail      \* AdminEmail[s]: the address of the administrator of s

ASSUME SeedAssumption ==
    /\ SeedTenants \in Seq(Tenants)
    /\ AdminEmail \in [Tenants -> Emails]

Statement(table, s, u) == [table |-> table, tenant |-> s, user |-> u, by |-> "seed"]

CommitWork == Statement("commit", None, None)

AdminOf(s) == <<s, AdminEmail[s]>>

\* Faulty: users and roles are committed before the roles are assigned.
SectionSplit(s) ==
    << Statement("users", s, AdminOf(s)),
       Statement("roles", s, None),
       Statement("role_permissions", s, None), CommitWork,
       Statement("role_assignments", s, AdminOf(s)) >>

\* The transaction of one tenant.
Section(s) ==
    << Statement("users", s, AdminOf(s)),
       Statement("roles", s, None),
       Statement("role_permissions", s, None),
       Statement("role_assignments", s, AdminOf(s)), CommitWork >>

N == Len(SeedTenants)

\* Statement i of the sections, which are five statements each.
InSections(i) == Section(SeedTenants[1 + ((i - 1) \div 5)])[1 + ((i - 1) % 5)]

\* Faulty: the permissions come last.
ScriptLate == [i \in 1..(6 * N + 3) |->
    CASE i <= N         -> Statement("tenants", SeedTenants[i], None)
      [] i = N + 1      -> CommitWork
      [] i = 6 * N + 2  -> Statement("permissions", None, None)
      [] i = 6 * N + 3  -> CommitWork
      [] OTHER          -> InSections(i - N - 1)]

Script == [i \in 1..(6 * N + 3) |->
    CASE i <= N         -> Statement("tenants", SeedTenants[i], None)
      [] i = N + 1      -> CommitWork
      [] i = N + 2      -> Statement("permissions", None, None)
      [] i = N + 3      -> CommitWork
      [] OTHER          -> InSections(i - N - 3)]

\* The rows an INSERT ... SELECT selects from.
Selects(w, r) ==
    CASE r.table = "role_permissions" ->
            Holds(Sees(w), "roles", r.tenant, None) /\ Holds(Sees(w), "permissions", None, None)
      [] r.table = "role_assignments" ->
            Holds(Sees(w), "roles", r.tenant, None) /\ Holds(Sees(w), "users", r.tenant, r.user)
      [] OTHER -> TRUE

-----------------------------------------------------------------------------
StartSeed(w) ==
    /\ job[w] = NoJob
    /\ job' = [job EXCEPT ![w] = [NoJob EXCEPT !.op = "seed", !.step = 1]]
    /\ UNCHANGED <<db, trail, tokens, unnamed>>

Seeding(w) == job[w].op = "seed" /\ job[w].step \in DOMAIN Script

\* INSERT ... ON CONFLICT DO NOTHING, or ... WHERE NOT EXISTS
Upsert(w) ==
    /\ Seeding(w)
    /\ LET r == Script[job[w].step] IN
       /\ r # CommitWork
       /\ KeyFree(w, r)
       /\ Advance(w, {q \in {r} : Selects(w, q) /\ ~Present(w, q)})
    /\ UNCHANGED <<db, trail, tokens, unnamed>>

CommitSection(w) ==
    /\ Seeding(w) /\ Script[job[w].step] = CommitWork
    /\ db' = db \cup job[w].writes
    /\ job' = [job EXCEPT ![w].step = @ + 1, ![w].writes = {}]
    /\ UNCHANGED <<trail, tokens, unnamed>>

Seeded(w) == job[w].op = "seed" /\ job[w].step \notin DOMAIN Script

EndSeed(w) == Seeded(w) /\ Abort(w)

SeedNext == \E w \in Workers : StartSeed(w) \/ Upsert(w) \/ CommitSection(w) \/ EndSeed(w)
=============================================================================
