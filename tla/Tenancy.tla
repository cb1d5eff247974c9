------------------------------- MODULE Tenancy -------------------------------
(* The seed script and the administration of tenants on one database.        *)
EXTENDS Seed, TenantAdmin

Next == SeedNext \/ AdminNext

Spec == Init /\ [][Next]_vars

\* Two runs of the seed script never give an administrator the role twice:
\* role_assignments has no unique key, the WHERE NOT EXISTS of one run does not
\* see the other's insert, and only the key of the users row keeps the two
\* sections apart (seed.py, the last statement).
SeedGrantsOnce ==
    \A w \in Workers : \A r \in job[w].writes :
        r.table = "role_assignments" /\ r.by = "seed" => r \notin db

\* Whatever runs were cut off before it or go on beside it, a run of the seed
\* script that ends leaves an administrator in each of its tenants.
SeedComplete ==
    \A w \in Workers, i \in DOMAIN SeedTenants :
        Seeded(w) => /\ Holds(db, "tenants", SeedTenants[i], None)
                     /\ Holds(db, "users", SeedTenants[i], AdminOf(SeedTenants[i]))
                     /\ IsAdmin(db, AdminOf(SeedTenants[i]))

\* What an administrator's request leaves behind is a row of the administrator's
\* tenant about a user of that tenant, whatever ids the request names
\* (main.py, disable_user and assign_role; docs/security-controls.md, SC-01).
OwnTenantOnly ==
    \A r \in db : r.by \in Tenants => r.tenant = r.by /\ (r.user # None => r.user[1] = r.by)

\* No change of an administrator or the platform is there without its entry in
\* the audit log, wherever a handler stops (docs/sprint-plan-30d.md:10, "Every
\* admin action auditable").
EffectIsAudited == \A r \in db : r.by # "seed" => r \in trail

\* Once the disabling of a user is committed no access token is issued to the
\* user: what the account can still do, and it can administer, ends with the
\* tokens it has (deps.py, authenticated_principal does not ask the database).
NoTokenForDisabled ==
    [][\A t \in tokens' \ tokens : ~Disabled(t.user)]_vars

\* Logins that name no tenant open the same account at all times: another
\* tenant that takes the address closes that door and opens no other
\* (migration 0004, resolve_login_identity).
OneAccountPerEmail == \A u, v \in unnamed : u[2] = v[2] => u = v
=============================================================================
