---------------------------- MODULE TenancyProofs ----------------------------
(* Proofs about tenant administration and the seed script, for any tenants,  *)
(* addresses, workers and bounds, and any list of tenants to seed.           *)
(*                                                                           *)
(* RowInv says what the rows are that a worker has written and not yet       *)
(* committed, by what it is at: the properties of committed rows follow from *)
(* it and need no locks.  LockInv is the exclusion of a login and a          *)
(* disabling at the users row.  EmailInv counts the logins under way among   *)
(* those that named no tenant.  SeedInv follows a run of the script from     *)
(* statement to statement; it needs of the script only ScriptOrder, that a   *)
(* statement comes after those it selects from.  GrantInv says that whatever *)
(* assigns a role in a tenant comes after the script's grant, and that an    *)
(* open grant is under the key of its users row.                             *)
EXTENDS Tenancy, TLAPS

\* What a row of an administrator must be for OwnTenantOnly.
Own(r) == r.by \in Tenants => r.tenant = r.by /\ (r.user # None => r.user[1] = r.by)

\* Users are rows of their tenant; what the seed script and the requests of
\* administrators refer to is found among them.
AtHome(r) == r.table = "users" => r.user \in Users /\ r.user[1] = r.tenant

BySeed(r) == r.by = "seed" /\ r.table # "disabled" /\ AtHome(r)

\* What a request of an administrator or the platform asks for.
Request(r) ==
    \/ r.by = "platform" /\ r.table = "tenants"
    \/ /\ r.by \in Tenants /\ r.tenant = r.by /\ AtHome(r)
       /\ r.table \in {"users", "disabled", "role_assignments"}

JobInv(j) ==
    /\ \A r \in j.writes : Own(r) /\ AtHome(r)
    /\ j.op \in {"none", "login"} => j.writes = {}
    /\ j.op = "login" => j.who \in Users
    /\ j.op = "seed" => \A r \in j.writes : BySeed(r)
    /\ j.op = "write" => /\ j.row \in Row /\ Request(j.row) /\ j.writes \subseteq {j.row}
                         /\ j.step = 3 => j.entries = {j.row}

\* The account of a login that holds the lock is not disabled and nobody else
\* is about to disable it.
Disables(j, u) == \E r \in j.writes : r.table = "disabled" /\ r.user = u

HoldsLock(j) == j.op = "login" /\ j.step = 2

LockInv ==
    \A w \in Workers : HoldsLock(job[w]) =>
        /\ ~Disabled(job[w].who)
        /\ \A v \in Workers \ {w} : ~Disables(job[v], job[w].who)

\* Accounts that logins without a tenant opened or are about to open.
Unnamed(u) ==
    \/ u \in unnamed
    \/ \E w \in Workers : job[w].op = "login" /\ ~job[w].named /\ job[w].who = u

EmailInv ==
    /\ \A u \in Users : Unnamed(u) => u \in Accounts(u[2])
    /\ \A u, v \in Users : Unnamed(u) /\ Unnamed(v) /\ u[2] = v[2] => u = v

RowInv ==
    /\ \A r \in db : Own(r) /\ AtHome(r)
    /\ \A w \in Workers : JobInv(job[w])

IInv == TypeOK /\ RowInv /\ EffectIsAudited /\ LockInv /\ EmailInv

-----------------------------------------------------------------------------
(* The script                                                                *)

\* Every statement of the script but a commit writes a row of the seed's, and a
\* user of the script is a user of the section's tenant.
LEMMA ScriptRows ==
    ASSUME NEW i \in DOMAIN Script, Script[i] # CommitWork
    PROVE  Script[i] \in Row /\ BySeed(Script[i])
<1>1. N \in Nat /\ SeedTenants \in [1..N -> Tenants]
  BY SeedAssumption DEF N
<1>2. i \in 1..(6 * N + 3)
  BY DEF Script
<1>3. ASSUME NEW s \in Tenants, NEW k \in 1..5, Section(s)[k] # CommitWork
      PROVE  Section(s)[k] \in Row /\ BySeed(Section(s)[k])
  <2>1. AdminOf(s) \in Users /\ AdminOf(s)[1] = s
    BY SeedAssumption DEF AdminOf, Users
  <2>2. k = 1 \/ k = 2 \/ k = 3 \/ k = 4 \/ k = 5
    OBVIOUS
  <2> QED
    BY <1>3, <2>1, <2>2 DEF Section, Statement, CommitWork, Row, Tables, BySeed, AtHome
<1>4. CASE i <= N
  <2>1. Script[i] = Statement("tenants", SeedTenants[i], None) /\ SeedTenants[i] \in Tenants
    BY <1>1, <1>2, <1>4 DEF Script
  <2> QED  BY <2>1 DEF Statement, Row, Tables, BySeed, AtHome
<1>5. CASE i = N + 2
  <2>1. Script[i] = Statement("permissions", None, None)
    BY <1>1, <1>2, <1>5 DEF Script
  <2> QED  BY <2>1 DEF Statement, Row, Tables, BySeed, AtHome
<1>6. CASE i > N + 3
  <2> DEFINE j == i - N - 3
  <2>1. Script[i] = InSections(j)
    BY <1>1, <1>2, <1>6 DEF Script
  <2>2. j - 1 \in 0..(5 * N - 1)
    BY <1>1, <1>2, <1>6
  <2>3. 1 + ((j - 1) \div 5) \in 1..N /\ 1 + ((j - 1) % 5) \in 1..5
    BY <1>1, <2>2
  <2>4. SeedTenants[1 + ((j - 1) \div 5)] \in Tenants
    BY <1>1, <2>3
  <2> HIDE DEF j
  <2> QED  BY <1>3, <2>1, <2>3, <2>4 DEF InSections
<1>7. i = N + 1 \/ i = N + 3 => Script[i] = CommitWork
  BY <1>1, <1>2 DEF Script
<1> QED  BY <1>1, <1>2, <1>4, <1>5, <1>6, <1>7

\* Where the statements of tenant k stand.
LEMMA ScriptAt ==
    ASSUME NEW k \in 1..N, NEW j \in 1..5
    PROVE  /\ SeedTenants[k] \in Tenants
           /\ N + 3 + 5 * (k - 1) + j \in DOMAIN Script
           /\ Script[N + 3 + 5 * (k - 1) + j] = Section(SeedTenants[k])[j]
<1>1. N \in Nat /\ SeedTenants \in [1..N -> Tenants]
  BY SeedAssumption DEF N
<1> DEFINE i == N + 3 + 5 * (k - 1) + j
<1>2. i \in 1..(6 * N + 3) /\ i > N + 3 /\ i - N - 3 = 5 * (k - 1) + j
  BY <1>1
<1>3. Script[i] = InSections(i - N - 3)
  <2> HIDE DEF i
  <2> QED BY <1>1, <1>2 DEF Script
<1>4. ((5 * (k - 1) + j) - 1) \div 5 = k - 1 /\ ((5 * (k - 1) + j) - 1) % 5 = j - 1
  BY <1>1
<1>5. InSections(5 * (k - 1) + j) = Section(SeedTenants[k])[j]
  BY <1>1, <1>4 DEF InSections
<1>6. i \in DOMAIN Script
  BY <1>2 DEF Script
<1> QED  BY <1>1, <1>2, <1>3, <1>5, <1>6

\* A statement of the script is of the registry, is the one about permissions,
\* or is statement j of the section of tenant k.
LEMMA ScriptPlaces ==
    ASSUME NEW i \in DOMAIN Script
    PROVE  \/ i \in 1..N /\ Script[i] = Statement("tenants", SeedTenants[i], None)
           \/ i \in {N + 1, N + 3} /\ Script[i] = CommitWork
           \/ i = N + 2 /\ Script[i] = Statement("permissions", None, None)
           \/ \E k \in 1..N, j \in 1..5 : i = N + 3 + 5 * (k - 1) + j
<1>1. N \in Nat /\ i \in 1..(6 * N + 3)
  BY SeedAssumption DEF N, Script
<1>2. CASE i > N + 3
  <2> DEFINE k == 1 + ((i - N - 4) \div 5)
             j == 1 + ((i - N - 4) % 5)
  <2>1. k \in 1..N /\ j \in 1..5 /\ i = N + 3 + 5 * (k - 1) + j
    BY <1>1, <1>2
  <2> QED  BY <2>1
<1>3. CASE i <= N + 3
  BY <1>1, <1>3 DEF Script
<1> QED  BY <1>1, <1>2, <1>3

\* What a statement selects from is inserted by earlier statements.
LEMMA ScriptOrder ==
    ASSUME NEW i \in DOMAIN Script
    PROVE  /\ Script[i].table = "role_permissions" =>
                \E a, b \in 1..(i - 1) :
                    /\ Script[a] = Statement("roles", Script[i].tenant, None)
                    /\ Script[b] = Statement("permissions", None, None)
           /\ Script[i].table = "role_assignments" =>
                \E a, b \in 1..(i - 1) :
                    /\ Script[a] = Statement("roles", Script[i].tenant, None)
                    /\ Script[b] = Statement("users", Script[i].tenant, Script[i].user)
<1>1. N \in Nat
  BY SeedAssumption DEF N
<1>2. ASSUME NEW k \in 1..N, NEW j \in 1..5, i = N + 3 + 5 * (k - 1) + j
      PROVE  /\ Script[i].table = "role_permissions" => j = 3
             /\ Script[i].table = "role_assignments" => j = 4
             /\ j = 3 \/ j = 4 => Script[i].tenant = SeedTenants[k]
             /\ j = 4 => Script[i].user = AdminOf(SeedTenants[k])
  <2>1. Script[i] = Section(SeedTenants[k])[j]
    BY <1>2, ScriptAt
  <2>2. j = 1 \/ j = 2 \/ j = 3 \/ j = 4 \/ j = 5
    OBVIOUS
  <2> QED  BY <2>1, <2>2 DEF Section, Statement, CommitWork
<1>3. ASSUME NEW k \in 1..N
      PROVE  /\ Script[N + 3 + 5 * (k - 1) + 1] = Statement("users", SeedTenants[k], AdminOf(SeedTenants[k]))
             /\ Script[N + 3 + 5 * (k - 1) + 2] = Statement("roles", SeedTenants[k], None)
  BY ScriptAt DEF Section
<1>4. Script[N + 2] = Statement("permissions", None, None)
  BY <1>1 DEF Script
<1>5. CASE \E k \in 1..N, j \in 1..5 : i = N + 3 + 5 * (k - 1) + j
  <2>1. PICK k \in 1..N, j \in 1..5 : i = N + 3 + 5 * (k - 1) + j
    BY <1>5
  <2>2. CASE j = 3
    <3>1. N + 2 \in 1..(i - 1) /\ N + 3 + 5 * (k - 1) + 2 \in 1..(i - 1)
      BY <1>1, <2>1, <2>2
    <3> QED  BY <1>2, <1>3, <1>4, <2>1, <2>2, <3>1
  <2>3. CASE j = 4
    <3>1. N + 3 + 5 * (k - 1) + 1 \in 1..(i - 1) /\ N + 3 + 5 * (k - 1) + 2 \in 1..(i - 1)
      BY <1>1, <2>1, <2>3
    <3> QED  BY <1>2, <1>3, <2>1, <2>3, <3>1
  <2> QED  BY <1>2, <2>1, <2>2, <2>3
<1>6. CASE ~\E k \in 1..N, j \in 1..5 : i = N + 3 + 5 * (k - 1) + j
  <2>1. Script[i].table \in {"tenants", "commit", "permissions"}
    BY <1>6, ScriptPlaces DEF Statement, CommitWork
  <2> QED  BY <2>1
<1> QED  BY <1>5, <1>6

-----------------------------------------------------------------------------
(* Types                                                                     *)

LEMMA NoJobTyped == NoJob \in Jobs
BY DEF NoJob, Jobs

\* A job with another step and other writes.
LEMMA JobTyped ==
    ASSUME NEW j \in Jobs, NEW n \in Nat, NEW W \in SUBSET Row
    PROVE  [j EXCEPT !.step = n, !.writes = W] \in Jobs
BY DEF Jobs

LEMMA JobFields ==
    ASSUME NEW j \in Jobs
    PROVE  /\ j.op \in {"none", "seed", "write", "login"} /\ j.step \in Nat
           /\ j.who \in Users \cup {None} /\ j.named \in BOOLEAN /\ j.row \in {None} \cup Row
           /\ j.writes \in SUBSET Row /\ j.entries \in SUBSET Row
BY DEF Jobs

LEMMA TypeInit == Init => TypeOK
BY NoJobTyped DEF Init, TypeOK

\* A worker begins with a job of the type of jobs.
LEMMA BeginTyped ==
    ASSUME TypeOK, NEW w \in Workers, NEW u \in Users \cup {None}, NEW r \in Row, Begin(w, u, r)
    PROVE  TypeOK'
<1>1. [NoJob EXCEPT !.op = "write", !.step = 1, !.who = u, !.row = r] \in Jobs
  BY DEF NoJob, Jobs
<1> QED  BY <1>1 DEF TypeOK, Begin

\* The statements of an open transaction add rows to its writes.
LEMMA AdvanceTyped ==
    ASSUME TypeOK, NEW w \in Workers, NEW R \in SUBSET Row, Advance(w, R),
           UNCHANGED <<db, trail, tokens, unnamed>>
    PROVE  TypeOK'
<1>1. job[w] \in Jobs /\ job[w].step + 1 \in Nat /\ job[w].writes \cup R \in SUBSET Row
  BY JobFields DEF TypeOK
<1>2. [job[w] EXCEPT !.step = job[w].step + 1, !.writes = job[w].writes \cup R] \in Jobs
  BY <1>1, JobTyped
<1>3. job' = [job EXCEPT ![w] = [job[w] EXCEPT !.step = job[w].step + 1,
                                               !.writes = job[w].writes \cup R]]
  BY DEF TypeOK, Advance
<1> QED  BY <1>2, <1>3 DEF TypeOK

LEMMA AccountsAreUsers ==
    ASSUME TypeOK, \A r \in db : AtHome(r), NEW e, NEW u \in Accounts(e)
    PROVE  u \in Users /\ u[2] = e
<1>1. PICK q \in db : q.table = "users" /\ q.user = u /\ q.user[2] = e
  BY DEF Accounts
<1>2. q.user \in Users
  BY <1>1 DEF AtHome
<1> QED  BY <1>1, <1>2

LEMMA TypeStep == TypeOK /\ RowInv /\ [Next]_vars => TypeOK'
<1> SUFFICES ASSUME TypeOK, RowInv, [Next]_vars  PROVE TypeOK'
  OBVIOUS
<1>1. ASSUME NEW w \in Workers, StartSeed(w)  PROVE TypeOK'
  <2>1. [NoJob EXCEPT !.op = "seed", !.step = 1] \in Jobs
    BY DEF NoJob, Jobs
  <2> QED  BY <1>1, <2>1 DEF StartSeed, TypeOK
<1>2. ASSUME NEW w \in Workers, Upsert(w)  PROVE TypeOK'
  <2> DEFINE r == Script[job[w].step]
  <2>1. r \in Row
    BY <1>2, ScriptRows DEF Upsert, Seeding
  <2> QED  BY <1>2, <2>1, AdvanceTyped DEF Upsert
<1>3. ASSUME NEW w \in Workers, CommitSection(w)  PROVE TypeOK'
  <2>1. job[w] \in Jobs /\ job[w].step + 1 \in Nat /\ job[w].writes \subseteq Row
    BY JobFields DEF TypeOK
  <2>2. [job[w] EXCEPT !.step = job[w].step + 1, !.writes = {}] \in Jobs
    BY <2>1, JobTyped
  <2>3. job' = [job EXCEPT ![w] = [job[w] EXCEPT !.step = job[w].step + 1, !.writes = {}]]
    BY <1>3 DEF CommitSection, TypeOK
  <2> QED  BY <1>3, <2>1, <2>2, <2>3 DEF CommitSection, TypeOK
<1>4. ASSUME NEW w \in Workers, Abort(w)  PROVE TypeOK'
  BY <1>4, NoJobTyped DEF Abort, TypeOK
<1>5. ASSUME NEW w \in Workers, NEW s \in Tenants, CreateTenant(w, s)  PROVE TypeOK'
  <2>1. [table |-> "tenants", tenant |-> s, user |-> None, by |-> "platform"] \in Row
    BY DEF Row, Tables
  <2> QED  BY <1>5, <2>1, BeginTyped DEF CreateTenant
<1>6. ASSUME NEW w \in Workers, NEW u \in Users, NEW v \in Users, NEW table \in Tables,
             ByAdmin(w, u, table, v)
      PROVE  TypeOK'
  <2>1. [table |-> table, tenant |-> u[1], user |-> v, by |-> u[1]] \in Row
    BY DEF Row, Users
  <2> QED  BY <1>6, <2>1, BeginTyped DEF ByAdmin
<1>7. ASSUME NEW w \in Workers, Insert(w)  PROVE TypeOK'
  <2>1. job[w].row \in Row
    BY <1>7, JobFields DEF TypeOK, RowInv, JobInv, Insert
  <2> QED  BY <1>7, <2>1, AdvanceTyped DEF Insert
<1>8. ASSUME NEW w \in Workers, Update(w)  PROVE TypeOK'
  <2> DEFINE R == {q \in {job[w].row} : Visible(w, q)}
  <2>1. R \in SUBSET Row
    BY <1>8, JobFields DEF TypeOK, RowInv, JobInv, Update
  <2>2. Advance(w, R) /\ UNCHANGED <<db, trail, tokens, unnamed>>
    BY <1>8 DEF Update
  <2> HIDE DEF R
  <2> QED  BY <2>1, <2>2, AdvanceTyped
<1>9. ASSUME NEW w \in Workers, Audit(w)  PROVE TypeOK'
  <2>1. job[w] \in Jobs /\ {job[w].row} \in SUBSET Row
    BY <1>9, JobFields DEF TypeOK, RowInv, JobInv, Audit
  <2>2. [job[w] EXCEPT !.step = 3, !.entries = {job[w].row}] \in Jobs
    BY <2>1 DEF Jobs
  <2>3. job' = [job EXCEPT ![w] = [job[w] EXCEPT !.step = 3, !.entries = {job[w].row}]]
    BY <1>9 DEF Audit, TypeOK
  <2> QED  BY <1>9, <2>2, <2>3 DEF Audit, TypeOK
<1>10. ASSUME NEW w \in Workers, CommitWrite(w)  PROVE TypeOK'
  <2>1. job[w].writes \subseteq Row /\ job[w].entries \subseteq Row
    BY JobFields DEF TypeOK
  <2> QED  BY <1>10, <2>1, NoJobTyped DEF CommitWrite, TypeOK
<1>11. ASSUME NEW w \in Workers, NEW e \in Emails, NEW s \in Tenants \cup {None}, StartLogin(w, e, s)
       PROVE  TypeOK'
  <2>1. PICK u \in Resolve(e, s) :
          job' = [job EXCEPT ![w] = [NoJob EXCEPT !.op = "login", !.step = 1, !.who = u,
                                                  !.named = (s # None)]]
    BY <1>11 DEF StartLogin
  <2>2. u \in Users
    BY <2>1, AccountsAreUsers DEF Resolve, RowInv
  <2>3. [NoJob EXCEPT !.op = "login", !.step = 1, !.who = u, !.named = (s # None)] \in Jobs
    BY <2>2 DEF NoJob, Jobs
  <2> QED  BY <1>11, <2>1, <2>3 DEF StartLogin, TypeOK
<1>12. ASSUME NEW w \in Workers, LockUser(w)  PROVE TypeOK'
  BY <1>12, AdvanceTyped DEF LockUser
<1>13. ASSUME NEW w \in Workers, IssueAccessToken(w)  PROVE TypeOK'
  <2>1. job[w].who \in Users
    BY <1>13, JobFields DEF TypeOK, RowInv, JobInv, IssueAccessToken
  <2>2. IsAdmin(db, job[w].who) \in BOOLEAN
    BY DEF IsAdmin, Holds
  <2>3. [user |-> job[w].who, admin |-> IsAdmin(db, job[w].who)] \in [user : Users, admin : BOOLEAN]
    BY <2>1, <2>2
  <2>4. tokens' \subseteq [user : Users, admin : BOOLEAN]
    BY <1>13, <2>3 DEF IssueAccessToken, TypeOK
  <2>5. unnamed' \subseteq Users /\ db' = db /\ trail' = trail
    BY <1>13, <2>1 DEF IssueAccessToken, TypeOK
  <2>6. job' \in [Workers -> Jobs]
    BY <1>13, NoJobTyped DEF IssueAccessToken, TypeOK
  <2> QED  BY <2>4, <2>5, <2>6 DEF TypeOK
<1>14. ASSUME NEW t \in tokens, Expire(t)  PROVE TypeOK'
  BY <1>14 DEF Expire, TypeOK
<1>15. ASSUME UNCHANGED vars  PROVE TypeOK'
  BY <1>15 DEF vars, TypeOK
<1> QED
  BY <1>1, <1>2, <1>3, <1>4, <1>5, <1>6, <1>7, <1>8, <1>9, <1>10, <1>11, <1>12, <1>13, <1>14, <1>15
     DEF Next, SeedNext, AdminNext, EndSeed, InviteUser, DisableUser, AssignRole, Tables, Users

-----------------------------------------------------------------------------
(* Rows                                                                      *)

\* What Advance leaves of a job and of the others.
LEMMA AdvanceJob ==
    ASSUME TypeOK, NEW w \in Workers, NEW R, Advance(w, R)
    PROVE  /\ job'[w].op = job[w].op /\ job'[w].step = job[w].step + 1
           /\ job'[w].who = job[w].who /\ job'[w].named = job[w].named
           /\ job'[w].row = job[w].row /\ job'[w].entries = job[w].entries
           /\ job'[w].writes = job[w].writes \cup R
           /\ \A v \in Workers \ {w} : job'[v] = job[v]
<1>1. job[w] \in Jobs
  BY DEF TypeOK
<1>2. job' = [job EXCEPT ![w] = [job[w] EXCEPT !.step = job[w].step + 1,
                                               !.writes = job[w].writes \cup R]]
  BY DEF TypeOK, Advance
<1>3. job'[w] = [job[w] EXCEPT !.step = job[w].step + 1, !.writes = job[w].writes \cup R]
  BY <1>2 DEF TypeOK
<1>4. \A v \in Workers \ {w} : job'[v] = job[v]
  BY <1>2 DEF TypeOK
<1> QED  BY <1>1, <1>3, <1>4 DEF Jobs

\* A step of one worker commits at most what that worker wrote.
LEMMA RowFrame ==
    ASSUME RowInv, NEW w \in Workers, db' \subseteq db \cup job[w].writes,
           JobInv(job'[w]), \A v \in Workers \ {w} : job'[v] = job[v]
    PROVE  RowInv'
<1>1. \A r \in db' : Own(r) /\ AtHome(r)
  BY DEF RowInv, JobInv
<1>2. \A v \in Workers : JobInv(job'[v])
  BY DEF RowInv
<1> QED  BY <1>1, <1>2 DEF RowInv, Own, AtHome

LEMMA NoJobInv == JobInv(NoJob)
BY DEF JobInv, NoJob

LEMMA RowInit == Init => RowInv
BY NoJobInv DEF Init, RowInv

LEMMA RowStep == TypeOK /\ RowInv /\ [Next]_vars => RowInv'
<1> SUFFICES ASSUME TypeOK, RowInv, [Next]_vars  PROVE RowInv'
  OBVIOUS
<1> USE NamesAssumption
<1>1. ASSUME NEW w \in Workers, StartSeed(w)  PROVE RowInv'
  <2>1. /\ job'[w] = [NoJob EXCEPT !.op = "seed", !.step = 1]
        /\ db' = db /\ \A v \in Workers \ {w} : job'[v] = job[v]
    BY <1>1 DEF StartSeed, TypeOK
  <2>2. JobInv(job'[w])
    BY <2>1 DEF JobInv, NoJob
  <2> QED  BY <2>1, <2>2, RowFrame
<1>2. ASSUME NEW w \in Workers, Upsert(w)  PROVE RowInv'
  <2> DEFINE r == Script[job[w].step]
             R == {q \in {r} : Selects(w, q) /\ ~Present(w, q)}
  <2>1. BySeed(r)
    BY <1>2, ScriptRows DEF Upsert, Seeding
  <2>2. Advance(w, R) /\ job[w].op = "seed" /\ db' = db
    BY <1>2 DEF Upsert, Seeding
  <2>3. R \subseteq {r}
    OBVIOUS
  <2> HIDE DEF R, r
  <2>4. JobInv(job'[w]) /\ \A v \in Workers \ {w} : job'[v] = job[v]
    BY <2>1, <2>2, <2>3, AdvanceJob DEF RowInv, JobInv, BySeed, Own
  <2> QED  BY <2>2, <2>4, RowFrame
<1>3. ASSUME NEW w \in Workers, CommitSection(w)  PROVE RowInv'
  <2>1. job[w] \in Jobs /\ job[w].op = "seed"
    BY <1>3 DEF TypeOK, CommitSection, Seeding
  <2>2. /\ job'[w] = [job[w] EXCEPT !.step = job[w].step + 1, !.writes = {}]
        /\ db' = db \cup job[w].writes /\ \A v \in Workers \ {w} : job'[v] = job[v]
    BY <1>3 DEF CommitSection, TypeOK
  <2>3. JobInv(job'[w])
    BY <2>1, <2>2 DEF JobInv, Jobs
  <2> QED  BY <2>2, <2>3, RowFrame
<1>4. ASSUME NEW w \in Workers, Abort(w)  PROVE RowInv'
  BY <1>4, NoJobInv, RowFrame DEF Abort, TypeOK
<1>5. ASSUME NEW w \in Workers, NEW u, NEW r \in Row, Request(r), Begin(w, u, r)  PROVE RowInv'
  <2>1. /\ job'[w] = [NoJob EXCEPT !.op = "write", !.step = 1, !.who = u, !.row = r]
        /\ db' = db /\ \A v \in Workers \ {w} : job'[v] = job[v]
    BY <1>5 DEF Begin, TypeOK
  <2>2. JobInv(job'[w])
    BY <1>5, <2>1 DEF JobInv, NoJob
  <2> QED  BY <2>1, <2>2, RowFrame
<1>6. ASSUME NEW w \in Workers, NEW s \in Tenants, CreateTenant(w, s)  PROVE RowInv'
  <2> DEFINE r == [table |-> "tenants", tenant |-> s, user |-> None, by |-> "platform"]
  <2>1. r \in Row /\ Request(r)
    BY DEF Row, Tables, Request
  <2> QED  BY <1>5, <1>6, <2>1 DEF CreateTenant
<1>7. ASSUME NEW w \in Workers, NEW u \in Users, NEW v \in Users, NEW table \in {"users", "disabled", "role_assignments"},
             ByAdmin(w, u, table, v), table = "users" => v[1] = u[1]
      PROVE  RowInv'
  <2> DEFINE r == [table |-> table, tenant |-> u[1], user |-> v, by |-> u[1]]
  <2>1. r \in Row /\ Request(r)
    BY <1>7 DEF Row, Tables, Users, Request, AtHome
  <2> QED  BY <1>5, <1>7, <2>1 DEF ByAdmin
<1>8. ASSUME NEW w \in Workers, Insert(w)  PROVE RowInv'
  <2> DEFINE r == job[w].row
  <2>1. Request(r) /\ r \in Row /\ job[w].writes \subseteq {r} /\ job[w].op = "write"
        /\ job[w].step = 1 /\ Advance(w, {r}) /\ db' = db /\ Admitted(w, r) /\ r.table # "disabled"
    BY <1>8 DEF Insert, RowInv, JobInv
  <2>2. AtHome(r)
    BY <2>1 DEF Request, AtHome
  <2>3. Own(r)
    <3>1. CASE r.by = "platform"
      BY <3>1 DEF Own
    <3>2. CASE r.table = "role_assignments" /\ r.by \in Tenants
      <4>1. PICK q \in Sees(w) : q.table = "users" /\ q.tenant = r.tenant /\ q.user = r.user
        BY <2>1, <3>2 DEF Admitted, Holds
      <4>2. AtHome(q)
        BY DEF Sees, RowInv, JobInv
      <4> QED  BY <2>1, <3>2, <4>1, <4>2 DEF Own, AtHome, Request
    <3>3. CASE r.table = "users" /\ r.by \in Tenants
      BY <2>1, <2>2, <3>3 DEF Own, Request, AtHome
    <3> QED  BY <2>1, <3>1, <3>2, <3>3 DEF Request
  <2> HIDE DEF r
  <2>4. JobInv(job'[w]) /\ \A v \in Workers \ {w} : job'[v] = job[v]
    BY <1>8, <2>1, <2>2, <2>3, AdvanceJob DEF JobInv, r
  <2> QED  BY <2>1, <2>4, RowFrame
<1>9. ASSUME NEW w \in Workers, Update(w)  PROVE RowInv'
  <2> DEFINE r == job[w].row
             R == {q \in {r} : Visible(w, q)}
  <2>1. Request(r) /\ r \in Row /\ job[w].writes \subseteq {r} /\ job[w].op = "write"
        /\ job[w].step = 1 /\ Advance(w, R) /\ db' = db /\ r.table = "disabled"
    BY <1>9 DEF Update, RowInv, JobInv
  <2>2. ASSUME Visible(w, r)  PROVE Own(r)
    <3>1. PICK q \in Sees(w) : q.table = "users" /\ q.tenant = r.tenant /\ q.user = r.user
      BY <2>2 DEF Visible, Holds
    <3>2. AtHome(q)
      BY DEF Sees, RowInv, JobInv
    <3> QED  BY <2>1, <3>1, <3>2 DEF Own, AtHome, Request
  <2>3. \A q \in R : q = r /\ Own(q) /\ AtHome(q)
    BY <2>1, <2>2 DEF AtHome
  <2> HIDE DEF R
  <2>4. JobInv(job'[w]) /\ \A v \in Workers \ {w} : job'[v] = job[v]
    BY <2>1, <2>3, AdvanceJob DEF JobInv, RowInv
  <2> QED  BY <2>1, <2>4, RowFrame
<1>10. ASSUME NEW w \in Workers, Audit(w)  PROVE RowInv'
  <2>1. /\ job[w] \in Jobs /\ db' = db /\ \A v \in Workers \ {w} : job'[v] = job[v]
        /\ job'[w] = [job[w] EXCEPT !.step = 3, !.entries = {job[w].row}]
        /\ job[w].op = "write"
    BY <1>10 DEF Audit, TypeOK
  <2>2. JobInv(job[w])
    BY DEF RowInv
  <2>3. JobInv(job'[w])
    BY <2>1, <2>2 DEF JobInv, Jobs
  <2> QED  BY <2>1, <2>3, RowFrame
<1>11. ASSUME NEW w \in Workers, CommitWrite(w)  PROVE RowInv'
  <2>1. job'[w] = NoJob /\ db' \subseteq db \cup job[w].writes /\ \A v \in Workers \ {w} : job'[v] = job[v]
    BY <1>11 DEF CommitWrite, TypeOK
  <2> QED  BY <2>1, NoJobInv, RowFrame
<1>12. ASSUME NEW w \in Workers, NEW e \in Emails, NEW s \in Tenants \cup {None}, StartLogin(w, e, s)
       PROVE  RowInv'
  <2>1. PICK u \in Resolve(e, s) :
          job' = [job EXCEPT ![w] = [NoJob EXCEPT !.op = "login", !.step = 1, !.who = u,
                                                  !.named = (s # None)]]
    BY <1>12 DEF StartLogin
  <2>2. u \in Users
    BY <2>1, AccountsAreUsers DEF Resolve, RowInv
  <2>3. /\ job'[w] = [NoJob EXCEPT !.op = "login", !.step = 1, !.who = u, !.named = (s # None)]
        /\ db' = db /\ \A v \in Workers \ {w} : job'[v] = job[v]
    BY <1>12, <2>1 DEF StartLogin, TypeOK
  <2>4. JobInv(job'[w])
    BY <2>2, <2>3 DEF JobInv, NoJob
  <2> QED  BY <2>3, <2>4, RowFrame
<1>13. ASSUME NEW w \in Workers, LockUser(w)  PROVE RowInv'
  <2>1. Advance(w, {}) /\ job[w].op = "login" /\ db' = db
    BY <1>13 DEF LockUser
  <2>2. JobInv(job'[w]) /\ \A v \in Workers \ {w} : job'[v] = job[v]
    BY <2>1, AdvanceJob DEF RowInv, JobInv
  <2> QED  BY <2>1, <2>2, RowFrame
<1>14. ASSUME NEW w \in Workers, IssueAccessToken(w)  PROVE RowInv'
  <2>1. job'[w] = NoJob /\ db' = db /\ \A v \in Workers \ {w} : job'[v] = job[v]
    BY <1>14 DEF IssueAccessToken, TypeOK
  <2> QED  BY <2>1, NoJobInv, RowFrame
<1>15. ASSUME NEW t \in tokens, Expire(t)  PROVE RowInv'
  BY <1>15 DEF Expire, RowInv, JobInv, Own, AtHome, BySeed, Request
<1>16. ASSUME UNCHANGED vars  PROVE RowInv'
  BY <1>16 DEF vars, RowInv, JobInv, Own, AtHome, BySeed, Request
<1> QED
  BY <1>1, <1>2, <1>3, <1>4, <1>6, <1>7, <1>8, <1>9, <1>10, <1>11, <1>12, <1>13, <1>14, <1>15, <1>16
     DEF Next, SeedNext, AdminNext, EndSeed, InviteUser, DisableUser, AssignRole, Tables, Users

-----------------------------------------------------------------------------
(* What a step does to the job of its worker, for the invariants that follow *)

\* A step other than Update, LockUser, StartLogin and IssueAccessToken takes
\* no lock, starts no login and disables nobody its worker was not about to.
Plain(w) ==
    /\ \A v \in Workers \ {w} : job'[v] = job[v]
    /\ job'[w].op # "login" /\ unnamed' = unnamed /\ tokens' = tokens
    /\ \A r \in job'[w].writes : r.table = "disabled" => r \in job[w].writes
    /\ db \subseteq db' /\ db' \subseteq db \cup job[w].writes

LEMMA Steps ==
    ASSUME TypeOK, RowInv, [Next]_vars
    PROVE  \/ \E w \in Workers : Plain(w)
           \/ \E w \in Workers : Update(w) \/ LockUser(w) \/ IssueAccessToken(w)
           \/ \E w \in Workers, e \in Emails, s \in Tenants \cup {None} : StartLogin(w, e, s)
           \/ \E t \in tokens : Expire(t)
           \/ UNCHANGED vars
<1>1. ASSUME NEW w \in Workers, StartSeed(w)  PROVE Plain(w)
  <2>1. job'[w] = [NoJob EXCEPT !.op = "seed", !.step = 1]
    BY <1>1 DEF StartSeed, TypeOK
  <2> QED  BY <1>1, <2>1 DEF StartSeed, TypeOK, Plain, NoJob
<1>2. ASSUME NEW w \in Workers, Upsert(w)  PROVE Plain(w)
  <2> DEFINE r == Script[job[w].step]
             R == {q \in {r} : Selects(w, q) /\ ~Present(w, q)}
  <2>1. BySeed(r)
    BY <1>2, ScriptRows DEF Upsert, Seeding
  <2>2. Advance(w, R) /\ job[w].op = "seed" /\ UNCHANGED <<db, trail, tokens, unnamed>>
    BY <1>2 DEF Upsert, Seeding
  <2>3. R \subseteq {r}
    OBVIOUS
  <2> HIDE DEF R, r
  <2> QED  BY <2>1, <2>2, <2>3, AdvanceJob DEF Plain, BySeed
<1>3. ASSUME NEW w \in Workers, CommitSection(w)  PROVE Plain(w)
  <2>1. job[w] \in Jobs /\ job[w].op = "seed"
    BY <1>3 DEF TypeOK, CommitSection, Seeding
  <2>2. job'[w] = [job[w] EXCEPT !.step = job[w].step + 1, !.writes = {}]
    BY <1>3 DEF CommitSection, TypeOK
  <2>3. job'[w].op = "seed" /\ job'[w].writes = {}
    BY <2>1, <2>2 DEF Jobs
  <2> QED  BY <1>3, <2>3 DEF CommitSection, TypeOK, Plain
<1>4. ASSUME NEW w \in Workers, Abort(w)  PROVE Plain(w)
  BY <1>4 DEF Abort, TypeOK, Plain, NoJob
<1>5. ASSUME NEW w \in Workers, NEW u, NEW r, Begin(w, u, r)  PROVE Plain(w)
  <2>1. job'[w] = [NoJob EXCEPT !.op = "write", !.step = 1, !.who = u, !.row = r]
    BY <1>5 DEF Begin, TypeOK
  <2> QED  BY <1>5, <2>1 DEF Begin, TypeOK, Plain, NoJob
<1>6. ASSUME NEW w \in Workers, Insert(w)  PROVE Plain(w)
  <2> DEFINE r == job[w].row
  <2>1. /\ Advance(w, {r}) /\ job[w].op = "write" /\ r.table # "disabled"
        /\ UNCHANGED <<db, trail, tokens, unnamed>>
    BY <1>6 DEF Insert
  <2> HIDE DEF r
  <2> QED  BY <2>1, AdvanceJob DEF Plain
<1>7. ASSUME NEW w \in Workers, Audit(w)  PROVE Plain(w)
  <2>1. /\ job[w] \in Jobs /\ job[w].op = "write"
        /\ job'[w] = [job[w] EXCEPT !.step = 3, !.entries = {job[w].row}]
    BY <1>7 DEF Audit, TypeOK
  <2>2. job'[w].op = "write" /\ job'[w].writes = job[w].writes
    BY <2>1 DEF Jobs
  <2> QED  BY <1>7, <2>2 DEF Audit, TypeOK, Plain
<1>8. ASSUME NEW w \in Workers, CommitWrite(w)  PROVE Plain(w)
  BY <1>8 DEF CommitWrite, TypeOK, Plain, NoJob
<1>9. ASSUME NEW w \in Workers, NEW u, NEW table, NEW v, ByAdmin(w, u, table, v)  PROVE Plain(w)
  BY <1>5, <1>9 DEF ByAdmin
<1>10. ASSUME NEW w \in Workers, NEW s, CreateTenant(w, s)  PROVE Plain(w)
  BY <1>5, <1>10 DEF CreateTenant
<1> QED
  BY <1>1, <1>2, <1>3, <1>4, <1>6, <1>7, <1>8, <1>9, <1>10
     DEF Next, SeedNext, AdminNext, EndSeed, InviteUser, DisableUser, AssignRole

-----------------------------------------------------------------------------
(* Audit, locks, addresses                                                   *)

LEMMA AuditStep == TypeOK /\ RowInv /\ EffectIsAudited /\ [Next]_vars => EffectIsAudited'
<1> SUFFICES ASSUME TypeOK, RowInv, EffectIsAudited, [Next]_vars  PROVE EffectIsAudited'
  OBVIOUS
<1>1. ASSUME NEW w \in Workers, CommitSection(w)  PROVE EffectIsAudited'
  <2>1. \A r \in job[w].writes : r.by = "seed"
    BY <1>1 DEF CommitSection, Seeding, RowInv, JobInv, BySeed
  <2> QED  BY <1>1, <2>1 DEF CommitSection, EffectIsAudited
<1>2. ASSUME NEW w \in Workers, CommitWrite(w)  PROVE EffectIsAudited'
  <2>1. job[w].writes \subseteq job[w].entries
    BY <1>2 DEF CommitWrite, RowInv, JobInv
  <2> QED  BY <1>2, <2>1 DEF CommitWrite, EffectIsAudited
<1>3. ASSUME db' = db, trail' = trail  PROVE EffectIsAudited'
  BY <1>3 DEF EffectIsAudited
<1> QED
  BY <1>1, <1>2, <1>3
     DEF Next, SeedNext, AdminNext, EndSeed, InviteUser, DisableUser, AssignRole, ByAdmin, Begin,
         StartSeed, Upsert, Abort, CreateTenant, Insert, Update, Audit, StartLogin, LockUser,
         IssueAccessToken, Expire, vars

LEMMA LockStep == TypeOK /\ RowInv /\ LockInv /\ [Next]_vars => LockInv'
<1> SUFFICES ASSUME TypeOK, RowInv, LockInv, [Next]_vars  PROVE LockInv'
  OBVIOUS
<1> SUFFICES ASSUME NEW x \in Workers, HoldsLock(job'[x])
             PROVE  /\ ~\E r \in db' : r.table = "disabled" /\ r.user = job'[x].who
                    /\ \A v \in Workers \ {x} : ~Disables(job'[v], job'[x].who)
  BY DEF LockInv, HoldsLock, Disables, Disabled
<1>1. HoldsLock(job[x]) => /\ ~Disabled(job[x].who)
                           /\ \A v \in Workers \ {x} : ~Disables(job[v], job[x].who)
  BY DEF LockInv
<1>2. CASE \E w \in Workers : Plain(w)
  <2>1. PICK w \in Workers : Plain(w)
    BY <1>2
  <2>2. x # w /\ job'[x] = job[x]
    BY <2>1 DEF Plain, HoldsLock
  <2>3. ~\E r \in db' : r.table = "disabled" /\ r.user = job[x].who
    BY <1>1, <2>1, <2>2 DEF Plain, Disabled, Disables
  <2>4. \A v \in Workers \ {x} : ~Disables(job'[v], job[x].who)
    BY <1>1, <2>1, <2>2 DEF Plain, Disables
  <2> QED  BY <2>2, <2>3, <2>4
<1>3. ASSUME NEW w \in Workers, Update(w)
      PROVE  /\ ~\E r \in db' : r.table = "disabled" /\ r.user = job'[x].who
             /\ \A v \in Workers \ {x} : ~Disables(job'[v], job'[x].who)
  <2> DEFINE r == job[w].row
             R == {q \in {r} : Visible(w, q)}
  <2>1. Advance(w, R) /\ db' = db /\ job[w].op = "write" /\ (Visible(w, r) => ~UserLocked(w, r.user))
    BY <1>3 DEF Update
  <2>2. R \subseteq {r} /\ (R # {} => ~UserLocked(w, r.user))
    BY <2>1
  <2> HIDE DEF R, r
  <2>3. x # w /\ job'[x] = job[x] /\ HoldsLock(job[x])
    BY <2>1, AdvanceJob DEF HoldsLock
  <2>4. R # {} => r.user # job[x].who
    BY <2>2, <2>3 DEF UserLocked, HoldsLock
  <2>5. ~Disables(job'[w], job[x].who)
    BY <1>1, <2>1, <2>2, <2>3, <2>4, AdvanceJob DEF Disables
  <2>6. \A v \in Workers \ {x} : ~Disables(job'[v], job[x].who)
    BY <1>1, <2>1, <2>3, <2>5, AdvanceJob DEF Disables
  <2> QED  BY <1>1, <2>1, <2>3, <2>6 DEF Disabled
<1>4. ASSUME NEW w \in Workers, LockUser(w)
      PROVE  /\ ~\E r \in db' : r.table = "disabled" /\ r.user = job'[x].who
             /\ \A v \in Workers \ {x} : ~Disables(job'[v], job'[x].who)
  <2>1. /\ Advance(w, {}) /\ db' = db
        /\ ~UserLocked(w, job[w].who) /\ ~Disabled(job[w].who)
    BY <1>4 DEF LockUser
  <2>2. \A v \in Workers : job'[v].who = job[v].who /\ job'[v].writes = job[v].writes
    <3>1. job'[w].who = job[w].who /\ job'[w].writes = job[w].writes \cup {}
      BY <2>1, AdvanceJob
    <3>2. \A v \in Workers \ {w} : job'[v] = job[v]
      BY <2>1, AdvanceJob
    <3> QED  BY <3>1, <3>2
  <2>3. CASE x = w
    BY <2>1, <2>2, <2>3 DEF UserLocked, Disabled, Disables
  <2>4. CASE x # w
    <3>1. HoldsLock(job[x])
      BY <2>1, <2>4, AdvanceJob DEF HoldsLock
    <3> QED  BY <1>1, <2>1, <2>2, <3>1 DEF Disabled, Disables
  <2> QED  BY <2>3, <2>4
<1>5. ASSUME NEW w \in Workers, \A v \in Workers \ {w} : job'[v] = job[v], ~HoldsLock(job'[w]),
             job'[w].writes = {}, db' = db
      PROVE  /\ ~\E r \in db' : r.table = "disabled" /\ r.user = job'[x].who
             /\ \A v \in Workers \ {x} : ~Disables(job'[v], job'[x].who)
  BY <1>1, <1>5 DEF Disabled, Disables
<1>6. ASSUME NEW w \in Workers, IssueAccessToken(w)
      PROVE  /\ ~\E r \in db' : r.table = "disabled" /\ r.user = job'[x].who
             /\ \A v \in Workers \ {x} : ~Disables(job'[v], job'[x].who)
  BY <1>5, <1>6 DEF IssueAccessToken, TypeOK, NoJob, HoldsLock
<1>7. ASSUME NEW w \in Workers, NEW e \in Emails, NEW s \in Tenants \cup {None}, StartLogin(w, e, s)
      PROVE  /\ ~\E r \in db' : r.table = "disabled" /\ r.user = job'[x].who
             /\ \A v \in Workers \ {x} : ~Disables(job'[v], job'[x].who)
  <2>1. PICK u \in Resolve(e, s) :
          job' = [job EXCEPT ![w] = [NoJob EXCEPT !.op = "login", !.step = 1, !.who = u,
                                                  !.named = (s # None)]]
    BY <1>7 DEF StartLogin
  <2>2. job'[w] = [NoJob EXCEPT !.op = "login", !.step = 1, !.who = u, !.named = (s # None)]
    BY <2>1 DEF TypeOK
  <2> QED  BY <1>5, <1>7, <2>1, <2>2 DEF StartLogin, TypeOK, NoJob, HoldsLock
<1>8. ASSUME db' = db, job' = job
      PROVE  /\ ~\E r \in db' : r.table = "disabled" /\ r.user = job'[x].who
             /\ \A v \in Workers \ {x} : ~Disables(job'[v], job'[x].who)
  BY <1>1, <1>8 DEF Disabled
<1> QED
  BY Steps, <1>2, <1>3, <1>4, <1>6, <1>7, <1>8 DEF Expire, vars

LEMMA EmailStep == TypeOK /\ RowInv /\ EmailInv /\ [Next]_vars => EmailInv'
<1> SUFFICES ASSUME TypeOK, RowInv, EmailInv, [Next]_vars  PROVE EmailInv'
  OBVIOUS
<1> DEFINE Opening(u) == \/ u \in unnamed'
                         \/ \E w \in Workers : job'[w].op = "login" /\ ~job'[w].named /\ job'[w].who = u
<1>1. ASSUME db \subseteq db', \A u \in Users : Opening(u) => Unnamed(u)
      PROVE  EmailInv'
  BY <1>1 DEF EmailInv, Unnamed, Accounts
<1>2. CASE \E w \in Workers : Plain(w)
  BY <1>1, <1>2 DEF Plain, Unnamed
<1>3. ASSUME NEW w \in Workers, \E R : Advance(w, R), unnamed' = unnamed, db' = db
      PROVE  EmailInv'
  <2>1. \A v \in Workers : job'[v].op = job[v].op /\ job'[v].named = job[v].named
                           /\ job'[v].who = job[v].who
    BY <1>3, AdvanceJob
  <2> QED  BY <1>1, <1>3, <2>1 DEF Unnamed
<1>4. ASSUME NEW w \in Workers, IssueAccessToken(w)
      PROVE  EmailInv'
  BY <1>1, <1>4 DEF IssueAccessToken, TypeOK, NoJob, Unnamed
<1>5. ASSUME NEW w \in Workers, NEW e \in Emails, NEW s \in Tenants \cup {None}, StartLogin(w, e, s)
      PROVE  EmailInv'
  <2>1. PICK u \in Resolve(e, s) :
          job' = [job EXCEPT ![w] = [NoJob EXCEPT !.op = "login", !.step = 1, !.who = u,
                                                  !.named = (s # None)]]
    BY <1>5 DEF StartLogin
  <2>2. job'[w] = [NoJob EXCEPT !.op = "login", !.step = 1, !.who = u, !.named = (s # None)]
    BY <2>1 DEF TypeOK
  <2>3. /\ job'[w].named = (s # None) /\ job'[w].who = u /\ db' = db /\ unnamed' = unnamed
        /\ \A v \in Workers \ {w} : job'[v] = job[v]
    BY <1>5, <2>1, <2>2 DEF StartLogin, TypeOK, NoJob
  <2>4. u \in Users /\ u[2] = e /\ u \in Accounts(e)
    BY <2>1, AccountsAreUsers DEF Resolve, RowInv
  <2>5. CASE s # None
    BY <1>1, <2>3, <2>5 DEF Unnamed
  <2>6. CASE s = None
    <3>1. \A v \in Users : Opening(v) => v = u \/ Unnamed(v)
      BY <2>3 DEF Unnamed
    <3>2. Accounts(e) = {u}
      BY <2>1, <2>4, <2>6, NamesAssumption DEF Resolve, Users
    <3>3. \A v \in Users : Unnamed(v) /\ v[2] = e => v = u
      BY <3>2 DEF EmailInv
    <3> QED  BY <2>3, <2>4, <3>1, <3>3 DEF EmailInv, Unnamed, Accounts
  <2> QED  BY <2>5, <2>6
<1>6. ASSUME db' = db, job' = job, unnamed' = unnamed  PROVE EmailInv'
  BY <1>1, <1>6 DEF Unnamed
<1> QED
  BY Steps, <1>2, <1>3, <1>4, <1>5, <1>6 DEF Update, LockUser, Expire, vars

-----------------------------------------------------------------------------
(* The progress of the seed script                                           *)

Did(rows, r) == Holds(rows, r.table, r.tenant, r.user)

\* What the statements behind a run's step insert is there, committed or
\* written by the run; behind a commit nothing is left to commit.
SeedInv ==
    \A w \in Workers : job[w].op = "seed" =>
        /\ job[w].step \in 1..(6 * N + 4)
        /\ \A i \in 1..(job[w].step - 1) : Script[i] # CommitWork => Did(Sees(w), Script[i])
        /\ job[w].step > 1 /\ Script[job[w].step - 1] = CommitWork => job[w].writes = {}

\* A run moves by its own steps, under a database that only grows.
LEMMA SeedMoves ==
    ASSUME TypeOK, RowInv, [Next]_vars, NEW x \in Workers, job'[x].op = "seed"
    PROVE  \/ StartSeed(x) \/ Upsert(x) \/ CommitSection(x)
           \/ job'[x] = job[x] /\ db \subseteq db'
<1> USE DEF TypeOK
<1>1. ASSUME NEW w \in Workers, StartSeed(w), x # w  PROVE job'[x] = job[x] /\ db \subseteq db'
  BY <1>1 DEF StartSeed
<1>2. ASSUME NEW w \in Workers, Upsert(w), x # w  PROVE job'[x] = job[x] /\ db \subseteq db'
  BY <1>2 DEF Upsert, Advance
<1>3. ASSUME NEW w \in Workers, CommitSection(w), x # w  PROVE job'[x] = job[x] /\ db \subseteq db'
  BY <1>3 DEF CommitSection
<1>4. ASSUME NEW w \in Workers, Abort(w)  PROVE job'[x] = job[x] /\ db \subseteq db'
  BY <1>4 DEF Abort, NoJob
<1>5. ASSUME NEW w \in Workers, NEW u, NEW r, Begin(w, u, r)  PROVE job'[x] = job[x] /\ db \subseteq db'
  <2>1. job'[w].op = "write"
    BY <1>5 DEF Begin, NoJob
  <2> QED  BY <1>5, <2>1 DEF Begin
<1>6. ASSUME NEW w \in Workers, NEW R, Advance(w, R), job[w].op # "seed", db' = db
      PROVE  job'[x] = job[x] /\ db \subseteq db'
  BY <1>6, AdvanceJob
<1>7. ASSUME NEW w \in Workers, Insert(w) \/ Update(w) \/ LockUser(w)
      PROVE  job'[x] = job[x] /\ db \subseteq db'
  BY <1>6, <1>7 DEF Insert, Update, LockUser
<1>8. ASSUME NEW w \in Workers, Audit(w)  PROVE job'[x] = job[x] /\ db \subseteq db'
  <2>1. job[w] \in Jobs /\ job'[w] = [job[w] EXCEPT !.step = 3, !.entries = {job[w].row}]
    BY <1>8 DEF Audit
  <2>2. job'[w].op = "write"
    BY <1>8, <2>1 DEF Audit, Jobs
  <2> QED  BY <1>8, <2>2 DEF Audit
<1>9. ASSUME NEW w \in Workers, CommitWrite(w) \/ IssueAccessToken(w)
      PROVE  job'[x] = job[x] /\ db \subseteq db'
  BY <1>9 DEF CommitWrite, IssueAccessToken, NoJob
<1>10. ASSUME NEW w \in Workers, NEW e, NEW s, StartLogin(w, e, s)
       PROVE  job'[x] = job[x] /\ db \subseteq db'
  <2>1. PICK u \in Resolve(e, s) :
          job' = [job EXCEPT ![w] = [NoJob EXCEPT !.op = "login", !.step = 1, !.who = u,
                                                  !.named = (s # None)]]
    BY <1>10 DEF StartLogin
  <2>2. job'[w].op = "login"
    BY <2>1 DEF NoJob
  <2> QED  BY <1>10, <2>1, <2>2 DEF StartLogin
<1> QED
  BY <1>1, <1>2, <1>3, <1>4, <1>5, <1>7, <1>8, <1>9, <1>10
     DEF Next, SeedNext, AdminNext, EndSeed, InviteUser, DisableUser, AssignRole, ByAdmin,
         CreateTenant, Expire, vars

LEMMA SeedStep == TypeOK /\ RowInv /\ SeedInv /\ [Next]_vars => SeedInv'
<1> SUFFICES ASSUME TypeOK, RowInv, SeedInv, [Next]_vars, NEW x \in Workers, job'[x].op = "seed"
             PROVE  /\ job'[x].step \in 1..(6 * N + 4)
                    /\ \A i \in 1..(job'[x].step - 1) :
                          Script[i] # CommitWork => Did(db' \cup job'[x].writes, Script[i])
                    /\ job'[x].step > 1 /\ Script[job'[x].step - 1] = CommitWork
                          => job'[x].writes = {}
  BY DEF SeedInv, Sees, Did, Holds
<1>1. N \in Nat /\ DOMAIN Script = 1..(6 * N + 3)
  BY SeedAssumption DEF N, Script
<1>2. CASE StartSeed(x)
  <2>1. job'[x] = [NoJob EXCEPT !.op = "seed", !.step = 1]
    BY <1>2 DEF StartSeed, TypeOK
  <2>2. job'[x].step = 1
    BY <2>1 DEF NoJob
  <2> QED  BY <1>1, <2>2
<1>3. CASE Upsert(x)
  <2> DEFINE n == job[x].step
             r == Script[n]
             R == {q \in {r} : Selects(x, q) /\ ~Present(x, q)}
  <2>1. n \in 1..(6 * N + 3) /\ r # CommitWork /\ Advance(x, R) /\ db' = db /\ job[x].op = "seed"
    BY <1>1, <1>3 DEF Upsert, Seeding
  <2>2. \A i \in 1..(n - 1) : Script[i] # CommitWork => Did(Sees(x), Script[i])
    BY <2>1 DEF SeedInv
  <2>3. \A s, u : /\ Statement("roles", s, u) # CommitWork /\ Statement("users", s, u) # CommitWork
                  /\ Statement("permissions", s, u) # CommitWork
    BY DEF Statement, CommitWork
  <2>4. Selects(x, r)
    <3>1. CASE r.table = "role_permissions"
      <4>1. PICK a, b \in 1..(n - 1) : /\ Script[a] = Statement("roles", r.tenant, None)
                                       /\ Script[b] = Statement("permissions", None, None)
        BY <1>1, <2>1, <3>1, ScriptOrder
      <4>2. Did(Sees(x), Script[a]) /\ Did(Sees(x), Script[b])
        BY <2>2, <2>3, <4>1
      <4> QED  BY <3>1, <4>1, <4>2 DEF Selects, Did, Statement
    <3>2. CASE r.table = "role_assignments"
      <4>1. PICK a, b \in 1..(n - 1) : /\ Script[a] = Statement("roles", r.tenant, None)
                                       /\ Script[b] = Statement("users", r.tenant, r.user)
        BY <1>1, <2>1, <3>2, ScriptOrder
      <4>2. Did(Sees(x), Script[a]) /\ Did(Sees(x), Script[b])
        BY <2>2, <2>3, <4>1
      <4> QED  BY <3>2, <4>1, <4>2 DEF Selects, Did, Statement
    <3> QED  BY <3>1, <3>2 DEF Selects
  <2>5. Did(Sees(x) \cup R, r)
    BY <2>4 DEF Did, Holds, Present, SameKey
  <2>6. job'[x].step = n + 1 /\ db' \cup job'[x].writes = Sees(x) \cup R
    BY <2>1, AdvanceJob DEF Sees
  <2>7. \A i \in 1..(n - 1) : Script[i] # CommitWork => Did(Sees(x) \cup R, Script[i])
    BY <2>2 DEF Did, Holds
  <2> HIDE DEF R
  <2>8. \A i \in 1..n : Script[i] # CommitWork => Did(db' \cup job'[x].writes, Script[i])
    <3>1. \A i \in 1..n : i = n \/ i \in 1..(n - 1)
      BY <2>1
    <3> QED  BY <2>5, <2>6, <2>7, <3>1
  <2>9. n + 1 \in 1..(6 * N + 4) /\ (n + 1) - 1 = n
    BY <1>1, <2>1
  <2> HIDE DEF n
  <2> QED  BY <2>1, <2>6, <2>8, <2>9
<1>4. CASE CommitSection(x)
  <2> DEFINE n == job[x].step
  <2>1. /\ n \in 1..(6 * N + 3) /\ Script[n] = CommitWork /\ job[x].op = "seed"
        /\ job[x] \in Jobs /\ db' = db \cup job[x].writes
        /\ job'[x] = [job[x] EXCEPT !.step = n + 1, !.writes = {}]
    BY <1>1, <1>4 DEF CommitSection, Seeding, TypeOK
  <2>2. job'[x].step = n + 1 /\ job'[x].writes = {}
    BY <2>1 DEF Jobs
  <2>3. db' \cup job'[x].writes = Sees(x)
    BY <2>1, <2>2 DEF Sees
  <2>4. \A i \in 1..(n - 1) : Script[i] # CommitWork => Did(Sees(x), Script[i])
    BY <2>1 DEF SeedInv
  <2>5. \A i \in 1..n : Script[i] # CommitWork => Did(db' \cup job'[x].writes, Script[i])
    <3>1. \A i \in 1..n : i = n \/ i \in 1..(n - 1)
      BY <2>1
    <3> QED  BY <2>1, <2>3, <2>4, <3>1
  <2>6. n + 1 \in 1..(6 * N + 4) /\ (n + 1) - 1 = n
    BY <1>1, <2>1
  <2> HIDE DEF n
  <2> QED  BY <2>2, <2>5, <2>6
<1>5. CASE job'[x] = job[x] /\ db \subseteq db'
  BY <1>5 DEF SeedInv, Sees, Did, Holds
<1> QED  BY <1>2, <1>3, <1>4, <1>5, SeedMoves

LEMMA SeedEnds == TypeOK /\ SeedInv => SeedComplete
<1> SUFFICES ASSUME TypeOK, SeedInv, NEW w \in Workers, NEW k \in DOMAIN SeedTenants, Seeded(w)
             PROVE  /\ Holds(db, "tenants", SeedTenants[k], None)
                    /\ Holds(db, "users", SeedTenants[k], AdminOf(SeedTenants[k]))
                    /\ IsAdmin(db, AdminOf(SeedTenants[k]))
  BY DEF SeedComplete
<1> DEFINE s == SeedTenants[k]
           p == N + 3 + 5 * (k - 1)
<1>1. N \in Nat /\ k \in 1..N /\ DOMAIN Script = 1..(6 * N + 3) /\ p \in Nat
  BY SeedAssumption DEF N, Script
<1>2. job[w].step = 6 * N + 4 /\ job[w].op = "seed"
  BY <1>1 DEF Seeded, SeedInv
<1>3. job[w].writes = {}
  <2>1. N \in 1..N /\ N + 3 + 5 * (N - 1) + 5 = 6 * N + 3
    BY <1>1
  <2>2. Script[6 * N + 3] = CommitWork
    BY <2>1, ScriptAt DEF Section
  <2>3. job[w].step > 1 /\ job[w].step - 1 = 6 * N + 3
    BY <1>1, <1>2
  <2> QED  BY <1>2, <2>2, <2>3 DEF SeedInv
<1>4. \A i \in 1..(6 * N + 3) : Script[i] # CommitWork => Did(db, Script[i])
  <2>1. job[w].step - 1 = 6 * N + 3 /\ Sees(w) = db
    BY <1>1, <1>2, <1>3 DEF Sees
  <2> QED  BY <1>2, <2>1 DEF SeedInv
<1>5. /\ Script[k] = Statement("tenants", s, None)
      /\ Script[p + 1] = Statement("users", s, AdminOf(s))
      /\ Script[p + 3] = Statement("role_permissions", s, None)
      /\ Script[p + 4] = Statement("role_assignments", s, AdminOf(s))
  <2>1. Script[k] = Statement("tenants", s, None)
    BY <1>1 DEF Script
  <2>2. \A j \in 1..5 : Script[p + j] = Section(s)[j]
    BY <1>1, ScriptAt
  <2> QED  BY <2>1, <2>2 DEF Section
<1>6. k \in 1..(6 * N + 3) /\ \A j \in 1..5 : p + j \in 1..(6 * N + 3)
  <2>1. k >= 1 /\ k <= N
    BY <1>1
  <2>2. k \in 1..(6 * N + 3)
    BY <1>1, <2>1
  <2>3. ASSUME NEW j \in 1..5  PROVE p + j \in 1..(6 * N + 3)
    <3>1. p + j >= 1 /\ p + j <= N + 3 + 5 * N
      BY <1>1, <2>1
    <3> QED BY <1>1, <3>1
  <2> QED  BY <2>2, <2>3
<1>7. Did(db, Script[k]) /\ Did(db, Script[p + 1]) /\ Did(db, Script[p + 3]) /\ Did(db, Script[p + 4])
  BY <1>4, <1>5, <1>6 DEF Statement, CommitWork
<1>8. AdminOf(s)[1] = s
  BY DEF AdminOf
<1> QED  BY <1>5, <1>7, <1>8 DEF Did, Statement, IsAdmin

-----------------------------------------------------------------------------
(* The grants of the seed script                                             *)

Granted(s) == /\ Holds(db, "users", s, AdminOf(s))
              /\ Holds(db, "role_assignments", s, AdminOf(s))

\* Only the seed script makes the first administrator of a tenant, so whatever
\* assigns a role or takes that administrator's address comes after it.
Telling(r) == r.table = "role_assignments" \/ (r.table = "users" /\ r.user = AdminOf(r.tenant))

\* A grant not committed yet is the first, and comes with the users row whose
\* key keeps the other runs away.
FirstGrant(w, r) == /\ r.user = AdminOf(r.tenant)
                    /\ Holds(job[w].writes, "users", r.tenant, r.user)
                    /\ ~Holds(db, "role_assignments", r.tenant, r.user)

GrantInv ==
    /\ \A r \in db : Telling(r) => Granted(r.tenant)
    /\ \A w \in Workers : job[w].op = "write" /\ job[w].row.by \in Tenants => Granted(job[w].row.by)
    /\ \A w \in Workers : \A r \in job[w].writes :
          r.table = "role_assignments" /\ r.by = "seed" => FirstGrant(w, r)
    /\ \A v, w \in Workers : \A q \in job[v].writes, r \in job[w].writes :
          v # w /\ r.table = "users" => ~SameKey(q, r)
    /\ \A w \in Workers : \A r \in job[w].writes :
          job[w].op = "seed" => \E i \in 1..(job[w].step - 1) : Script[i] = r

\* A worker that has nothing open, moves on, or adds what GrantInv is not about.
Calm(v) ==
    \/ /\ job'[v].writes = {}
       /\ job'[v].op = "write" /\ job'[v].row.by \in Tenants => Granted(job'[v].row.by)
    \/ job'[v] = job[v]
    \/ /\ job[v].op = "write" /\ job'[v].op = "write" /\ job'[v].row = job[v].row
       /\ job[v].writes \subseteq job'[v].writes
       /\ \A r \in job'[v].writes \ job[v].writes : r.table \notin {"users", "role_assignments"}

LEMMA GrantFrame ==
    ASSUME GrantInv, db' = db, \A v \in Workers : Calm(v)
    PROVE  GrantInv'
<1>1. \A s : Granted(s)' <=> Granted(s)
  BY DEF Granted, Holds, AdminOf
<1>2. (\A r \in db : Telling(r) => Granted(r.tenant))'
  BY <1>1 DEF GrantInv, Telling, AdminOf
<1>3. ASSUME NEW w \in Workers, job'[w].op = "write", job'[w].row.by \in Tenants
      PROVE  Granted(job[w].row.by)'
  BY <1>1, <1>3 DEF GrantInv, Calm
<1>4. ASSUME NEW w \in Workers, NEW r \in job'[w].writes, r.table = "role_assignments", r.by = "seed"
      PROVE  FirstGrant(w, r)'
  <2>1. r \in job[w].writes /\ job[w].writes \subseteq job'[w].writes
    BY <1>4 DEF Calm
  <2> QED  BY <1>4, <2>1 DEF GrantInv, FirstGrant, Holds, AdminOf
<1>5. ASSUME NEW v \in Workers, NEW w \in Workers, v # w,
             NEW q \in job'[v].writes, NEW r \in job'[w].writes, r.table = "users"
      PROVE  ~SameKey(q, r)
  <2>1. r \in job[w].writes
    BY <1>5 DEF Calm
  <2>2. q.table = "users" => q \in job[v].writes
    BY <1>5 DEF Calm
  <2> QED  BY <1>5, <2>1, <2>2 DEF GrantInv, SameKey
<1>6. ASSUME NEW w \in Workers, NEW r \in job'[w].writes, job'[w].op = "seed"
      PROVE  \E i \in 1..(job'[w].step - 1) : Script[i] = r
  BY <1>6 DEF GrantInv, Calm
<1>7. (\A w \in Workers : job[w].op = "write" /\ job[w].row.by \in Tenants => Granted(job[w].row.by))'
  BY <1>3
<1> QED  BY <1>2, <1>4, <1>5, <1>6, <1>7 DEF GrantInv, SameKey

\* The rows a run of the script inserts about a user are about the
\* administrator of a tenant; behind its users row a section inserts the grant
\* before it ends.
LEMMA ScriptGrants ==
    ASSUME NEW i \in DOMAIN Script, Script[i].table \in {"users", "role_assignments"}
    PROVE  /\ Script[i].user = AdminOf(Script[i].tenant)
           /\ Script[i].table = "users" =>
                /\ i + 3 \in DOMAIN Script
                /\ \A j \in i..(i + 3) : Script[j] # CommitWork
                /\ Script[i + 3] = Statement("role_assignments", Script[i].tenant, Script[i].user)
<1>1. N \in Nat
  BY SeedAssumption DEF N
<1>2. PICK k \in 1..N, j \in 1..5 : i = N + 3 + 5 * (k - 1) + j
  <2>1. \A s : /\ Statement("tenants", s, None).table = "tenants"
               /\ Statement("permissions", s, None).table = "permissions"
               /\ CommitWork.table = "commit"
    BY DEF Statement, CommitWork
  <2> QED  BY <2>1, ScriptPlaces
<1> DEFINE s == SeedTenants[k]
<1>3. \A m \in 1..5 : Script[N + 3 + 5 * (k - 1) + m] = Section(s)[m]
  BY ScriptAt
<1>4. j = 1 \/ j = 4
  <2>1. Script[i] = Section(s)[j]
    BY <1>2, <1>3
  <2>2. j = 1 \/ j = 2 \/ j = 3 \/ j = 4 \/ j = 5
    OBVIOUS
  <2> QED  BY <2>1, <2>2 DEF Section, Statement, CommitWork
<1>5. Section(s)[4] = Statement("role_assignments", s, AdminOf(s))
  BY DEF Section
<1>6. CASE j = 4
  BY <1>2, <1>3, <1>5, <1>6 DEF Statement
<1>7. CASE j = 1
  <2>1. Script[i] = Statement("users", s, AdminOf(s))
    BY <1>2, <1>3, <1>7 DEF Section
  <2>2. N + 3 + 5 * (k - 1) + 4 = i + 3
    BY <1>1, <1>2, <1>7
  <2>3. Script[i + 3] = Statement("role_assignments", s, AdminOf(s))
    BY <1>3, <1>5, <2>2
  <2>4. i + 3 \in DOMAIN Script
    BY <2>2, ScriptAt
  <2>5. ASSUME NEW h \in i..(i + 3)  PROVE Script[h] # CommitWork
    <3>1. PICK m \in 1..4 : h = N + 3 + 5 * (k - 1) + m
      <4>1. h - (N + 3 + 5 * (k - 1)) \in 1..4
        BY <1>1, <1>2, <1>7, <2>5
      <4> QED  BY <1>1, <1>2, <2>5, <4>1
    <3>2. Script[h] = Section(s)[m]
      BY <1>3, <3>1
    <3>3. m = 1 \/ m = 2 \/ m = 3 \/ m = 4
      OBVIOUS
    <3> QED  BY <3>2, <3>3 DEF Section, Statement, CommitWork
  <2> QED  BY <2>1, <2>3, <2>4, <2>5 DEF Statement
<1> QED  BY <1>4, <1>6, <1>7

LEMMA GrantCalm ==
    ASSUME TypeOK, RowInv, GrantInv, [Next]_vars,
           ~\E w \in Workers : Upsert(w) \/ CommitSection(w) \/ Insert(w) \/ CommitWrite(w)
    PROVE  db' = db /\ \A v \in Workers : Calm(v)
<1> DEFINE Still(w) == /\ db' = db /\ \A v \in Workers \ {w} : job'[v] = job[v]
                       /\ Calm(w)
<1> SUFFICES \/ \E w \in Workers : Still(w)
             \/ db' = db /\ job' = job
  BY DEF Calm
<1>1. ASSUME NEW w \in Workers, StartSeed(w) \/ Abort(w) \/ IssueAccessToken(w)  PROVE Still(w)
  <2>1. job'[w].writes = {} /\ job'[w].op # "write"
    <3>1. job'[w] = NoJob \/ job'[w] = [NoJob EXCEPT !.op = "seed", !.step = 1]
      BY <1>1 DEF StartSeed, Abort, IssueAccessToken, TypeOK
    <3>2. NoJob.writes = {} /\ NoJob.op # "write"
      BY DEF NoJob
    <3>3. LET j == [NoJob EXCEPT !.op = "seed", !.step = 1] IN j.writes = {} /\ j.op = "seed"
      BY DEF NoJob
    <3> QED  BY <3>1, <3>2, <3>3
  <2>2. db' = db /\ \A v \in Workers \ {w} : job'[v] = job[v]
    BY <1>1 DEF StartSeed, Abort, IssueAccessToken, TypeOK
  <2> QED  BY <2>1, <2>2 DEF Calm
<1>2. ASSUME NEW w \in Workers, NEW u, NEW r, Begin(w, u, r),
             r.by \in Tenants => Granted(r.by)
      PROVE  Still(w)
  <2>1. job'[w] = [NoJob EXCEPT !.op = "write", !.step = 1, !.who = u, !.row = r]
    BY <1>2 DEF Begin, TypeOK
  <2>2. job'[w].writes = {} /\ job'[w].row = r
    BY <2>1 DEF NoJob
  <2> QED  BY <1>2, <2>2 DEF Begin, TypeOK, Calm
<1>3. ASSUME NEW w \in Workers, NEW s \in Tenants, CreateTenant(w, s)  PROVE Still(w)
  BY <1>2, <1>3, NamesAssumption DEF CreateTenant
<1>4. ASSUME NEW w \in Workers, NEW u \in Users, NEW table, NEW v, ByAdmin(w, u, table, v)
      PROVE  Still(w)
  <2>1. IsAdmin(db, u) /\ Begin(w, u, [table |-> table, tenant |-> u[1], user |-> v, by |-> u[1]])
    BY <1>4 DEF ByAdmin, Administers
  <2>2. Granted(u[1])
    <3>1. PICK r \in db : r.table = "role_assignments" /\ r.tenant = u[1]
      BY <2>1 DEF IsAdmin, Holds
    <3> QED  BY <3>1 DEF GrantInv, Telling
  <2> QED  BY <1>2, <2>1, <2>2
<1>5. ASSUME NEW w \in Workers, Update(w)  PROVE Still(w)
  <2> DEFINE R == {q \in {job[w].row} : Visible(w, q)}
  <2>1. Advance(w, R) /\ db' = db /\ job[w].op = "write" /\ \A q \in R : q.table = "disabled"
    BY <1>5 DEF Update
  <2> HIDE DEF R
  <2> QED  BY <2>1, AdvanceJob DEF Calm
<1>6. ASSUME NEW w \in Workers, Audit(w)  PROVE Still(w)
  <2>1. /\ job[w] \in Jobs /\ job[w].op = "write"
        /\ job'[w] = [job[w] EXCEPT !.step = 3, !.entries = {job[w].row}]
    BY <1>6 DEF Audit, TypeOK
  <2>2. job'[w].op = "write" /\ job'[w].writes = job[w].writes /\ job'[w].row = job[w].row
    BY <2>1 DEF Jobs
  <2> QED  BY <1>6, <2>1, <2>2 DEF Audit, TypeOK, Calm
<1>7. ASSUME NEW w \in Workers, NEW e, NEW s, StartLogin(w, e, s)  PROVE Still(w)
  <2>1. PICK u \in Resolve(e, s) :
          job' = [job EXCEPT ![w] = [NoJob EXCEPT !.op = "login", !.step = 1, !.who = u,
                                                  !.named = (s # None)]]
    BY <1>7 DEF StartLogin
  <2>2. job'[w].op = "login" /\ job'[w].writes = {}
    BY <2>1 DEF NoJob, TypeOK
  <2> QED  BY <1>7, <2>1, <2>2 DEF StartLogin, TypeOK, Calm
<1>8. ASSUME NEW w \in Workers, LockUser(w)  PROVE Still(w)
  <2>1. Advance(w, {}) /\ db' = db /\ job[w].op = "login" /\ job[w].writes = {}
    BY <1>8 DEF LockUser, RowInv, JobInv
  <2> QED  BY <2>1, AdvanceJob DEF Calm
<1> HIDE DEF Still
<1> QED
  BY <1>1, <1>3, <1>4, <1>5, <1>6, <1>7, <1>8
     DEF Next, SeedNext, AdminNext, EndSeed, InviteUser, DisableUser, AssignRole, Expire, vars

\* The parts of GrantInv about what is not committed, when one worker adds one row.
LEMMA GrantAdd ==
    ASSUME TypeOK, GrantInv, NEW w \in Workers, NEW r, NEW R, R \subseteq {r}, Advance(w, R),
           db' = db, KeyFree(w, r),
           R # {} /\ r.table = "role_assignments" /\ r.by = "seed" => FirstGrant(w, r),
           R # {} /\ job[w].op = "seed" => job[w].step > 0 /\ Script[job[w].step] = r
    PROVE  GrantInv'
<1>1. /\ job'[w].op = job[w].op /\ job'[w].step = job[w].step + 1 /\ job'[w].row = job[w].row
      /\ job'[w].writes = job[w].writes \cup R
      /\ \A v \in Workers \ {w} : job'[v] = job[v]
  BY AdvanceJob
<1>2. \A s : Granted(s)' <=> Granted(s)
  BY DEF Granted, Holds, AdminOf
<1>3. (\A q \in db : Telling(q) => Granted(q.tenant))'
  BY <1>2 DEF GrantInv, Telling, AdminOf
<1>4. (\A v \in Workers : job[v].op = "write" /\ job[v].row.by \in Tenants => Granted(job[v].row.by))'
  <2>1. ASSUME NEW v \in Workers, job'[v].op = "write", job'[v].row.by \in Tenants
        PROVE  Granted(job[v].row.by)'
    BY <1>1, <1>2, <2>1 DEF GrantInv
  <2> QED  BY <2>1
<1>5. ASSUME NEW v \in Workers, NEW q \in job'[v].writes, q.table = "role_assignments", q.by = "seed"
      PROVE  FirstGrant(v, q)'
  <2>1. FirstGrant(v, q) /\ job[v].writes \subseteq job'[v].writes
    BY <1>1, <1>5 DEF GrantInv
  <2> QED  BY <2>1 DEF FirstGrant, Holds, AdminOf
<1>6. ASSUME NEW v \in Workers, NEW u \in Workers, v # u,
             NEW p \in job'[v].writes, NEW q \in job'[u].writes, q.table = "users"
      PROVE  ~SameKey(p, q)
  <2>1. CASE p \in job[v].writes /\ q \in job[u].writes
    BY <1>6, <2>1 DEF GrantInv
  <2>2. CASE v = w /\ p = r /\ q \in job[u].writes
    BY <1>6, <2>2 DEF KeyFree, SameKey
  <2>3. CASE u = w /\ q = r /\ p \in job[v].writes
    BY <1>6, <2>3 DEF KeyFree
  <2> QED  BY <1>1, <1>6, <2>1, <2>2, <2>3
<1>7. ASSUME NEW v \in Workers, NEW q \in job'[v].writes, job'[v].op = "seed"
      PROVE  \E i \in 1..(job'[v].step - 1) : Script[i] = q
  <2>1. job[v].step \in Nat
    BY DEF TypeOK, Jobs
  <2>2. CASE q \in job[v].writes
    <3>1. PICK i \in 1..(job[v].step - 1) : Script[i] = q
      BY <1>1, <1>7, <2>2 DEF GrantInv
    <3> QED  BY <1>1, <2>1, <3>1
  <2>3. CASE q \notin job[v].writes
    <3>1. v = w /\ q = r /\ R # {} /\ job[w].op = "seed"
      BY <1>1, <1>7, <2>3
    <3>2. job[w].step > 0 /\ Script[job[w].step] = q
      BY <3>1
    <3>3. job[w].step \in 1..(job'[v].step - 1)
      BY <1>1, <2>1, <3>1, <3>2
    <3> QED  BY <3>2, <3>3
  <2> QED  BY <2>2, <2>3
<1> QED  BY <1>3, <1>4, <1>5, <1>6, <1>7 DEF GrantInv, SameKey

\* The parts of GrantInv when one worker commits what it wrote.
LEMMA GrantCommit ==
    ASSUME TypeOK, RowInv, GrantInv, NEW w \in Workers, db' = db \cup job[w].writes,
           job'[w].writes = {}, job'[w].op # "write",
           \A v \in Workers \ {w} : job'[v] = job[v],
           \A r \in job[w].writes : Telling(r) => Granted(r.tenant)'
    PROVE  GrantInv'
<1>1. \A s : Granted(s) => Granted(s)'
  BY DEF Granted, Holds, AdminOf
<1>2. (\A r \in db : Telling(r) => Granted(r.tenant))'
  BY <1>1 DEF GrantInv, Telling, AdminOf
<1>3. (\A v \in Workers : job[v].op = "write" /\ job[v].row.by \in Tenants => Granted(job[v].row.by))'
  <2>1. ASSUME NEW v \in Workers, job'[v].op = "write", job'[v].row.by \in Tenants
        PROVE  Granted(job[v].row.by)'
    BY <1>1, <2>1 DEF GrantInv
  <2> QED  BY <2>1
<1>4. ASSUME NEW v \in Workers, NEW r \in job'[v].writes, r.table = "role_assignments", r.by = "seed"
      PROVE  FirstGrant(v, r)'
  <2>1. v # w /\ job'[v] = job[v] /\ FirstGrant(v, r)
    BY <1>4 DEF GrantInv
  <2>2. ASSUME NEW q \in job[w].writes, q.table = "role_assignments",
               q.tenant = r.tenant, q.user = r.user
        PROVE  FALSE
    <3>1. CASE q.by = "seed"
      <4>1. PICK p \in job[w].writes : p.table = "users" /\ p.tenant = q.tenant /\ p.user = q.user
        BY <2>2, <3>1 DEF GrantInv, FirstGrant, Holds
      <4>2. PICK o \in job[v].writes : o.table = "users" /\ o.tenant = r.tenant /\ o.user = r.user
        BY <2>1 DEF FirstGrant, Holds
      <4> QED  BY <2>1, <2>2, <4>1, <4>2 DEF GrantInv, SameKey
    <3>2. CASE q.by # "seed"
      <4>1. job[w].op = "write" /\ q = job[w].row /\ Request(q)
        BY <2>2, <3>2 DEF RowInv, JobInv, BySeed, TypeOK, Jobs
      <4>2. Granted(r.tenant)
        BY <2>2, <4>1 DEF GrantInv, Request
      <4> QED  BY <2>1, <4>2 DEF FirstGrant, Granted
    <3> QED  BY <3>1, <3>2
  <2> QED  BY <2>1, <2>2 DEF FirstGrant, Holds, AdminOf
<1>5. (\A v, u \in Workers : \A q \in job[v].writes, r \in job[u].writes :
          v # u /\ r.table = "users" => ~SameKey(q, r))'
  BY DEF GrantInv, SameKey
<1>6. (\A v \in Workers : \A r \in job[v].writes :
          job[v].op = "seed" => \E i \in 1..(job[v].step - 1) : Script[i] = r)'
  BY DEF GrantInv
<1> QED  BY <1>2, <1>3, <1>4, <1>5, <1>6 DEF GrantInv

LEMMA GrantStep == TypeOK /\ RowInv /\ SeedInv /\ GrantInv /\ [Next]_vars => GrantInv'
<1> SUFFICES ASSUME TypeOK, RowInv, SeedInv, GrantInv, [Next]_vars  PROVE GrantInv'
  OBVIOUS
<1>1. N \in Nat /\ DOMAIN Script = 1..(6 * N + 3)
  BY SeedAssumption DEF N, Script
<1>2. ASSUME NEW w \in Workers, Upsert(w)  PROVE GrantInv'
  <2> DEFINE n == job[w].step
             r == Script[n]
             R == {q \in {r} : Selects(w, q) /\ ~Present(w, q)}
  <2>1. /\ n \in DOMAIN Script /\ KeyFree(w, r) /\ Advance(w, R) /\ db' = db
        /\ job[w].op = "seed" /\ R \subseteq {r}
    BY <1>2 DEF Upsert, Seeding
  <2>2. ASSUME R # {}, r.table = "role_assignments"  PROVE FirstGrant(w, r)
    <3>1. ~Present(w, r) /\ r.user = AdminOf(r.tenant)
      BY <2>1, <2>2, ScriptGrants
    <3>2. ~Holds(db, "role_assignments", r.tenant, r.user)
      BY <2>2, <3>1 DEF Present, Holds, SameKey, Sees
    <3>3. PICK a \in 1..(n - 1) : Script[a] = Statement("users", r.tenant, r.user)
      BY <2>1, <2>2, ScriptOrder
    <3>4. Holds(Sees(w), "users", r.tenant, r.user)
      <4>1. Script[a] # CommitWork
        BY <3>3 DEF Statement, CommitWork
      <4>2. Did(Sees(w), Script[a])
        BY <2>1, <3>3, <4>1 DEF SeedInv
      <4> QED  BY <3>3, <4>2 DEF Did, Statement
    <3>5. ~Holds(db, "users", r.tenant, r.user)
      BY <3>1, <3>2 DEF GrantInv, Telling, Granted, Holds
    <3> QED  BY <3>1, <3>2, <3>4, <3>5 DEF FirstGrant, Holds, Sees
  <2>3. n > 0
    BY <1>1, <2>1
  <2> HIDE DEF R
  <2> QED  BY <2>1, <2>2, <2>3, GrantAdd
<1>3. ASSUME NEW w \in Workers, Insert(w)  PROVE GrantInv'
  <2> DEFINE r == job[w].row
  <2>1. KeyFree(w, r) /\ Advance(w, {r}) /\ db' = db /\ job[w].op = "write"
    BY <1>3 DEF Insert
  <2>2. r.by # "seed"
    BY <2>1, NamesAssumption DEF RowInv, JobInv, Request
  <2> HIDE DEF r
  <2> QED  BY <2>1, <2>2, GrantAdd
<1>4. ASSUME NEW w \in Workers, CommitWrite(w)  PROVE GrantInv'
  <2>1. /\ job[w].op = "write" /\ db' = db \cup job[w].writes /\ job'[w] = NoJob
        /\ \A v \in Workers \ {w} : job'[v] = job[v]
    BY <1>4 DEF CommitWrite, TypeOK
  <2>2. ASSUME NEW r \in job[w].writes, Telling(r)  PROVE Granted(r.tenant)'
    <3>1. r = job[w].row /\ Request(r)
      BY <2>1 DEF RowInv, JobInv
    <3>2. Granted(r.tenant)
      BY <2>1, <2>2, <3>1 DEF GrantInv, Request, Telling
    <3> QED  BY <2>1, <3>2 DEF Granted, Holds, AdminOf
  <2> QED  BY <2>1, <2>2, GrantCommit DEF NoJob
<1>5. ASSUME NEW w \in Workers, CommitSection(w)  PROVE GrantInv'
  <2> DEFINE n == job[w].step
  <2>1. /\ n \in 1..(6 * N + 3) /\ Script[n] = CommitWork /\ job[w].op = "seed"
        /\ job[w] \in Jobs /\ db' = db \cup job[w].writes
        /\ job'[w] = [job[w] EXCEPT !.step = n + 1, !.writes = {}]
        /\ \A v \in Workers \ {w} : job'[v] = job[v]
    BY <1>1, <1>5 DEF CommitSection, Seeding, TypeOK
  <2>2. job'[w].writes = {} /\ job'[w].op = "seed" /\ db' = Sees(w)
    BY <2>1 DEF Jobs, Sees
  <2>3. ASSUME NEW r \in job[w].writes, r.table = "users"
        PROVE  r.user = AdminOf(r.tenant) /\ Holds(db', "role_assignments", r.tenant, r.user)
    <3>1. PICK i \in 1..(n - 1) : Script[i] = r
      BY <2>1 DEF GrantInv
    <3>2. i \in DOMAIN Script
      BY <1>1, <2>1
    <3>3. /\ r.user = AdminOf(r.tenant)
          /\ \A j \in i..(i + 3) : Script[j] # CommitWork
          /\ Script[i + 3] = Statement("role_assignments", r.tenant, r.user)
      BY <2>3, <3>1, <3>2, ScriptGrants
    <3>4. n \notin i..(i + 3)
      BY <2>1, <3>3
    <3>5. i + 3 \in 1..(n - 1) /\ Script[i + 3] # CommitWork
      BY <2>1, <3>3, <3>4
    <3>6. Did(Sees(w), Script[i + 3])
      BY <2>1, <3>5 DEF SeedInv
    <3> QED  BY <2>2, <3>3, <3>6 DEF Did, Statement
  <2>4. ASSUME NEW r \in job[w].writes, Telling(r)  PROVE Granted(r.tenant)'
    <3>1. PICK p \in job[w].writes : p.table = "users" /\ p.tenant = r.tenant
                                     /\ p.user = AdminOf(r.tenant)
      <4>1. r.by = "seed"
        BY <2>1 DEF RowInv, JobInv, BySeed
      <4>2. CASE r.table = "role_assignments"
        BY <4>1, <4>2 DEF GrantInv, FirstGrant, Holds
      <4> QED  BY <2>4, <4>2 DEF Telling
    <3>2. Holds(db', "role_assignments", r.tenant, AdminOf(r.tenant))
      BY <2>3, <3>1
    <3> QED  BY <2>1, <3>1, <3>2 DEF Granted, Holds, AdminOf
  <2> QED  BY <2>1, <2>2, <2>4, GrantCommit
<1> QED  BY <1>2, <1>3, <1>4, <1>5, GrantCalm, GrantFrame

-----------------------------------------------------------------------------
(* Theorems                                                                  *)

\* The invariant holds in every reachable state.
THEOREM Invariance == Spec => []IInv
<1>1. Init => IInv
  BY TypeInit, RowInit
     DEF Init, IInv, EffectIsAudited, LockInv, HoldsLock, EmailInv, Unnamed, NoJob
<1>2. IInv /\ [Next]_vars => IInv'
  BY TypeStep, RowStep, AuditStep, LockStep, EmailStep DEF IInv
<1> QED  BY <1>1, <1>2, PTL DEF Spec

\* The types of the variables, for any tenants, addresses, workers and script.
THEOREM TypeCorrect == Spec => []TypeOK
<1>1. IInv => TypeOK
  BY DEF IInv
<1> QED  BY <1>1, Invariance, PTL

\* A run of the seed script has the rows of the statements behind it.
THEOREM SeedProgress == Spec => []SeedInv
<1>1. Init => SeedInv
  BY DEF Init, SeedInv, NoJob
<1>2. TypeOK /\ RowInv /\ SeedInv /\ [Next]_vars => SeedInv'
  BY SeedStep
<1>3. IInv => TypeOK /\ RowInv
  BY DEF IInv
<1> QED  BY <1>1, <1>2, <1>3, Invariance, PTL DEF Spec

\* A run of the seed script that ends has left an administrator in each of its
\* tenants, for any list of them (seed.py).
THEOREM SeedLeavesAdmins == Spec => []SeedComplete
BY TypeCorrect, SeedProgress, SeedEnds, PTL

\* Two runs of the seed script never give an administrator the role twice
\* (seed.py, the last statement of a section).
THEOREM SeedGrantsEachOnce == Spec => []SeedGrantsOnce
<1>1. Init => GrantInv
  BY DEF Init, GrantInv, NoJob
<1>2. TypeOK /\ RowInv /\ SeedInv /\ GrantInv /\ [Next]_vars => GrantInv'
  BY GrantStep
<1>3. IInv => TypeOK /\ RowInv
  BY DEF IInv
<1>4. GrantInv => SeedGrantsOnce
  BY DEF GrantInv, FirstGrant, Holds, SeedGrantsOnce
<1> QED  BY <1>1, <1>2, <1>3, <1>4, Invariance, SeedProgress, PTL DEF Spec

\* An administrator's requests stay in the administrator's tenant, whatever ids
\* they name (main.py, disable_user and assign_role).
THEOREM TenantsApart == Spec => []OwnTenantOnly
<1>1. IInv => OwnTenantOnly
  BY DEF IInv, RowInv, Own, OwnTenantOnly
<1> QED  BY <1>1, Invariance, PTL

\* No administrative change without its entry in the audit log.
THEOREM ChangesAudited == Spec => []EffectIsAudited
<1>1. IInv => EffectIsAudited
  BY DEF IInv
<1> QED  BY <1>1, Invariance, PTL

\* Logins without a tenant mean one account of an address for ever (migration
\* 0004, resolve_login_identity).
THEOREM AddressKeepsAccount == Spec => []OneAccountPerEmail
<1>1. IInv => OneAccountPerEmail
  BY DEF IInv, TypeOK, EmailInv, Unnamed, OneAccountPerEmail
<1> QED  BY <1>1, Invariance, PTL

\* A disabled user is issued no access token (auth.py, FOR UPDATE in
\* authenticate, against disable_user).
THEOREM DisabledGetsNoToken == Spec => NoTokenForDisabled
<1>1. IInv /\ [Next]_vars => [\A t \in tokens' \ tokens : ~Disabled(t.user)]_vars
  <2> SUFFICES ASSUME IInv, [Next]_vars, NEW t \in tokens' \ tokens  PROVE ~Disabled(t.user)
    OBVIOUS
  <2>1. PICK w \in Workers : IssueAccessToken(w)
    BY Steps DEF IInv, Plain, Update, LockUser, StartLogin, Expire, vars
  <2>2. t.user = job[w].who /\ HoldsLock(job[w])
    BY <2>1 DEF IssueAccessToken, HoldsLock
  <2> QED  BY <2>2 DEF IInv, LockInv
<1> QED  BY <1>1, Invariance, PTL DEF Spec, NoTokenForDisabled
=============================================================================
