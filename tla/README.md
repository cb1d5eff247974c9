# TLA+ models of the cyber operations platform

This directory is a verification development of the backend in `backend/app`:
modules that model it, TLC configurations that check them, and theorems that
TLAPS proves. `PROJECT.json` lists, for every definition, the lines it models.

## 1. The system

A FastAPI application over PostgreSQL 16, with a raw object store beside it.
There are no workers, queues or timers of its own: all concurrency is that of
requests, each in its own transaction at READ COMMITTED, in any number of
processes. What is hard is therefore what transactions do to each other, what
remains when one of them ends badly, and what is written outside them.

| Component | State it keeps | Operations | Correct when |
|---|---|---|---|
| Audit log, append (`audit.py` 10-69) | `audit_log`, a hash chain per tenant | `append_audit`, called once by every handler that changes anything | a tenant's rows form one chain; nothing is lost, forked or reordered by concurrency or rollback |
| Audit log, verification (`audit.py` 72-130) | none | `verify_audit_chain` | accepts exactly the tables that are one chain |
| Refresh tokens (`auth.py`, `main.py` 311-324) | `refresh_tokens` (used, revoked), `users.disabled_at` | login, rotation with reuse detection, logout, `disable_user` | one live token per family; a replay, a disabling or a logout ends what it should, for good |
| Login (`auth.py` 40-156) | `users.failed_login_count`, `locked_until`, recovery codes | `authenticate` | guesses are bounded over time; a code opens one session; no session for a locked or disabled account |
| MFA enrollment (`main.py` 98-184) | `totp_enrollments`, `totp_secrets`, `users.mfa_enabled` | `setup_mfa`, `confirm_mfa` | a setup hands out a secret, a confirmation enables it |
| API keys (`main.py` 348-467) | `api_keys` | create, revoke, present | a revoked key is refused; an allowlist binds the host |
| Ingestion (`event_persistence.py`, `raw_store.py`) | raw objects, quarantine, `raw_event_refs`, `events` | `persist_raw_event` | rows, references and bytes agree; a delivery is stored once |
| Partitions (`partition_manager.py`, migration 0001) | partitions of `events` | `ensure_event_partitions` | every accepted month has one |
| Tenant administration (`main.py` 238-345) | tenants, users, role assignments | create, invite, disable, assign | requests stay in the administrator's tenant; nothing changes without its audit entry |
| Seed script (`seed.py`) | the same tables | one run, started by hand or by `dev-up.sh` | whatever was cut off or runs beside it, a run that ends leaves each tenant its administrator, once |
| Access tokens, RBAC (`auth.py`, `security.py`, `deps.py`, migration 0004) | none (signed tokens, ten minutes) | resolve an address, issue, decode | an address without a tenant means one account; a disabled user gets no new token |

How they interact. Every handler that changes anything ends in `append_audit`,
so the tenant's advisory lock is the one lock they all share, taken last.
Login, rotation and `disable_user` meet at the `users` row; rotation, replay,
logout and `disable_user` at the rows of `refresh_tokens`; an insert into
`audit_log` takes a key-share lock on its actor's `users` row. Logins and
rotations take these in one order; replay, logout and `disable_user` do not, so
cycles of waits are possible and PostgreSQL breaks them. The seed script works on the tables of administration with neither the
application's locks nor its audit log, and only unique keys keep two runs apart. The handlers on `tenant_session` answer before their transaction commits
(a dependency with `yield` is left after the response has been sent); those
that open their own session (`authenticate`, `rotate_refresh_token`, `logout`,
`create_tenant`, the events summary) commit first. An upload to S3 runs in a
thread, which does not end when the request that awaits it is cancelled. Ingestion shares no row with
the rest; it has no route yet and is called by tests only.

The hazards of this code, each at its line and with the properties that would
catch it, are in `PROJECT.json` under `hazards`.

## 2. The modules

| Module | Models |
|---|---|
| `LockTable` | PostgreSQL's row and advisory locks as far as the code uses them, and the deadlock detector's view (external) |
| `AuditTrail` | what the audit log promises: one append-only sequence per tenant |
| `AuditLog`, `AuditLogProofs` | `append_audit`, and theorems about it |
| `AuditVerify`, `AuditVerifyProofs` | `verify_audit_chain` on damaged tables, and theorems |
| `Sessions` | what login, rotation, logout and disabling promise together: sessions that open, continue by one token and end |
| `RefreshFamilies`, `RefreshFamiliesProofs` | the token side of login, rotation, replay, logout, disabling, and theorems |
| `SessionsProofs` | the theorem that `RefreshFamilies` implements `Sessions` |
| `LoginLockout`, `LoginLockoutProofs` | the account side of login: counter, lock, recovery codes, clock, and theorems |
| `MfaEnrollment` | setup and confirmation of a second factor |
| `ApiKeys`, `ApiKeysProofs` | keys created, revoked and presented, and theorems |
| `EventIngest`, `EventIngestProofs` | persistence of events, raw store, quarantine, months and partitions, and theorems |
| `Accounts` | the tables of administration, their keys, and what a worker's open transaction is |
| `Seed` | the seed script, statement by statement |
| `TenantAdmin` | the administrators' requests, and the access tokens they are made with |
| `Tenancy`, `TenancyProofs` | the two on one database, the properties of both, and theorems |
| `MC*` | constants for TLC |

Definitions whose comment begins with "Faulty:" are never part of a
specification. Each is a plausible mistake in the definition that follows it;
with it in place of that definition the run named in `PROJECT.json` under
`mutants` fails, so each property is known to depend on the code it is about.

### How a module corresponds to the code

* **Transactions.** A handler is a sequence of actions, one per statement that
  can wait or that reads what others write; `pc` says where it is. Committed
  tables are variables; what a transaction has written and not committed is
  local to it until `Commit`. Every handler that is modelled can be rolled
  back between any two statements.
* **`AuditLog`.** `rows[t]` is the table in commit order. Hashes are taken to
  be free of collisions and stand for what they commit to, the sequence of
  bodies of the chain they close; that also makes the refinement mapping to
  `AuditTrail` immediate: a tenant's trail is what its last hash commits to.
* **`AuditVerify`.** The loop is a recursive function of what it keeps from
  round to round: the row it is at, the hash before it, the rows behind it. The
  check reads under the lock that appenders hold to their commit, so it is one
  evaluation of `VerifyAuditChain` on a table. What damage may do to the table
  is external; what `append_audit` writes is not. `Write` works on the table as
  it finds it, damaged or not: it links to any row without a successor
  (`TailHashes`), as the tail query with its LIMIT 1 does. `promised` is history:
  the table as the last append that left one chain left it, whose tail is the
  hash a caller of `append_audit` may have noted.
* **`RefreshFamilies`.** An UPDATE of many rows is a snapshot and then one
  action per row, since it may wait at each. `SELECT ... FOR UPDATE` over a
  join locks the token row, then the users row. `overtaken` and `closed` are
  history: they record when a logout was overtaken by a rotation.
  As `Sessions` a family is live while it has a committed token that can be
  exchanged; every commit is one step of `Sessions` or changes nothing there.
* **`Accounts`, `Seed`, `TenantAdmin`.** `db` is the set of committed rows; a
  transaction's inserts are in `job[w].writes` until it commits, and a
  statement sees both. A user's `disabled_at` is a row of the table
  `disabled`, as nothing ever takes it back. A tenant has one role, since
  `tenant_admin` is the only one that code creates, and `tenant:admin` stands
  for its permissions. `Script` is the seed script as a function from the
  number of a statement to the row it inserts, and to `CommitWork` where a
  transaction ends. A request names any ids at all; which of them it reaches
  is decided by the tenant policy (`Visible`) and by the keys (`Admitted`).
  `Abort` is every end without effect: a refusal, a 409, a failure, a crash.
  `unnamed` is history: the accounts opened by logins that named no tenant.
* **`LoginLockout`.** A login reads the clock before it waits for the row, and
  the judgement after the row was read is one action with the commit, as
  nobody else may write the row in between. `guesses` and `opened` are history:
  the wrong guesses answered since the last success, whatever the counter says,
  and the sessions a code has opened.
* **`ApiKeys`.** Judging a key and recording its use are two transactions. An
  administrator's transaction writes its row, appends to the audit log, answers
  and commits, in four actions. The UPDATE of a revocation sees the rows that
  are committed when it runs (`hit`) and waits for a revocation of the same row;
  the entry waits for the audit lock, which whoever has logged holds to the end.
  An id can be revoked once its creation was answered (`told`), which is before
  the creation commits. `known`, `revocation` and `late` are history: whether
  the key was committed when its revocation was asked for, the revocation that
  has committed ("full" if so, "early" if not), and the one a client's
  request came after.
* **`EventIngest`.** The store is written outside the transaction and is seen
  at once. `LocalRawObjectStore` and the quarantine truncate a file and then
  write it, S3 replaces an object in one step: a `Put` may or may not be preceded
  by a `Truncate`, so both are in every run. Inserts wait for others that
  hold the same unique key. `Abandon` ends a worker and leaves its upload
  running; the bytes `Land` at any later moment, more than once or never, until
  it is over (`Finish`). `raced` and `strayed` are history: the event_ids that
  two workers persisted at once, and those whose delivery began beside such an
  upload of theirs.
* **`MfaEnrollment`.** A result of SQLAlchemy is modelled by what may still be
  asked of it. The code behind the second question is in the module, and the
  run shows it is not reached.

## 3. The runs

| Run | Shows | Bounds |
|---|---|---|
| `audit_chain` | `LinearChain`, `TailStaysTail`, `AuditLog` implements `AuditTrail` (`TrailSpec`), `Terminates` | 2 tenants that share one lock key, 3 transactions, 2 bodies, no transaction begins for a tenant with a row (those in flight may still land, so a chain reaches 3 rows) |
| `audit_verify` | `VerdictIsRight`, `PinnedByTail`, `HonestIsAccepted` | tables of up to 3 rows, 2 bodies, up to 3 changes, appends before, between and after them |
| `refresh_deep` | `OneUnspent`, `ReplayKillsFamily`, `DisabledHasNoSession`, `QuietLogoutFinal`, `OnlyRevokersDeadlock`, `RefreshFamilies` implements `Sessions` (`SessionSpec`) | 2 users, 3 tokens, 2 requests at a time |
| `refresh_replay` | violation of `ReplayRevokes`, under fairness | 1 user, 3 tokens, 2 requests at a time, no aborts |
| `login_lockout` | `GuessesBounded`, `LockNeverShortened`, `OpensOnlyAvailable`, `RecoveryCodeOnce` | 1 account, 3 logins, 1 code, threshold 2, lock of 2 ticks, 5 instants |
| `mfa_setup` | violation of `SetupReturnsSecret` | 1 user, 2 secrets, 2 requests |
| `api_keys` | `AllowlistBindsHost`, `RevokedStaysRevoked` | 1 key, 1 client, 3 administrators, 2 hosts and a proxy, 1 forged entry |
| `api_keys_race` | violation of `RevocationHolds` | as `api_keys` |
| `tenancy` | `SeedGrantsOnce`, `SeedComplete`, `OwnTenantOnly`, `EffectIsAudited`, `OneAccountPerEmail`, `NoTokenForDisabled` | 2 tenants, 2 addresses, 2 workers that seed, administer or log in, 2 audited changes, 1 access token at a time |
| `ingest` | `NothingDangles`, `ReferenceHasRow`, `QuietProvenance`, `QuietSingleRow` | 1 event_id, 2 contents, 3 observations in 2 months, 2 workers, 1 upload left running, 3 months, with the partition job |
| `ingest_race` | violation of `EventProvenance` | 2 workers |
| `ingest_month` | violation of `AcceptedHasPartition` | 2 workers |

Requests come one after another without end in all of them: a connection that
has finished begins again, so sequences of calls are as long as the bounds on
data allow.

Why the bounds are enough. A chain is forked or broken by two transactions of
one tenant; the third and the second tenant are there for a shared lock key. A
family is broken by one request overtaking another on a chain of tokens: the
oldest, one already spent and one about to appear are three tokens; two users
separate an administrator from the user. A table of three rows has room for a
branch, a circle and a gap, and for an entry cut off and another appended in its
place. An upload that is left running does harm beside one delivery that comes
after it. A revocation that misses its row takes a creation and a revocation at
once, and the third administrator tells an older revocation from a newer one. For
the safety properties the bounds do not matter,
as all of them are proved (section 5).
With a threshold of 2 and a lock of 2 ticks five instants hold two full locks,
and three logins are one more than the threshold. Events with different
event_ids share no row and no object, so one is enough. In `tenancy` a token is
needed only where a request begins, so two administrators act at once although
one token exists at a time; an address that becomes ambiguous takes one change,
a user who is invited and then disabled or given a role takes two, and longer
chains of changes are covered by the theorems, which have no bound. Two runs of
the script may be at any two statements, over any part of an earlier run.
`MaxChanges`, `MaxTokens`, `MaxRows`, `MaxDamage`,
`MaxUploads`, `LastTick`, `LastMonth`, `MaxForged` and `Room` (tokens) are the only bounds
inside guards. Deadlock is checked except for the audit runs, where `MaxRows`
and `MaxDamage` stop the clients.

Symmetry is used in safety runs only, on the sets whose members nothing tells
apart.

**Fairness.** `AuditLog` and `RefreshFamilies` assume that a statement that can
run does run (weak fairness), that a transaction waiting for a lock that is
granted again and again to others gets it (strong fairness on the lock steps;
PostgreSQL serves waiters of a lock in order of arrival), and in
`RefreshFamilies` that the deadlock detector ends one transaction of each cycle
(weak fairness on `DeadlockVictim`). Nothing makes a client begin or a
transaction abort. The fairness of `AuditLog` carries `Terminates`; that of
`RefreshFamilies` is for the violation of `ReplayRevokes`, whose counterexample
must be a run in which every request goes on. That requests end is not stated
of `RefreshFamilies`: with a detector that ends every cycle any order of locks
would have it. What the order is worth is `OnlyRevokersDeadlock`, which has no
fairness to lean on.

## 4. What the runs found

* `refresh_replay`: a family has a spent token and a live one. A replay of the
  spent one holds it and the users row, and its UPDATE comes to the live one,
  which a rotation at the same moment holds while it waits for the users row. If
  PostgreSQL ends the replay, it answers 500, the family is not revoked, against
  the test that says a replay revokes it, and the rotation gives it a new token.
  Once a replay *is* recorded, the family is dead for ever (`ReplayKillsFamily`,
  proved).
* `api_keys_race`: a creation answers before it commits. A revocation asked for
  at once finds no row to update, waits for the audit lock until the creation
  has committed, appends its entry, answers 204 and commits; the key goes on
  working. A revocation asked for when the key was committed is final
  (`RevokedStaysRevoked`, proved).
* `mfa_setup`: `setup_mfa` asks a result a second time after
  `scalar_one_or_none` has closed it, so it always answers 500 (`confirm_mfa`
  does the same). No user can enroll through the API.
* `ingest_race`: two deliveries of one event_id with different bytes overwrite
  each other's object before the insert that would have noticed.
* `ingest_month`: the current month is accepted although only the month of the
  migration is sure to have a partition; nothing calls the partition job.

Three more need no run of their own.

* A delivery is cancelled or times out while its upload to S3 runs in a thread
  (`raw_store.py` 82); the event is delivered again with other bytes and commits;
  then the old bytes land. No two deliveries ran at once, and `EventProvenance`
  is violated all the same: this is what `strayed` excepts from
  `QuietProvenance`, and what TLC answers when the exception is taken out.
* Entries cut off at the end of a chain leave one chain, which the check accepts
  (`VerdictIsRight`), although `docs/threat-model.md` (68) names an audit deletion
  that is accepted among the failures to test for. The next append links to what is left, so
  the table even grows again. Who has noted a hash that `append_audit` returned
  notices the loss (`PinnedByTail`, proved).
* `src/.agents/skills/testing-phase1-auth/SKILL.md` (61-62) has the first entry of
  X-Forwarded-For checked against a key's allowlist; the code takes the last, and
  the code is right: `AllowlistBindsHost` holds with the last entry and fails
  with the first (its mutant).

`QuietLogoutFinal`, `QuietProvenance`, `QuietSingleRow`, `RevokedStaysRevoked` and
`PinnedByTail` state exactly what remains true where the unconditional claim
fails.

`NoTokenForDisabled` is as much as holds of access tokens. Nothing looks at a
token's user when it is presented, so a disabled administrator goes on
administering until the last token issued before the disabling runs out.

## 5. What is proved

All theorems hold for every value of the constants that satisfies the module's
named assumptions, and for any number of concurrent requests.

`AuditLogProofs` (assumptions `MaxRowsAssumption`, `NonEmptyAssumption`):
`TypeCorrect`, `ChainIsLinear`, `TailIsStable`, and `ImplementsTrail`, that
`AuditLog` implements `AuditTrail`. `LinearChain` is not inductive, since it
says nothing of the transactions that are about to commit. The invariant adds
that the advisory lock excludes (`Exclusion`), that a transaction past it holds
it (`Holding`), that what it read is the tail (`TailStaysTail`) and that the
hash it inserted is right (`HashReady`). `HashLength` makes the tail query find
exactly one row: in a chain the i-th hash commits to i bodies, so no row but
the next names it. No assumption on `LockKey` is needed: tenants that share a
key only wait longer.

`RefreshFamiliesProofs` (assumption `ConstantsAssumption`): `TypeCorrect`,
`SingleToken`, `ReplayIsFinal`, `DisabledIsFinal`, `LogoutIsFinal`,
`NoCircleOfRotations`. The argument is about locks. `Promise`: a request that has inserted a token holds its old
token and its user, which stay unspent and enabled until it commits. `Covers`:
an UPDATE that revokes has marked each row it must cover or has it still to
reach, as whoever adds a row to the family needs the users row that the replay
or `disable_user` holds. Only logout holds no such row, hence `overtaken` in its
clause. `Exclusion`, `Holds`, `Shape` and `TokenLocks` carry the two.
`NoCircleOfRotations` is that logins and rotations wait for each other in no
cycle. `LInv` says of every lock which kind of row it is on, for whom, and which
step took it (`LockMeans`); the kinds come in one order, token, users row, audit
lock, so whoever is waited for waits for a later kind (`WaitsUpwards`), and a cycle
would come back to where it began.

`TenancyProofs` (assumptions `NamesAssumption`, `SeedAssumption`,
`BoundsAssumption`): `TypeCorrect`, `TenantsApart`, `ChangesAudited`,
`AddressKeepsAccount`, `DisabledGetsNoToken`, `SeedLeavesAdmins` and
`SeedGrantsEachOnce`. Committed
rows alone are not inductive, as they come from transactions. `RowInv` says what
those may have written: what an administrator's request has written is the one
row it was begun for, in the administrator's tenant, and its audit entry is in
the same transaction. `LockInv` says that the account of a login past its lock is
not disabled and that nobody who holds the row is disabling it. `EmailInv` says
that an account opened without a tenant's name, or about to be, is the only such
account of its address: it was the address's only account then and is never
deleted, so the address resolves to it or to nothing. `SeedInv` says that the
rows of all statements behind a run are there, committed or its own; the
arithmetic of `Script` is in `ScriptRows`, `ScriptPlaces` and `ScriptOrder`.
`GrantInv` is why no role is granted twice although no key forbids it: a
committed users row of a tenant's first administrator comes with the grant, so a
run that would grant again has inserted the users row itself, and the key of that
row keeps every other run out of the section. It rests on the script being the
only code that makes a first administrator: whoever could invite or assign in a
tenant is there after the grant.

`SessionsProofs` (the assumption of `RefreshFamiliesProofs`):
`ImplementsSessions`, that the handlers with their row locks, UPDATEs row by
row, aborts and deadlocks implement `Sessions`, where a session opens, moves on
by one token and ends whole. Every commit is one step there or none, and every
other step is none. The invariants of `RefreshFamiliesProofs` say that an UPDATE
reaches every row it must; the converse is needed here (`AimsOnly`: it reaches
no other), and that a family is named by a token of its own (`FamilyRoot`).
Together they are `SInv`, in `OnlyOwnRows`.

`AuditVerifyProofs` (assumption `DamageAssumption`): `TypeCorrect`,
`VerdictRight`, `TailPins`, `HonestPass`, for tables of any size and any damage.
The library's induction theorems take an operator as a parameter, which the
provers used here cannot instantiate; its theorem on well-founded relations
(`WFMin`) does not, and gives that every set of naturals has a least member
(`LeastNat`), with which all inductions over data are made. The loop's recursion
is sound because each round leaves one row less to visit: a function exists that
satisfies the equation of `Walk` (`Solved`, `WalkIsRound`). A table that is
accepted has an order, as the loop has either come along all rows or goes on to
a new one (`PathGoesOn`), and no order is longer than the table. A chain is
accepted because the k-th hash commits to k bodies (`ChainHashes`): hashes are
all different, every row but the last has one successor (`ChainSuccessors`), and
the loop is followed back from its end. `VerdictOfAnyTable` joins the two for
any table at all, reachable or not. For the other two properties the invariant
adds that `promised` is one chain, or empty, and that the table was one chain until
the first damage. A handler that appends to one chain finds one tail and leaves
one chain (`AppendExtends`). Two chains with one hash in common have the same
entries up to it, as a hash commits to every body before it (`ChainsAgree`): so a
table that passes and has the hash of the last promised entry has them all
(`TailPins`), whatever handlers appended after a loss.

`LoginLockoutProofs` (assumption `LockoutAssumption`): `TypeCorrect`,
`GuessesAreBounded`, `CodesOpenOnce`, `LocksOnlyGrow`, `OnlyAvailableOpen`.
`GuessesBounded` says nothing of the lock that enforces it. The invariant adds
that what a login has read of the row it holds is what is there (`SeenIsRow`,
`OneJudge`), that the time it judges by is not in the future (`ClockRead`), and
that the end of the lock moves ahead by one `Hold` with each failure and is
never more than a `Hold` ahead of the clock (`LockPaces`); so the clock bounds
the failures, and with them the guesses, none of which the counter has lost
(`Counted`). `SpentCodes`: a code that opened a session is gone.

`ApiKeysProofs` (assumptions `KeysAssumption`, `RowAssumption`): `TypeCorrect`,
`OnlyListedHosts`, `RevocationIsFinal`. A row, once there, is only written by
revocations, as a creation still pending is of a key that has no row and that
nobody else creates (`Pending`, `OneCreator`, `RowIsTold`). A revocation asked for
when the key was committed finds the row, since rows are never taken away
(`Pending`: `known` implies `hit`), so its commit revokes (`FullIsRevoked`) and a
request made after it finds nothing (`LateIsLost`). The address that is judged is
the client's, however many entries it forges (`JudgedIsHost`).

`EventIngestProofs` (assumptions `IngestAssumption`, `ReferenceAssumption`):
`TypeCorrect`, `NeverDangles`, `RowWithReference`, `ProvenanceWhenQuiet`,
`SingleRowWhenQuiet`. `Staged` and `Whole` say of each worker that its bytes are
in the store before its first insert and that a reference to the primary store
goes with its row; they survive every interleaving. `Quiet` is about an event_id
that no two workers have persisted at once: its one worker (`Alone`) goes on to
the store only if there was no reference, and until its commit nobody makes one,
so what it overwrites nobody has been promised. That is enough for the rows. For
the bytes the uploads left running matter (`Calm`): one of an event_id that is
not `strayed` belongs to a delivery that promised nothing, and nobody is
persisting the event beside it.

`RowAssumption` and `ReferenceAssumption` say that `None` is no row of
`api_keys` and none of `raw_event_refs`: SQL's NULL against a row. The other
assumptions are about bounds, sets that do not overlap, and ids that are finitely
many.

Model-checked only: `Terminates`, a liveness property, which needs ENABLED and
fairness and is beyond the provers. Every other property of a
run that passes is the statement of a theorem.

## 6. What is not modelled

Grants and database roles, and row-level security beyond what
`disable_user` and `assign_role` reach through it (declarations of the
database); migrations as processes; password hashing, TOTP, encryption and token
signatures (their verdicts are inputs); settings, secrets and the log filter;
reads of raw objects, which change nothing; `requires` and `permission_keys` of
`rbac.py`, which nothing calls. `LoginLockout` starts where the address has been
resolved; the resolution is in `TenantAdmin`. In `Tenancy` the audit lock and the
key-share locks of foreign keys are left out, as `AuditLog` and `RefreshFamilies`
have them and they only make a transaction wait; so are the attributes of
assignments, which no code writes, and the access tokens of rotations, which are
issued under the same lock and judgement as those of logins. In `MfaEnrollment`
the lock on the row of `totp_enrollments` is left out, as no such row comes to
exist. A refresh token whose row is missing is left out of
`RefreshFamilies`: a client only receives committed ones.

## 7. Plan

1. An abstract exactly-once archive that `EventIngest` implements where no two
   workers persist one event_id at once, and its refinement as a theorem from
   `Quiet`.
2. That the audit log and its verification meet: every table of `AuditLog` is
   accepted by `VerifyAuditChain`, from `ChainIsLinear` and `ChainIsAccepted`.
3. Steps where only states are proved: a revoked token stays revoked, a
   committed reference never changes.
