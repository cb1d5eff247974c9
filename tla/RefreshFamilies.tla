--------------------------- MODULE RefreshFamilies ---------------------------
(* Refresh tokens of one tenant: login, rotation, replay, logout and the   *)
(* disabling of a user, as concurrent READ COMMITTED transactions.         *)
(*                                                                         *)
(*   login     authenticate          backend/app/auth.py                   *)
(*   rotate    rotate_refresh_token  backend/app/auth.py                   *)
(*   logout    logout                backend/app/auth.py                   *)
(*   disable   disable_user          backend/app/main.py                   *)
(*                                                                         *)
(* An action is a statement of a handler.  An UPDATE of several rows is a  *)
(* snapshot of the rows it will touch and then one action per row, since   *)
(* it can wait at each of them.  What a transaction writes is seen by the  *)
(* others at its commit; its row locks keep everyone else from writing the *)
(* same rows before that, so the variables hold committed state only.      *)
(*                                                                         *)
(* Left out: the password and second factor of a login (its outcome is     *)
(* open here), the access token of a pair, and a signed refresh token      *)
(* whose row is missing, which a client never receives.                    *)
EXTENDS Integers, FiniteSets, LockTable

CONSTANTS
    Users,
    Tokens,     \* rows of refresh_tokens; a family is named by its first token
    Requests,   \* connections, each serving one request at a time
    Advisory,   \* the tenant's audit lock
    None,
    MayAbort    \* may the server, the handler or the network end a transaction?

ASSUME ConstantsAssumption ==
    /\ MayAbort \in BOOLEAN
    /\ None \notin Users \cup Tokens
    /\ Advisory \notin Users \cup Tokens
    /\ Users \cap Tokens = {}

VARIABLES
    issued,     \* the committed rows of refresh_tokens
    family,     \* family_id of each row
    owner,      \* user_id of each row
    used,       \* rows with used_at set
    revoked,    \* rows with revoked_at set
    disabled,   \* users with disabled_at set
    reused,     \* families with an auth.refresh_reuse entry in the audit log
    locks,      \* the lock table
    pc,         \* the statement a request is at
    job,        \* the request: what it does, for whom, with which token
    fresh,      \* the row it has inserted and not committed
    todo,       \* rows its UPDATE has still to reach, after the next one
    row,        \* the row its UPDATE is about to lock
    overtaken,  \* history: logouts that missed a rotation of their family
    closed      \* history: families ended by a logout that missed none

store == <<issued, family, owner, used, revoked, disabled, reused>>
history == <<overtaken, closed>>
local == <<pc, job, fresh, todo, row>>
vars == <<store, locks, local, history>>

NoJob == [op |-> "none", tok |-> None, who |-> None, actor |-> None]

Unspent(t) == t \in issued /\ t \notin used /\ t \notin revoked

FamilyRows(f) == {t \in issued : family[t] = f}

-----------------------------------------------------------------------------
Init ==
    /\ issued = {} /\ used = {} /\ revoked = {}
    /\ family = [t \in Tokens |-> None]
    /\ owner = [t \in Tokens |-> None]
    /\ disabled = {} /\ reused = {} /\ locks = {}
    /\ pc = [r \in Requests |-> "idle"]
    /\ job = [r \in Requests |-> NoJob]
    /\ fresh = [r \in Requests |-> None]
    /\ todo = [r \in Requests |-> {}]
    /\ row = [r \in Requests |-> None]
    /\ overtaken = {} /\ closed = {}

Goto(r, from, to) == pc[r] = from /\ pc' = [pc EXCEPT ![r] = to]

\* The statement of r that takes a lock on x in mode m.
Lock(r, x, m) == Grantable(locks, r, x, m) /\ locks' = Grant(locks, r, x, m)

\* An UPDATE of the rows in S comes to its next row, in no order one may count
\* on; with no row left the handler goes on to append_audit.
NextRow(r, S) ==
    \/ /\ S = {}
       /\ pc' = [pc EXCEPT ![r] = "audit"]
       /\ row' = [row EXCEPT ![r] = None]
       /\ todo' = [todo EXCEPT ![r] = {}]
    \/ \E t \in S :
          /\ pc' = [pc EXCEPT ![r] = "revoke"]
          /\ row' = [row EXCEPT ![r] = t]
          /\ todo' = [todo EXCEPT ![r] = S \ {t}]

Take(r, j) == pc[r] = "idle" /\ job' = [job EXCEPT ![r] = j]

\* A row with a token of its own (a fresh jti), not visible to others yet.
InsertToken(r) ==
    \E t \in Tokens \ (issued \cup {fresh[q] : q \in Requests}) :
        fresh' = [fresh EXCEPT ![r] = t]

\* The bound on tokens: a request that may insert one begins only while one is
\* left for it.  Of the rotations of one token only one will want a row.
Room(logins, toks) ==
    LET pending(op) == {q \in Requests : job[q].op = op}
    IN  Cardinality(issued) + Cardinality(pending("login")) + logins
          + Cardinality({job[q].tok : q \in pending("rotate")} \cup toks) <= Cardinality(Tokens)

-----------------------------------------------------------------------------
(* authenticate: users row FOR UPDATE, judge, new family, audit            *)

\* Faulty: the attempt is written to the audit log before the account is read.
BeginLoginLogged(r, u) ==
    /\ Room(1, {})
    /\ Take(r, [op |-> "login", tok |-> None, who |-> u, actor |-> u])
    /\ pc' = [pc EXCEPT ![r] = "lockUser"]
    /\ Lock(r, Advisory, "update")
    /\ UNCHANGED <<store, fresh, todo, row, history>>

BeginLogin(r, u) ==
    /\ Room(1, {})
    /\ Take(r, [op |-> "login", tok |-> None, who |-> u, actor |-> u])
    /\ pc' = [pc EXCEPT ![r] = "lockUser"]
    /\ UNCHANGED <<store, locks, fresh, todo, row, history>>

\* Faulty: a rotation locks its token and not its user (FOR UPDATE OF rt).
LockUserAtLogin(r) ==
    /\ job[r].op \in {"login", "rotate"}
    /\ Goto(r, "lockUser", "judge")
    /\ IF job[r].op = "login" THEN Lock(r, job[r].who, "update") ELSE UNCHANGED locks
    /\ UNCHANGED <<store, job, fresh, todo, row, history>>

LockUser(r) ==
    /\ job[r].op \in {"login", "rotate"}
    /\ Goto(r, "lockUser", "judge")
    /\ Lock(r, job[r].who, "update")
    /\ UNCHANGED <<store, job, fresh, todo, row, history>>

RefuseLogin(r) ==
    /\ job[r].op = "login"
    /\ Goto(r, "judge", "audit")
    /\ UNCHANGED <<store, locks, job, fresh, todo, row, history>>

AcceptLogin(r) ==
    /\ job[r].op = "login"
    /\ job[r].who \notin disabled
    /\ Goto(r, "judge", "audit")
    /\ InsertToken(r)
    /\ UNCHANGED <<store, locks, job, todo, row, history>>

-----------------------------------------------------------------------------
(* rotate_refresh_token: token row and users row FOR UPDATE, in the order  *)
(* of the join's range table, then judge                                   *)
BeginRotate(r, t) ==
    /\ t \in issued
    /\ Unspent(t) => Room(0, {t})
    /\ Take(r, [op |-> "rotate", tok |-> t, who |-> owner[t], actor |-> owner[t]])
    /\ pc' = [pc EXCEPT ![r] = "lockToken"]
    /\ UNCHANGED <<store, locks, fresh, todo, row, history>>

LockToken(r) ==
    /\ Goto(r, "lockToken", "lockUser")
    /\ Lock(r, job[r].tok, "update")
    /\ UNCHANGED <<store, job, fresh, todo, row, history>>

\* Faulty: used_at is not looked at.
RotatableAgain(r) == job[r].tok \notin revoked /\ job[r].who \notin disabled

Rotatable(r) == Unspent(job[r].tok) /\ job[r].who \notin disabled

Rotate(r) ==
    /\ job[r].op = "rotate"
    /\ Rotatable(r)
    /\ Goto(r, "judge", "audit")
    /\ InsertToken(r)
    /\ UNCHANGED <<store, locks, job, todo, row, history>>

\* The UPDATE of the whole family begins: the rows it will reach are those
\* committed at this moment.  The clock may have passed expires_at.
DetectReuse(r, isExpired) ==
    /\ job[r].op = "rotate"
    /\ pc[r] = "judge"
    /\ isExpired \/ ~Rotatable(r)
    /\ NextRow(r, FamilyRows(family[job[r].tok]))
    /\ UNCHANGED <<store, locks, job, fresh, history>>

-----------------------------------------------------------------------------
\* Faulty: a logout ends the token it was given and not the family.
BeginLogoutOne(r, t) ==
    /\ t \in issued
    /\ Take(r, [op |-> "logout", tok |-> t, who |-> owner[t], actor |-> owner[t]])
    /\ NextRow(r, {t})
    /\ UNCHANGED <<store, locks, fresh, history>>

(* logout: no row is read or locked before the UPDATE of the family        *)
BeginLogout(r, t) ==
    /\ t \in issued
    /\ Take(r, [op |-> "logout", tok |-> t, who |-> owner[t], actor |-> owner[t]])
    /\ NextRow(r, FamilyRows(family[t]))
    /\ UNCHANGED <<store, locks, fresh, history>>

(* disable_user, called by an administrator a on user u                    *)
BeginDisable(r, a, u) ==
    /\ Take(r, [op |-> "disable", tok |-> None, who |-> u, actor |-> a])
    /\ pc' = [pc EXCEPT ![r] = "updateUser"]
    /\ UNCHANGED <<store, locks, fresh, todo, row, history>>

\* Faulty: the tokens are swept before the users row is written.
UpdateUserLater(r) ==
    /\ Goto(r, "updateUser", "sweep")
    /\ UNCHANGED <<store, locks, job, fresh, todo, row, history>>

UpdateUser(r) ==
    /\ Goto(r, "updateUser", "sweep")
    /\ Lock(r, job[r].who, "nokey")
    /\ UNCHANGED <<store, job, fresh, todo, row, history>>

\* WHERE user_id = :id AND revoked_at IS NULL
Sweep(r) ==
    /\ pc[r] = "sweep"
    /\ NextRow(r, {t \in issued : owner[t] = job[r].who /\ t \notin revoked})
    /\ UNCHANGED <<store, locks, job, fresh, history>>

\* One row of an UPDATE of refresh_tokens: wait for it, mark it, go on.
RevokeRow(r) ==
    /\ pc[r] = "revoke"
    /\ Lock(r, row[r], "nokey")
    /\ NextRow(r, todo[r])
    /\ UNCHANGED <<store, job, fresh, history>>

-----------------------------------------------------------------------------
(* append_audit and the end of the transaction                             *)
LockAudit(r) ==
    /\ Goto(r, "audit", "insert")
    /\ Lock(r, Advisory, "update")
    /\ UNCHANGED <<store, job, fresh, todo, row, history>>

\* The INSERT into audit_log checks its actor_id against users.
InsertEntry(r) ==
    /\ Goto(r, "insert", "commit")
    /\ Lock(r, job[r].actor, "keyshare")
    /\ UNCHANGED <<store, job, fresh, todo, row, history>>

\* Faulty: only the row the UPDATE stands at, and there is none at the end.
MarkedLast(r) == {row[r]}

\* The rows an UPDATE of r has marked.
Marked(r) == {t \in Tokens : [by |-> r, on |-> t, mode |-> "nokey"] \in locks}

\* A rotation that inserts no row has found reuse, and records it.
FoundReuse(r) == job[r].op = "rotate" /\ fresh[r] = None

End(r) ==
    /\ pc' = [pc EXCEPT ![r] = "idle"]
    /\ job' = [job EXCEPT ![r] = NoJob]
    /\ fresh' = [fresh EXCEPT ![r] = None]
    /\ todo' = [todo EXCEPT ![r] = {}]
    /\ row' = [row EXCEPT ![r] = None]
    /\ locks' = Release(locks, r)

\* A rotation that commits now is missed by every logout of the family that
\* has taken its snapshot and not committed.
Missing(f) == {q \in Requests : job[q].op = "logout" /\ family[job[q].tok] = f}

Commit(r) ==
    LET j == job[r]
        new == fresh[r]
        f == IF j.op = "login" THEN new ELSE family[j.tok]
    IN  /\ pc[r] = "commit"
        /\ issued' = IF new = None THEN issued ELSE issued \cup {new}
        /\ family' = [t \in Tokens |-> IF t = new THEN f ELSE family[t]]
        /\ owner' = [t \in Tokens |-> IF t = new THEN j.who ELSE owner[t]]
        /\ used' = IF j.op = "rotate" /\ new # None THEN used \cup {j.tok} ELSE used
        /\ revoked' = revoked \cup Marked(r)
        /\ disabled' = IF j.op = "disable" THEN disabled \cup {j.who} ELSE disabled
        /\ reused' = IF FoundReuse(r) THEN reused \cup {f} ELSE reused
        /\ overtaken' = (overtaken \cup (IF j.op = "rotate" /\ new # None THEN Missing(f) ELSE {})) \ {r}
        /\ closed' = IF j.op = "logout" /\ r \notin overtaken THEN closed \cup {f} ELSE closed
        /\ End(r)

Rollback(r) ==
    /\ pc[r] # "idle"
    /\ overtaken' = overtaken \ {r}
    /\ UNCHANGED <<store, closed>>
    /\ End(r)

\* The handler fails, the connection is lost, the server stops.
Abort(r) == MayAbort /\ Rollback(r)

\* What r is waiting for: the transactions in the way of its next lock.
WaitsOn(r) ==
    CASE pc[r] = "lockUser"   -> Blockers(locks, r, job[r].who, "update")
      [] pc[r] = "lockToken"  -> Blockers(locks, r, job[r].tok, "update")
      [] pc[r] = "updateUser" -> Blockers(locks, r, job[r].who, "nokey")
      [] pc[r] = "revoke"     -> Blockers(locks, r, row[r], "nokey")
      [] pc[r] = "audit"      -> Blockers(locks, r, Advisory, "update")
      [] pc[r] = "insert"     -> Blockers(locks, r, job[r].actor, "keyshare")
      [] OTHER -> {}

\* After deadlock_timeout PostgreSQL ends one transaction of a cycle of waits,
\* any of them; the handler sees a DBAPIError and answers 500.
DeadlockVictim(r) ==
    /\ OnCycle([q \in Requests |-> WaitsOn(q)], r)
    /\ Rollback(r)

-----------------------------------------------------------------------------
Start(r) ==
    \/ \E u \in Users : BeginLogin(r, u)
    \/ \E t \in Tokens : BeginRotate(r, t) \/ BeginLogout(r, t)
    \/ \E a, u \in Users : BeginDisable(r, a, u)

Locking(r) ==
    \/ LockUser(r) \/ LockToken(r) \/ UpdateUser(r)
    \/ RevokeRow(r) \/ LockAudit(r) \/ InsertEntry(r)

Judging(r) ==
    \/ RefuseLogin(r) \/ AcceptLogin(r) \/ Rotate(r) \/ Sweep(r)
    \/ \E isExpired \in BOOLEAN : DetectReuse(r, isExpired)

Next ==
    \E r \in Requests :
        Start(r) \/ Locking(r) \/ Judging(r) \/ Commit(r) \/ Abort(r) \/ DeadlockVictim(r)

Spec == Init /\ [][Next]_vars

\* A statement that can run does run; PostgreSQL queues the transactions that
\* wait for a lock, so one granted again and again to others comes to each of
\* them; and the deadlock detector finds every cycle.  Nothing makes a client
\* begin or a transaction abort.
Fairness ==
    \A r \in Requests :
        /\ SF_vars(Locking(r))
        /\ WF_vars(Judging(r) \/ Commit(r))
        /\ WF_vars(DeadlockVictim(r))

FairSpec == Spec /\ Fairness

-----------------------------------------------------------------------------
Ops == {"login", "rotate", "logout", "disable"}

Steps == {"idle", "lockUser", "judge", "lockToken", "updateUser", "sweep",
          "revoke", "audit", "insert", "commit"}

Job == [op : Ops \cup {"none"}, tok : Tokens \cup {None},
        who : Users \cup {None}, actor : Users \cup {None}]

\* The type invariant of the module's variables.
TypeOK ==
    /\ issued \subseteq Tokens /\ used \subseteq issued /\ revoked \subseteq issued
    /\ disabled \subseteq Users
    /\ family \in [Tokens -> Tokens \cup {None}]
    /\ owner \in [Tokens -> Users \cup {None}]
    /\ \A t \in issued : family[t] \in issued /\ owner[t] \in Users
    /\ locks \subseteq [by : Requests, on : Users \cup Tokens \cup {Advisory}, mode : Modes]
    /\ pc \in [Requests -> Steps]
    /\ job \in [Requests -> Job]
    /\ fresh \in [Requests -> Tokens \cup {None}]
    /\ todo \in [Requests -> SUBSET Tokens]
    /\ row \in [Requests -> Tokens \cup {None}]
    /\ overtaken \subseteq Requests /\ closed \subseteq issued /\ reused \subseteq issued

\* At every moment at most one committed token of a family can be exchanged:
\* two rotations of one token never both succeed, and a rotation never leaves
\* its old token good next to the new one (auth.py, rotate_refresh_token).
OneUnspent ==
    \A s, t \in issued : Unspent(s) /\ Unspent(t) /\ family[s] = family[t] => s = t

\* Once a replay is on record, every token of the family is revoked, those of
\* rotations that ran beside the replay included, and none is ever added to
\* the family again (auth.py, the reuse branch).
ReplayKillsFamily ==
    \A t \in issued : family[t] \in reused => t \in revoked

\* Once the disabling of a user has committed, every refresh token of the user
\* is revoked, whatever logins and rotations ran beside it, and no new one is
\* issued (main.py, disable_user).
DisabledHasNoSession ==
    \A t \in issued : owner[t] \in disabled => t \in revoked

\* A logout ends its family for good unless a rotation of the family committed
\* between the logout's snapshot and its commit.  In that one case the token
\* of the rotation escapes it: logout (auth.py) takes no lock before its
\* UPDATE, so it cannot know of the row the rotation is about to add.
QuietLogoutFinal == \A t \in issued : family[t] \in closed => t \in revoked

\* The token that continues family f.
Live(f) ==
    IF \E t \in issued : family[t] = f /\ Unspent(t)
    THEN CHOOSE t \in issued : family[t] = f /\ Unspent(t)
    ELSE None

\* The handlers implement sessions: every commit opens one, moves one to its
\* next token, ends one or ends all of a user, and nothing else ever happens
\* to one.  In particular a logout overtaken by a rotation leaves the session
\* wholly open: it never ends it by half, nor brings an ended one back.
Session == INSTANCE Sessions
             WITH live <- [f \in Tokens |-> Live(f)],
                  holder <- [f \in Tokens |-> IF f \in issued /\ family[f] = f THEN owner[f] ELSE None],
                  handedOut <- issued

SessionSpec == Session!Spec

\* A transaction that revokes rows: a logout, a disabling, or a rotation that
\* has found reuse.
Revokes(r) ==
    \/ job[r].op \in {"logout", "disable"}
    \/ FoundReuse(r) /\ pc[r] \in {"revoke", "audit", "insert", "commit"}

\* Logins and rotations take what they wait for in one order, token, user,
\* audit lock, and the users row of the entry they hold already: however many
\* there are, they never wait for each other in a circle.  Every deadlock has a
\* logout, a disabling or a replay in it (auth.py, main.py, audit.py).
OnlyRevokersDeadlock ==
    \A r \in Requests : ~OnCycle([q \in Requests |-> IF Revokes(q) THEN {} ELSE WaitsOn(q)], r)

\* r holds the row of a spent token of family f, and knows that it is spent or
\* is about to look.
Replays(r, f) ==
    /\ job[r].op = "rotate" /\ job[r].tok \in used /\ family[job[r].tok] = f
    /\ pc[r] \in {"judge", "revoke", "audit", "insert", "commit"}

\* What tests/test_security_integration.py:282 asserts of the program by its
\* name, "refresh replay revokes token family": when nothing fails around it, a
\* replay of a spent token has the whole family revoked in the end, by itself
\* or by someone else.
ReplayRevokes ==
    \A r \in Requests, f \in Tokens : Replays(r, f) ~> FamilyRows(f) \subseteq revoked
=============================================================================
