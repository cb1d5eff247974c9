------------------------------ MODULE AuditLog ------------------------------
(* The audit log as the handlers write it: append_audit of                 *)
(* backend/app/audit.py, run inside a READ COMMITTED transaction of the    *)
(* calling handler.  A transaction takes the tenant's advisory lock, reads *)
(* the tail of the chain, inserts one row and commits, and may be rolled   *)
(* back at any point: by an error of the handler, by the server, by a      *)
(* crash.  Every handler of backend/app calls append_audit once.           *)
(*                                                                         *)
(* A body stands for the canonical JSON of an entry without its prev_hash. *)
(* SHA-256 is taken to be free of collisions, so a hash is represented by  *)
(* what it commits to: the bodies of the chain it closes.  The NULL        *)
(* prev_hash of a first entry is then the empty sequence.                  *)
EXTENDS Integers, Sequences, SequencesExt, LockTable

CONSTANTS
    Tenants,
    Bodies,
    Txns,       \* the connections of the pool, each running one transaction
    LockKey,    \* hashtextextended(tenant, 0): two tenants may share a key
    MaxRows     \* no transaction begins for a tenant with MaxRows rows

ASSUME MaxRowsAssumption == MaxRows \in Nat
ASSUME NonEmptyAssumption == Tenants # {} /\ Bodies # {}

Digest(prev, body) == Append(prev, body)

NoHash == <<>>

VARIABLES
    rows,       \* rows[t]: the committed audit_log rows of t, in commit order
    locks,      \* the advisory locks held
    pc,         \* the statement a transaction is at
    work        \* its arguments: tenant and body, then what it read and wrote

vars == <<rows, locks, pc, work>>

Idle == [tenant |-> CHOOSE t \in Tenants : TRUE,
         body |-> CHOOSE b \in Bodies : TRUE,
         prev |-> NoHash, hash |-> NoHash]

RowOf(w) == [body |-> w.body, prev |-> w.prev, hash |-> w.hash]

Init ==
    /\ rows = [t \in Tenants |-> <<>>]
    /\ locks = {}
    /\ pc = [x \in Txns |-> "idle"]
    /\ work = [x \in Txns |-> Idle]

Goto(x, from, to) == pc[x] = from /\ pc' = [pc EXCEPT ![x] = to]

Begin(x, t, b) ==
    /\ Goto(x, "idle", "lock")
    /\ Len(rows[t]) < MaxRows
    /\ work' = [work EXCEPT ![x] = [Idle EXCEPT !.tenant = t, !.body = b]]
    /\ UNCHANGED <<rows, locks>>

\* Faulty: append_audit without its advisory lock.
AcquireNoLock(x) == Goto(x, "lock", "read") /\ UNCHANGED <<rows, locks, work>>

\* Faulty: the tenant's identifier is locked in place of its hash.
AcquireUnhashed(x) ==
    /\ Goto(x, "lock", "read")
    /\ Grantable(locks, x, work[x].tenant, "update")
    /\ locks' = Grant(locks, x, work[x].tenant, "update")
    /\ UNCHANGED <<rows, work>>

AcquireLock(x) ==
    /\ Goto(x, "lock", "read")
    /\ Grantable(locks, x, LockKey[work[x].tenant], "update")
    /\ locks' = Grant(locks, x, LockKey[work[x].tenant], "update")
    /\ UNCHANGED <<rows, work>>

\* The rows no committed row follows; the statement takes any one of them.
Tails(s) ==
    {s[i] : i \in {j \in 1..Len(s) : \A k \in 1..Len(s) : s[k].prev # s[j].hash}}

ReadTail(x) ==
    /\ Goto(x, "read", "insert")
    /\ LET s == rows[work[x].tenant]
       IN  \E p \in IF Tails(s) = {} THEN {NoHash} ELSE {r.hash : r \in Tails(s)} :
              work' = [work EXCEPT ![x].prev = p]
    /\ UNCHANGED <<rows, locks>>

\* Computes the hash and inserts the row, which nobody else sees yet.
InsertRow(x) ==
    /\ Goto(x, "insert", "commit")
    /\ work' = [work EXCEPT ![x].hash = Digest(work[x].prev, work[x].body)]
    /\ UNCHANGED <<rows, locks>>

\* Faulty: a session lock (pg_advisory_lock), which a commit does not release.
CommitLocked(x) ==
    /\ Goto(x, "commit", "idle")
    /\ rows' = [rows EXCEPT ![work[x].tenant] = Append(@, RowOf(work[x]))]
    /\ work' = [work EXCEPT ![x] = Idle]
    /\ UNCHANGED locks

Commit(x) ==
    /\ Goto(x, "commit", "idle")
    /\ rows' = [rows EXCEPT ![work[x].tenant] = Append(@, RowOf(work[x]))]
    /\ locks' = Release(locks, x)
    /\ work' = [work EXCEPT ![x] = Idle]

Abort(x) ==
    /\ pc[x] # "idle"
    /\ pc' = [pc EXCEPT ![x] = "idle"]
    /\ locks' = Release(locks, x)
    /\ work' = [work EXCEPT ![x] = Idle]
    /\ UNCHANGED rows

Start(x) == \E t \in Tenants, b \in Bodies : Begin(x, t, b)

Step(x) == AcquireLock(x) \/ ReadTail(x) \/ InsertRow(x) \/ Commit(x)

Next == \E x \in Txns : Start(x) \/ Step(x) \/ Abort(x)

Spec == Init /\ [][Next]_vars

\* A statement that can run does run; a lock request waits in a queue that
\* PostgreSQL serves in order, so one granted again and again to others is
\* granted to it too.  Nothing makes a client begin, or a transaction abort.
Fairness == \A x \in Txns : WF_vars(Step(x)) /\ SF_vars(AcquireLock(x))

FairSpec == Spec /\ Fairness

-----------------------------------------------------------------------------
Hashes == Seq(Bodies)

Row == [body : Bodies, prev : Hashes, hash : Hashes]

Steps == {"idle", "lock", "read", "insert", "commit"}

\* The type invariant of the module's variables.
TypeOK ==
    /\ rows \in [Tenants -> Seq(Row)]
    /\ locks \subseteq [by : Txns, on : {LockKey[t] : t \in Tenants}, mode : {"update"}]
    /\ pc \in [Txns -> Steps]
    /\ work \in [Txns -> [tenant : Tenants, body : Bodies, prev : Hashes, hash : Hashes]]

\* The hash the next entry of a tenant has to name.
TailHash(s) == IF s = <<>> THEN NoHash ELSE s[Len(s)].hash

\* A sequence of rows is one chain: the first row names no predecessor, every
\* other row names the one committed just before it, and each hash is right.
IsChain(s) ==
    \A i \in 1..Len(s) :
        /\ s[i].prev = IF i = 1 THEN NoHash ELSE s[i - 1].hash
        /\ s[i].hash = Digest(s[i].prev, s[i].body)

\* Concurrent handlers of a tenant never fork its chain, leave a gap in it or
\* start a second one, whatever the interleaving of their reads and commits
\* and whichever of them are rolled back (audit.py, append_audit).
LinearChain == \A t \in Tenants : IsChain(rows[t])

\* Two transactions between the advisory lock and their commit never work on
\* the same tenant: what one read of the tail is still the tail when its own
\* row becomes visible.
TailStaysTail ==
    \A x \in Txns : pc[x] \in {"insert", "commit"} =>
        work[x].prev = TailHash(rows[work[x].tenant])

\* A transaction that reaches append_audit gets through it: neither the other
\* transactions of the tenant nor those of a tenant with the same lock key
\* keep it waiting for ever.
Terminates == \A x \in Txns : pc[x] # "idle" ~> pc[x] = "idle"

\* The log implements the abstract trail: a tenant's trail is what the hash
\* of its tail commits to.
Trail == INSTANCE AuditTrail
            WITH trail <- [t \in Tenants |-> TailHash(rows[t])]

TrailSpec == Trail!Spec
=============================================================================
