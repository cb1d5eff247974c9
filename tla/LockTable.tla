----------------------------- MODULE LockTable -----------------------------
(* The locks of PostgreSQL 16 that the handlers take, as the code uses     *)
(* them.  Nothing here is code of the repository: the database is an       *)
(* external service, and only the lock modes that some statement of        *)
(* backend/app asks for are present.                                       *)
(*                                                                         *)
(*   "update"    SELECT ... FOR UPDATE (auth.py), and the exclusive        *)
(*               pg_advisory_xact_lock (audit.py), which conflicts with    *)
(*               everything just the same;                                 *)
(*   "nokey"     UPDATE of columns no foreign key refers to;               *)
(*   "keyshare"  the check of a foreign key by an INSERT.                  *)
(*                                                                         *)
(* A lock is held from the moment it is granted to the end of the          *)
(* transaction, so a lock table only grows by Grant and shrinks by Release.*)
EXTENDS Naturals, FiniteSets

Modes == {"update", "nokey", "keyshare"}

\* Does a lock of mode m on a row exclude another transaction's mode n?
Conflict(m, n) ==
    \/ "update" \in {m, n}
    \/ m = "nokey" /\ n = "nokey"

\* The transactions that keep r from taking x in mode m.
Blockers(locks, r, x, m) ==
    {l.by : l \in {k \in locks : k.on = x /\ k.by # r /\ Conflict(k.mode, m)}}

Grantable(locks, r, x, m) ==
    \A l \in locks : l.on = x /\ l.by # r => ~Conflict(l.mode, m)

Grant(locks, r, x, m) == locks \cup {[by |-> r, on |-> x, mode |-> m]}

Release(locks, r) == {l \in locks : l.by # r}

\* What a waiting transaction sees of the deadlock detector: it is on a cycle
\* of the waits-for graph, given as the set of transactions each one waits on.
OnCycle(waitsOn, r) ==
    \E n \in 1 .. Cardinality(DOMAIN waitsOn) :
        \E path \in [0 .. n -> DOMAIN waitsOn] :
            /\ path[0] = r /\ path[n] = r
            /\ \A i \in 1 .. n : path[i] \in waitsOn[path[i - 1]]
=============================================================================
