--------------------------- MODULE AuditLogProofs ---------------------------
(* Theorems about AuditLog, for every set of tenants, transactions and     *)
(* bodies, every assignment of lock keys and every bound on the rows.      *)
(*                                                                         *)
(* The chain is an invariant because of three facts taken together: the    *)
(* advisory lock excludes (Exclusion), a transaction past AcquireLock      *)
(* holds it (Holding), and what such a transaction read of the tail is     *)
(* still the tail (TailStaysTail).                                         *)
EXTENDS AuditLog, TLAPS

\* No two transactions hold the advisory lock of one key.
Exclusion ==
    \A k, l \in locks : k.on = l.on => k.by = l.by

\* A transaction that has the tail of its tenant's chain under way holds the
\* tenant's advisory lock.
Holding ==
    \A x \in Txns : pc[x] \in {"read", "insert", "commit"} =>
        [by |-> x, on |-> LockKey[work[x].tenant], mode |-> "update"] \in locks

\* What is inserted and not yet visible carries the right hash.
HashReady ==
    \A x \in Txns : pc[x] = "commit" => work[x].hash = Digest(work[x].prev, work[x].body)

\* In a chain the hash of the i-th row commits to i bodies.
HashLength(s) == \A i \in 1..Len(s) : Len(s[i].hash) = i

IInv ==
    /\ TypeOK /\ Exclusion /\ Holding /\ HashReady
    /\ LinearChain /\ TailStaysTail
    /\ \A t \in Tenants : HashLength(rows[t])

-----------------------------------------------------------------------------
\* The statement that reads the tail (audit.py, append_audit) finds exactly one
\* row in a chain, the last, and none in an empty log.
LEMMA TailIsLast ==
    ASSUME NEW s \in Seq(Row), IsChain(s), HashLength(s)
    PROVE  /\ s = <<>> => Tails(s) = {}
           /\ s # <<>> => Tails(s) = {s[Len(s)]}
<1>1. ASSUME s = <<>> PROVE Tails(s) = {}
  BY <1>1 DEF Tails
<1>2. ASSUME s # <<>> PROVE Tails(s) = {s[Len(s)]}
  <2> DEFINE n == Len(s)
  <2>1. n \in Nat /\ n >= 1
    BY <1>2
  <2>2. \A i \in 1..n : s[i] \in Row /\ Len(s[i].hash) = i
    BY DEF HashLength
  <2>3. \A k \in 1..n : s[k].prev # s[n].hash
    <3> SUFFICES ASSUME NEW k \in 1..n, s[k].prev = s[n].hash PROVE FALSE
      OBVIOUS
    <3>1. CASE k = 1
      <4>1. s[k].prev = <<>>
        BY <3>1 DEF IsChain, NoHash
      <4>2. Len(s[n].hash) = n
        BY <2>1, <2>2
      <4> QED BY <4>1, <4>2, <2>1
    <3>2. CASE k # 1
      <4>1. s[k].prev = s[k - 1].hash
        BY <3>2, <2>1 DEF IsChain
      <4>2. k - 1 \in 1..n
        BY <3>2, <2>1
      <4>3. Len(s[k - 1].hash) = k - 1 /\ Len(s[n].hash) = n
        BY <4>2, <2>1, <2>2
      <4> QED BY <4>1, <4>2, <4>3, <2>1
    <3> QED BY <3>1, <3>2
  <2>4. \A j \in 1..n : j # n => s[j + 1].prev = s[j].hash /\ j + 1 \in 1..n
    <3> SUFFICES ASSUME NEW j \in 1..n, j # n
                 PROVE  s[j + 1].prev = s[j].hash /\ j + 1 \in 1..n
      OBVIOUS
    <3>1. j + 1 \in 1..n /\ j + 1 # 1 /\ (j + 1) - 1 = j
      BY <2>1
    <3> QED BY <3>1 DEF IsChain
  <2>5. {j \in 1..n : \A k \in 1..n : s[k].prev # s[j].hash} = {n}
    BY <2>1, <2>3, <2>4
  <2> QED BY <2>5 DEF Tails
<1> QED BY <1>1, <1>2

\* A chain stays one when the row added names the hash of its tail.
LEMMA ChainGrows ==
    ASSUME NEW s \in Seq(Row), IsChain(s), HashLength(s), NEW r \in Row,
           r.prev = TailHash(s), r.hash = Digest(r.prev, r.body)
    PROVE  /\ Append(s, r) \in Seq(Row)
           /\ IsChain(Append(s, r)) /\ HashLength(Append(s, r))
           /\ TailHash(Append(s, r)) = Append(TailHash(s), r.body)
<1> DEFINE n == Len(s)
<1> DEFINE u == Append(s, r)
<1>1. n \in Nat /\ u \in Seq(Row) /\ Len(u) = n + 1 /\ u[n + 1] = r
  OBVIOUS
<1>2. \A i \in 1..n : u[i] = s[i]
  OBVIOUS
<1>3. u[n + 1].prev = IF n + 1 = 1 THEN NoHash ELSE u[n].hash
  <2>1. CASE n = 0
    BY <1>1, <2>1 DEF TailHash
  <2>2. CASE n # 0
    <3>1. n \in 1..n /\ s # <<>> /\ n + 1 # 1
      BY <2>2, <1>1
    <3> QED BY <3>1, <1>1, <1>2 DEF TailHash
  <2> QED BY <2>1, <2>2
<1>4. IsChain(u)
  <2> SUFFICES ASSUME NEW i \in 1..(n + 1)
               PROVE  /\ u[i].prev = IF i = 1 THEN NoHash ELSE u[i - 1].hash
                      /\ u[i].hash = Digest(u[i].prev, u[i].body)
    BY <1>1 DEF IsChain
  <2>1. CASE i = n + 1
    <3>1. i - 1 = n
      BY <2>1, <1>1
    <3> QED BY <1>1, <1>3, <2>1, <3>1
  <2>2. CASE i # n + 1
    <3>1. i \in 1..n /\ (i # 1 => i - 1 \in 1..n)
      BY <2>2, <1>1
    <3>2. /\ s[i].prev = IF i = 1 THEN NoHash ELSE s[i - 1].hash
          /\ s[i].hash = Digest(s[i].prev, s[i].body)
      BY <3>1 DEF IsChain
    <3> QED BY <3>1, <3>2, <1>2
  <2> QED BY <2>1, <2>2
<1>5. r.prev \in Seq(Bodies) /\ Len(r.prev) = n
  <2>1. CASE n = 0
    BY <2>1 DEF TailHash, NoHash, Row, Hashes
  <2>2. CASE n # 0
    <3>1. n \in 1..n /\ s # <<>>
      BY <2>2, <1>1
    <3> QED BY <3>1 DEF TailHash, HashLength, Row, Hashes
  <2> QED BY <2>1, <2>2
<1>6. Len(r.hash) = n + 1
  <2>1. r.body \in Bodies
    BY DEF Row
  <2> QED BY <2>1, <1>5 DEF Digest
<1>7. HashLength(u)
  <2> SUFFICES ASSUME NEW i \in 1..(n + 1) PROVE Len(u[i].hash) = i
    BY <1>1 DEF HashLength
  <2>1. CASE i = n + 1
    BY <1>1, <1>6, <2>1
  <2>2. CASE i # n + 1
    BY <2>2, <1>1, <1>2 DEF HashLength
  <2> QED BY <2>1, <2>2
<1>8. TailHash(u) = Append(TailHash(s), r.body)
  <2>1. u # <<>>
    BY <1>1
  <2> QED BY <1>1, <2>1 DEF TailHash, Digest
<1> QED BY <1>1, <1>4, <1>7, <1>8

-----------------------------------------------------------------------------
\* The arguments of a transaction that has not begun are well typed.
LEMMA IdleType == Idle \in [tenant : Tenants, body : Bodies, prev : Hashes, hash : Hashes]
BY NonEmptyAssumption DEF Idle, Hashes, NoHash

\* The initial state satisfies the invariant.
LEMMA InitIInv == Init => IInv
BY IdleType DEF Init, IInv, TypeOK, Exclusion, Holding, HashReady, LinearChain,
   TailStaysTail, IsChain, HashLength, Steps

\* A handler that comes to append_audit touches no lock and no row.
LEMMA BeginIInv ==
    ASSUME IInv, NEW x \in Txns, NEW t \in Tenants, NEW b \in Bodies, Begin(x, t, b)
    PROVE  IInv'
<1>1. work' = [work EXCEPT ![x] = [Idle EXCEPT !.tenant = t, !.body = b]]
  BY DEF Begin
<1>2. TypeOK'
  <2>1. pc' \in [Txns -> Steps]
    BY DEF IInv, TypeOK, Begin, Goto, Steps
  <2>2. [Idle EXCEPT !.tenant = t, !.body = b]
          \in [tenant : Tenants, body : Bodies, prev : Hashes, hash : Hashes]
    BY IdleType
  <2>3. work' \in [Txns -> [tenant : Tenants, body : Bodies, prev : Hashes, hash : Hashes]]
    BY <1>1, <2>2 DEF IInv, TypeOK
  <2> QED BY <2>1, <2>3 DEF IInv, TypeOK, Begin
<1>3. \A y \in Txns : pc'[y] \in {"read", "insert", "commit"} => pc'[y] = pc[y] /\ work'[y] = work[y]
  BY DEF IInv, TypeOK, Begin, Goto
<1>4. Holding'
  <2> SUFFICES ASSUME NEW y \in Txns, pc'[y] \in {"read", "insert", "commit"}
               PROVE  [by |-> y, on |-> LockKey[work'[y].tenant], mode |-> "update"] \in locks'
    BY DEF Holding
  <2>1. pc[y] \in {"read", "insert", "commit"} /\ work'[y] = work[y]
    BY <1>3
  <2>2. locks' = locks
    BY DEF Begin
  <2>3. [by |-> y, on |-> LockKey[work[y].tenant], mode |-> "update"] \in locks
    BY <2>1 DEF IInv, Holding
  <2> QED BY <2>1, <2>2, <2>3
<1>5. HashReady'
  BY <1>3 DEF IInv, HashReady
<1>6. TailStaysTail'
  BY <1>3 DEF IInv, Begin, TailStaysTail
<1> QED BY <1>2, <1>4, <1>5, <1>6 DEF IInv, Begin, Exclusion, LinearChain

\* The advisory lock is granted to nobody while another transaction holds it.
LEMMA AcquireLockIInv ==
    ASSUME IInv, NEW x \in Txns, AcquireLock(x)
    PROVE  IInv'
<1> DEFINE k == LockKey[work[x].tenant]
<1>1. locks' = locks \cup {[by |-> x, on |-> k, mode |-> "update"]}
  BY DEF AcquireLock, Grant
<1>2. TypeOK'
  <2>1. pc' \in [Txns -> Steps]
    BY DEF IInv, TypeOK, AcquireLock, Goto, Steps
  <2>2. work[x].tenant \in Tenants
    BY DEF IInv, TypeOK
  <2>3. [by |-> x, on |-> k, mode |-> "update"]
          \in [by : Txns, on : {LockKey[t] : t \in Tenants}, mode : {"update"}]
    BY <2>2
  <2> QED BY <1>1, <2>1, <2>3 DEF IInv, TypeOK, AcquireLock
<1>3. \A l \in locks : l.on = k => l.by = x
  BY DEF AcquireLock, Grantable, Conflict
<1>4. Exclusion'
  BY <1>1, <1>3 DEF IInv, Exclusion
<1>5. Holding'
  BY <1>1 DEF IInv, TypeOK, Holding, AcquireLock, Goto
<1>6. HashReady' /\ TailStaysTail'
  BY DEF IInv, TypeOK, HashReady, TailStaysTail, AcquireLock, Goto
<1> QED BY <1>2, <1>4, <1>5, <1>6 DEF IInv, AcquireLock, LinearChain

\* The statement that reads the tail reads the tail.
LEMMA ReadTailIInv ==
    ASSUME IInv, NEW x \in Txns, ReadTail(x)
    PROVE  IInv'
<1> DEFINE s == rows[work[x].tenant]
<1>1. s \in Seq(Row) /\ IsChain(s) /\ HashLength(s)
  BY DEF IInv, TypeOK, LinearChain
<1>2. PICK p \in IF Tails(s) = {} THEN {NoHash} ELSE {r.hash : r \in Tails(s)} :
          work' = [work EXCEPT ![x].prev = p]
  BY DEF ReadTail
<1>3. p = TailHash(s)
  BY <1>1, <1>2, TailIsLast DEF TailHash
<1>4. p \in Hashes
  <2>1. CASE s = <<>>
    BY <1>3, <2>1 DEF TailHash, Hashes, NoHash
  <2>2. CASE s # <<>>
    <3>1. s[Len(s)] \in Row
      BY <1>1, <2>2
    <3> QED BY <1>3, <2>2, <3>1 DEF TailHash, Row
  <2> QED BY <2>1, <2>2
<1>5. TypeOK'
  <2>1. pc' \in [Txns -> Steps] /\ rows' = rows /\ locks' = locks
    BY DEF IInv, TypeOK, ReadTail, Goto, Steps
  <2> QED BY <1>2, <1>4, <2>1 DEF IInv, TypeOK
<1>6. \A y \in Txns : /\ work'[y].tenant = work[y].tenant
                      /\ y # x => work'[y] = work[y] /\ pc'[y] = pc[y]
  BY <1>2 DEF IInv, TypeOK, ReadTail, Goto
<1>7. pc[x] = "read" /\ pc'[x] = "insert" /\ work'[x].prev = p
  BY <1>2 DEF IInv, TypeOK, ReadTail, Goto
<1>8. Holding'
  BY <1>6, <1>7 DEF IInv, Holding, ReadTail
<1>9. HashReady'
  BY <1>6, <1>7 DEF IInv, HashReady
<1>10. TailStaysTail'
  BY <1>3, <1>6, <1>7 DEF IInv, TailStaysTail, ReadTail
<1> QED BY <1>5, <1>8, <1>9, <1>10 DEF IInv, ReadTail, Exclusion, LinearChain

\* The row inserted carries the hash of the tail and its body.
LEMMA InsertRowIInv ==
    ASSUME IInv, NEW x \in Txns, InsertRow(x)
    PROVE  IInv'
<1>1. work' = [work EXCEPT ![x].hash = Digest(work[x].prev, work[x].body)]
  BY DEF InsertRow
<1>2. Digest(work[x].prev, work[x].body) \in Hashes
  BY DEF IInv, TypeOK, Digest, Hashes
<1>3. TypeOK'
  <2>1. pc' \in [Txns -> Steps] /\ rows' = rows /\ locks' = locks
    BY DEF IInv, TypeOK, InsertRow, Goto, Steps
  <2> QED BY <1>1, <1>2, <2>1 DEF IInv, TypeOK
<1>4. \A y \in Txns : /\ work'[y].tenant = work[y].tenant /\ work'[y].prev = work[y].prev
                      /\ work'[y].body = work[y].body
                      /\ y # x => work'[y] = work[y] /\ pc'[y] = pc[y]
  BY <1>1 DEF IInv, TypeOK, InsertRow, Goto
<1>5. pc[x] = "insert" /\ pc'[x] = "commit"
      /\ work'[x].hash = Digest(work[x].prev, work[x].body)
  BY <1>1 DEF IInv, TypeOK, InsertRow, Goto
<1>6. Holding'
  BY <1>4, <1>5 DEF IInv, Holding, InsertRow
<1>7. HashReady'
  BY <1>4, <1>5 DEF IInv, HashReady
<1>8. TailStaysTail'
  BY <1>4, <1>5 DEF IInv, TailStaysTail, InsertRow
<1> QED BY <1>3, <1>6, <1>7, <1>8 DEF IInv, InsertRow, Exclusion, LinearChain

\* Ending a transaction takes nothing from the others.
LEMMA EndIInv ==
    ASSUME IInv, NEW x \in Txns,
           pc' = [pc EXCEPT ![x] = "idle"],
           locks' = Release(locks, x),
           work' = [work EXCEPT ![x] = Idle]
    PROVE  /\ Exclusion' /\ Holding' /\ HashReady'
           /\ locks' \subseteq locks /\ pc' \in [Txns -> Steps]
           /\ work' \in [Txns -> [tenant : Tenants, body : Bodies, prev : Hashes, hash : Hashes]]
           /\ pc'[x] = "idle"
           /\ \A y \in Txns : y # x => pc'[y] = pc[y] /\ work'[y] = work[y]
<1>1. locks' \subseteq locks
  BY DEF Release
<1>2. pc'[x] = "idle" /\ \A y \in Txns : y # x => pc'[y] = pc[y] /\ work'[y] = work[y]
  BY DEF IInv, TypeOK
<1>3. Holding'
  BY <1>2 DEF IInv, Holding, Release
<1>4. pc' \in [Txns -> Steps]
  BY DEF IInv, TypeOK, Steps
<1>5. work' \in [Txns -> [tenant : Tenants, body : Bodies, prev : Hashes, hash : Hashes]]
  BY IdleType DEF IInv, TypeOK
<1> QED BY <1>1, <1>2, <1>3, <1>4, <1>5 DEF IInv, Exclusion, HashReady

\* What a commit does to the log, used for the invariant and the refinement.
LEMMA CommitAppends ==
    ASSUME IInv, NEW x \in Txns, Commit(x)
    PROVE  LET t == work[x].tenant
           IN  /\ t \in Tenants /\ work[x].body \in Bodies
               /\ rows' = [rows EXCEPT ![t] = Append(rows[t], RowOf(work[x]))]
               /\ rows'[t] \in Seq(Row) /\ IsChain(rows'[t]) /\ HashLength(rows'[t])
               /\ TailHash(rows'[t]) = Append(TailHash(rows[t]), work[x].body)
<1> DEFINE t == work[x].tenant
<1> DEFINE r == RowOf(work[x])
<1>1. t \in Tenants /\ work[x].body \in Bodies
  BY DEF IInv, TypeOK
<1>2. rows' = [rows EXCEPT ![t] = Append(rows[t], r)] /\ rows'[t] = Append(rows[t], r)
  BY <1>1 DEF IInv, TypeOK, Commit
<1>3. r \in Row /\ r.body = work[x].body /\ r.prev = work[x].prev /\ r.hash = work[x].hash
  BY DEF IInv, TypeOK, RowOf, Row
<1>4. pc[x] = "commit"
  BY DEF Commit, Goto
<1>5. r.prev = TailHash(rows[t]) /\ r.hash = Digest(r.prev, r.body)
  BY <1>3, <1>4 DEF IInv, TailStaysTail, HashReady
<1>6. rows[t] \in Seq(Row) /\ IsChain(rows[t]) /\ HashLength(rows[t])
  BY <1>1 DEF IInv, TypeOK, LinearChain
<1> HIDE DEF r
<1>7. /\ Append(rows[t], r) \in Seq(Row)
      /\ IsChain(Append(rows[t], r)) /\ HashLength(Append(rows[t], r))
      /\ TailHash(Append(rows[t], r)) = Append(TailHash(rows[t]), r.body)
  BY <1>3, <1>5, <1>6, ChainGrows
<1> QED BY <1>1, <1>2, <1>3, <1>7 DEF r

\* A commit adds its row at the end of the chain, and nobody else has the tail under way.
LEMMA CommitIInv ==
    ASSUME IInv, NEW x \in Txns, Commit(x)
    PROVE  IInv'
<1> DEFINE t == work[x].tenant
<1>1. /\ t \in Tenants
      /\ rows' = [rows EXCEPT ![t] = Append(rows[t], RowOf(work[x]))]
      /\ rows'[t] \in Seq(Row) /\ IsChain(rows'[t]) /\ HashLength(rows'[t])
  BY CommitAppends
<1>2. \A u \in Tenants : u # t => rows'[u] = rows[u]
  BY <1>1 DEF IInv, TypeOK
<1>3. pc[x] = "commit" /\ pc' = [pc EXCEPT ![x] = "idle"] /\ locks' = Release(locks, x)
      /\ work' = [work EXCEPT ![x] = Idle]
  BY DEF Commit, Goto
<1>4. /\ Exclusion' /\ Holding' /\ HashReady'
      /\ locks' \subseteq locks /\ pc' \in [Txns -> Steps]
      /\ work' \in [Txns -> [tenant : Tenants, body : Bodies, prev : Hashes, hash : Hashes]]
      /\ pc'[x] = "idle"
      /\ \A y \in Txns : y # x => pc'[y] = pc[y] /\ work'[y] = work[y]
  BY <1>3, EndIInv
<1>5. rows' \in [Tenants -> Seq(Row)]
  BY <1>1, <1>2 DEF IInv, TypeOK
<1>6. TypeOK'
  BY <1>4, <1>5 DEF IInv, TypeOK
<1>7. \A u \in Tenants : IsChain(rows'[u]) /\ HashLength(rows'[u])
  BY <1>1, <1>2 DEF IInv, LinearChain
<1>8. \A y \in Txns : y # x /\ pc[y] \in {"insert", "commit"} => work[y].tenant # t
  <2> SUFFICES ASSUME NEW y \in Txns, y # x, pc[y] \in {"insert", "commit"},
                      work[y].tenant = t
               PROVE  FALSE
    OBVIOUS
  <2>1. /\ [by |-> x, on |-> LockKey[t], mode |-> "update"] \in locks
        /\ [by |-> y, on |-> LockKey[t], mode |-> "update"] \in locks
    BY <1>3 DEF IInv, Holding
  <2> QED BY <2>1 DEF IInv, Exclusion
<1>9. TailStaysTail'
  <2> SUFFICES ASSUME NEW y \in Txns, pc'[y] \in {"insert", "commit"}
               PROVE  work'[y].prev = TailHash(rows'[work'[y].tenant])
    BY DEF TailStaysTail
  <2>1. y # x /\ pc[y] \in {"insert", "commit"} /\ work'[y] = work[y]
    BY <1>4
  <2>2. work[y].tenant \in Tenants /\ rows'[work[y].tenant] = rows[work[y].tenant]
    BY <1>2, <1>8, <2>1 DEF IInv, TypeOK
  <2> QED BY <2>1, <2>2 DEF IInv, TailStaysTail
<1> QED BY <1>4, <1>6, <1>7, <1>9 DEF IInv, LinearChain

\* A rollback leaves the chain alone and releases only its own lock.
LEMMA AbortIInv ==
    ASSUME IInv, NEW x \in Txns, Abort(x)
    PROVE  IInv'
<1>1. pc' = [pc EXCEPT ![x] = "idle"] /\ locks' = Release(locks, x)
      /\ work' = [work EXCEPT ![x] = Idle] /\ rows' = rows
  BY DEF Abort
<1>2. /\ Exclusion' /\ Holding' /\ HashReady'
      /\ locks' \subseteq locks /\ pc' \in [Txns -> Steps]
      /\ work' \in [Txns -> [tenant : Tenants, body : Bodies, prev : Hashes, hash : Hashes]]
      /\ pc'[x] = "idle"
      /\ \A y \in Txns : y # x => pc'[y] = pc[y] /\ work'[y] = work[y]
  BY <1>1, EndIInv
<1>3. TypeOK' /\ LinearChain' /\ TailStaysTail'
  BY <1>1, <1>2 DEF IInv, TypeOK, LinearChain, TailStaysTail
<1> QED BY <1>1, <1>2, <1>3 DEF IInv

\* Every step preserves the invariant.
LEMMA NextIInv == IInv /\ [Next]_vars => IInv'
<1> SUFFICES ASSUME IInv, [Next]_vars PROVE IInv'
  OBVIOUS
<1>1. CASE UNCHANGED vars
  BY <1>1 DEF vars, IInv, TypeOK, Exclusion, Holding, HashReady, LinearChain, TailStaysTail
<1>2. ASSUME NEW x \in Txns, Start(x) PROVE IInv'
  BY <1>2, BeginIInv DEF Start
<1>3. ASSUME NEW x \in Txns, Step(x) PROVE IInv'
  BY <1>3, AcquireLockIInv, ReadTailIInv, InsertRowIInv, CommitIInv DEF Step
<1>4. ASSUME NEW x \in Txns, Abort(x) PROVE IInv'
  BY <1>4, AbortIInv
<1> QED BY <1>1, <1>2, <1>3, <1>4 DEF Next

\* The strengthened invariant holds in every reachable state: it holds at the
\* start and no step of a handler, commit, rollback or deadlock breaks it.
THEOREM Invariance == Spec => []IInv
BY InitIInv, NextIInv, PTL DEF Spec

-----------------------------------------------------------------------------
\* The variables keep their types, whatever the transactions do.
THEOREM TypeCorrect == Spec => []TypeOK
<1>1. IInv => TypeOK
  BY DEF IInv
<1> QED BY <1>1, Invariance, PTL

\* However many handlers append at once, and whichever of them are rolled
\* back, the committed entries of a tenant form one chain.
THEOREM ChainIsLinear == Spec => []LinearChain
<1>1. IInv => LinearChain
  BY DEF IInv
<1> QED BY <1>1, Invariance, PTL

\* The tail a transaction has read is the tail until its own commit.
THEOREM TailIsStable == Spec => []TailStaysTail
<1>1. IInv => TailStaysTail
  BY DEF IInv
<1> QED BY <1>1, Invariance, PTL

\* The log implements the abstract trail: a commit adds one entry at the end of
\* one tenant's trail, and every other step leaves all of them alone.
THEOREM ImplementsTrail == Spec => TrailSpec
<1> DEFINE trail == [t \in Tenants |-> TailHash(rows[t])]
<1>1. Init => Trail!Init
  BY DEF Init, Trail!Init, TailHash, NoHash
<1>2. IInv /\ [Next]_vars => [Trail!Next]_trail
  <2> SUFFICES ASSUME IInv, [Next]_vars PROVE Trail!Next \/ trail' = trail
    OBVIOUS
  <2>1. ASSUME NEW x \in Txns, Commit(x) PROVE Trail!Next
    <3> DEFINE t == work[x].tenant
    <3>1. /\ t \in Tenants /\ work[x].body \in Bodies
          /\ rows' = [rows EXCEPT ![t] = Append(rows[t], RowOf(work[x]))]
          /\ TailHash(rows'[t]) = Append(TailHash(rows[t]), work[x].body)
      BY <2>1, CommitAppends
    <3>2. \A u \in Tenants : u # t => rows'[u] = rows[u]
      BY <3>1 DEF IInv, TypeOK
    <3>3. trail' = [trail EXCEPT ![t] = Append(trail[t], work[x].body)]
      <4>1. \A u \in Tenants : trail'[u] = TailHash(rows'[u])
        OBVIOUS
      <4>2. \A u \in Tenants : u # t => trail'[u] = trail[u]
        BY <3>2, <4>1
      <4>3. trail'[t] = Append(trail[t], work[x].body)
        BY <3>1, <4>1
      <4>4. trail' = [u \in Tenants |-> trail'[u]]
        OBVIOUS
      <4> QED BY <4>2, <4>3, <4>4
    <3>4. Trail!Record(t, work[x].body)
      BY <3>3 DEF Trail!Record
    <3> QED BY <3>1, <3>4 DEF Trail!Next
  <2>2. CASE rows' = rows
    BY <2>2
  <2> QED BY <2>1, <2>2 DEF Next, vars, Start, Begin, Step, AcquireLock, ReadTail, InsertRow, Abort
<1> QED BY <1>1, <1>2, Invariance, PTL DEF Spec, TrailSpec, Trail!Spec
=============================================================================
