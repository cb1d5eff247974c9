---------------------------- MODULE SessionsProofs ----------------------------
(* The handlers of RefreshFamilies implement Sessions: the step that       *)
(* commits a request is one step of a session, and every other step of     *)
(* every handler is none at all.                                           *)
(*                                                                         *)
(* RefreshFamiliesProofs says that an UPDATE reaches every row it must;    *)
(* the converse is needed here, that it reaches no other (AimsOnly), since *)
(* a row of another family among them would end a session behind its       *)
(* holder's back.  A family is moreover named by a token of its own        *)
(* (FamilyRoot), so that a session has one holder.                         *)
EXTENDS RefreshFamiliesProofs

\* The first token of a family is the family's name.
FamilyRoot == \A t \in issued : family[family[t]] = family[t]

\* The rows that r is there to revoke.
Aim(r, t) ==
    \/ /\ FoundReuse(r) \/ job[r].op = "logout"
       /\ family[t] = family[job[r].tok]
    \/ job[r].op = "disable" /\ owner[t] = job[r].who

\* An UPDATE of r has marked, and will mark, only those.
AimsOnly(r) ==
    \A t \in Tokens : Reach(r, t) => t \in issued /\ pc[r] \in Past /\ Aim(r, t)

SInv == IInv /\ FamilyRoot /\ \A r \in Requests : AimsOnly(r)

\* The initial state satisfies the invariant.
LEMMA InitSInv == Init => SInv
<1> SUFFICES ASSUME Init PROVE SInv
  OBVIOUS
<1>1. FamilyRoot
  BY DEF Init, FamilyRoot
<1>2. ASSUME NEW r \in Requests PROVE AimsOnly(r)
  BY ConstantsAssumption DEF Init, AimsOnly, Reach, Held
<1> QED BY <1>1, <1>2, InitIInv DEF SInv

-----------------------------------------------------------------------------
(* What keeps the rows of an UPDATE.                                       *)

\* No commit moves a committed row to another family or another owner.
RowsStay == \A t \in issued : t \in issued' /\ family'[t] = family[t] /\ owner'[t] = owner[t]

\* A request that reaches no row it did not reach before keeps its aim.
LEMMA AimKept ==
    ASSUME SInv, NEW q \in Requests, RowsStay, job'[q] = job[q], fresh'[q] = fresh[q],
           pc[q] \in Past => pc'[q] \in Past,
           \A t \in Tokens : Reach(q, t)' => Reach(q, t)
    PROVE  AimsOnly(q)'
<1>1. /\ AimsOnly(q)
      /\ job[q].op \in {"rotate", "logout"} => job[q].tok \in issued
  BY DEF SInv, IInv, ReqInv, Shape
<1> SUFFICES ASSUME NEW t \in Tokens, Reach(q, t)'
             PROVE  t \in issued' /\ pc'[q] \in Past /\ Aim(q, t)'
  BY DEF AimsOnly, Past, Late
<1>2. t \in issued /\ pc[q] \in Past /\ Aim(q, t)
  BY <1>1 DEF AimsOnly
<1>3. t \in issued' /\ family'[t] = family[t] /\ owner'[t] = owner[t]
  BY <1>2 DEF RowsStay
<1>4. Aim(q, t)'
  <2>1. FoundReuse(q)' <=> FoundReuse(q)
    BY DEF FoundReuse
  <2>2. job[q].op \in {"rotate", "logout"} => family'[job[q].tok] = family[job[q].tok]
    BY <1>1 DEF RowsStay
  <2> QED BY <1>2, <1>3, <2>1, <2>2 DEF Aim, FoundReuse
<1> QED BY <1>2, <1>3, <1>4

\* A request that does not move keeps its aim.
LEMMA BystanderAim ==
    ASSUME SInv, NEW r \in Requests, OthersUnchanged(r), RowsStay,
           NEW q \in Requests, q # r
    PROVE  AimsOnly(q)'
<1>1. /\ pc'[q] = pc[q] /\ job'[q] = job[q] /\ fresh'[q] = fresh[q]
      /\ todo'[q] = todo[q] /\ row'[q] = row[q]
      /\ \A t \in Tokens : Held(q, t, "nokey")' <=> Held(q, t, "nokey")
  BY ModesType DEF OthersUnchanged
<1>2. \A t \in Tokens : Reach(q, t)' => Reach(q, t)
  BY <1>1 DEF Reach
<1> QED BY <1>1, <1>2, AimKept

\* What is left to show of a step of r that commits nothing.
LEMMA QuietStep ==
    ASSUME SInv, IInv', NEW r \in Requests, OthersUnchanged(r), store' = store, AimsOnly(r)'
    PROVE  SInv'
<1>1. issued' = issued /\ family' = family /\ owner' = owner
  BY DEF store
<1>2. RowsStay
  BY <1>1 DEF RowsStay
<1>3. FamilyRoot'
  BY <1>1 DEF SInv, FamilyRoot
<1>4. \A q \in Requests : AimsOnly(q)'
  BY <1>2, BystanderAim
<1> QED BY <1>3, <1>4 DEF SInv

\* A request reaches nothing before its UPDATE.
LEMMA NothingReached ==
    ASSUME SInv, NEW r \in Requests, pc[r] \notin Past
    PROVE  /\ \A t \in Tokens : ~Reach(r, t)
           /\ \A t \in Tokens : ~Held(r, t, "nokey")
BY DEF SInv, AimsOnly, Reach

-----------------------------------------------------------------------------
(* The steps before the end of a transaction.                              *)

\* A lock on a row that is none of refresh_tokens, or of another mode, marks
\* nothing.
LEMMA PlainLock ==
    ASSUME SInv, IInv', NEW r \in Requests, NEW x \in Users \cup issued \cup {Advisory},
           NEW m \in Modes, m = "nokey" => x \notin Tokens,
           Lock(r, x, m), NEW step \in Steps, pc' = [pc EXCEPT ![r] = step],
           pc[r] \in Past => step \in Past,
           UNCHANGED <<store, job, fresh, todo, row, history>>
    PROVE  SInv'
<1>1. /\ issued' = issued /\ family' = family /\ owner' = owner
      /\ store' = store /\ job' = job /\ fresh' = fresh /\ todo' = todo /\ row' = row
  BY DEF store
<1>2. IInv /\ TypeOK
  BY DEF SInv, IInv
<1>3. pc'[r] = step /\ \A q \in Requests : q # r => pc'[q] = pc[q]
  BY <1>2 DEF TypeOK
<1>4. \A q \in Requests : q # r =>
         \A y \in Users \cup Tokens \cup {Advisory}, n \in Modes :
            Held(q, y, n)' <=> Held(q, y, n)
  BY <1>2, LockGranted
<1>5. OthersUnchanged(r)
  BY <1>1, <1>3, <1>4 DEF OthersUnchanged
<1>6. \A t \in Tokens : Held(r, t, "nokey")' => Held(r, t, "nokey")
  BY DEF Lock, Grant, Held
<1>7. \A t \in Tokens : Reach(r, t)' => Reach(r, t)
  BY <1>1, <1>6 DEF Reach
<1>8. RowsStay
  BY <1>1 DEF RowsStay
<1>9. AimsOnly(r)'
  BY <1>1, <1>3, <1>7, <1>8, AimKept
<1> QED BY <1>1, <1>5, <1>9, QuietStep

\* The statements that lock one row or the audit lock keep the invariant.
LEMMA LockingSInv ==
    ASSUME SInv, IInv', NEW r \in Requests,
           LockUser(r) \/ LockToken(r) \/ UpdateUser(r) \/ LockAudit(r) \/ InsertEntry(r)
    PROVE  SInv'
<1>1. IInv /\ ReqInv(r) /\ job[r].op \in Ops \cup {"none"}
  BY DEF SInv, IInv, TypeOK, Job
<1>2. CASE LockUser(r)
  <2>1. /\ pc[r] = "lockUser" /\ pc' = [pc EXCEPT ![r] = "judge"]
        /\ Lock(r, job[r].who, "update") /\ UNCHANGED <<store, job, fresh, todo, row, history>>
        /\ job[r].who \in Users
    BY <1>1, <1>2 DEF LockUser, Goto, ReqInv, Shape
  <2> QED BY <2>1, PlainLock, ModesType DEF Past, Late, Steps
<1>3. CASE LockToken(r)
  <2>1. /\ pc[r] = "lockToken" /\ pc' = [pc EXCEPT ![r] = "lockUser"]
        /\ Lock(r, job[r].tok, "update") /\ UNCHANGED <<store, job, fresh, todo, row, history>>
    BY <1>3 DEF LockToken, Goto
  <2>2. job[r].tok \in issued
    BY <1>1, <2>1 DEF ReqInv, Shape, Ops, Past, Late
  <2> QED BY <2>1, <2>2, PlainLock, ModesType DEF Past, Late, Steps
<1>4. CASE UpdateUser(r)
  <2>1. /\ pc[r] = "updateUser" /\ pc' = [pc EXCEPT ![r] = "sweep"]
        /\ Lock(r, job[r].who, "nokey") /\ UNCHANGED <<store, job, fresh, todo, row, history>>
    BY <1>4 DEF UpdateUser, Goto
  <2>2. job[r].who \in Users /\ job[r].who \notin Tokens
    BY <1>1, <2>1, ConstantsAssumption DEF ReqInv, Shape, Ops, Past, Late
  <2> QED BY <2>1, <2>2, PlainLock, ModesType DEF Past, Late, Steps
<1>5. CASE LockAudit(r)
  <2>1. /\ pc[r] = "audit" /\ pc' = [pc EXCEPT ![r] = "insert"]
        /\ Lock(r, Advisory, "update") /\ UNCHANGED <<store, job, fresh, todo, row, history>>
    BY <1>5 DEF LockAudit, Goto
  <2> QED BY <2>1, PlainLock, ModesType DEF Past, Late, Steps
<1>6. CASE InsertEntry(r)
  <2>1. /\ pc[r] = "insert" /\ pc' = [pc EXCEPT ![r] = "commit"]
        /\ Lock(r, job[r].actor, "keyshare") /\ UNCHANGED <<store, job, fresh, todo, row, history>>
    BY <1>6 DEF InsertEntry, Goto
  <2>2. job[r].actor \in Users
    BY <1>1, <2>1 DEF ReqInv, Shape, Ops, Past, Late
  <2> QED BY <2>1, <2>2, PlainLock, ModesType DEF Past, Late, Steps
<1> QED BY <1>2, <1>3, <1>4, <1>5, <1>6
\* An UPDATE that marks its row has it no longer to come.
LEMMA RevokeRowSInv ==
    ASSUME SInv, IInv', NEW r \in Requests, RevokeRow(r)
    PROVE  SInv'
<1>1. /\ pc[r] = "revoke" /\ Lock(r, row[r], "nokey") /\ NextRow(r, todo[r])
      /\ UNCHANGED <<store, job, fresh, history>>
  BY DEF RevokeRow
<1>2. /\ IInv /\ TypeOK /\ ReqInv(r) /\ row[r] \in issued
      /\ todo[r] \in SUBSET Tokens
  BY <1>1 DEF SInv, IInv, ReqInv, Shape, TypeOK
<1>3. /\ pc'[r] \in {"revoke", "audit"}
      /\ pc'[r] = "audit" => todo[r] = {} /\ row'[r] = None /\ todo'[r] = {}
      /\ pc'[r] = "revoke" => row'[r] \in todo[r] /\ todo'[r] \subseteq todo[r]
      /\ \A q \in Requests : q # r => pc'[q] = pc[q] /\ row'[q] = row[q] /\ todo'[q] = todo[q]
  BY <1>1, <1>2, RowsReached
<1>4. /\ issued' = issued /\ family' = family /\ owner' = owner
      /\ store' = store /\ job' = job /\ fresh' = fresh
  BY <1>1 DEF store
<1>5. OthersUnchanged(r)
  <2>1. PICK x : x = row[r]
    OBVIOUS
  <2>2. x \in Users \cup issued \cup {Advisory} /\ Lock(r, x, "nokey")
    BY <2>1, <1>1, <1>2
  <2>3. \A q \in Requests : q # r =>
           \A y \in Users \cup Tokens \cup {Advisory}, n \in Modes :
              Held(q, y, n)' <=> Held(q, y, n)
    BY <1>2, <2>2, LockGranted, ModesType
  <2> QED BY <1>3, <1>4, <2>3 DEF OthersUnchanged
<1>6. \A t \in Tokens : Reach(r, t)' => Reach(r, t)
  <2>1. \A t \in Tokens : Held(r, t, "nokey")' => Held(r, t, "nokey") \/ t = row[r]
    BY <1>1 DEF Lock, Grant, Held
  <2> QED BY <1>3, <2>1, ConstantsAssumption DEF Reach
<1>7. AimsOnly(r)'
  <2>1. RowsStay
    BY <1>4 DEF RowsStay
  <2>2. pc'[r] \in Past
    BY <1>3 DEF Past, Late
  <2> QED BY <1>4, <1>6, <2>1, <2>2, AimKept
<1> QED BY <1>4, <1>5, <1>7, QuietStep

\* What is left to show of a step of r that takes no lock.
LEMMA UnlockedSInv ==
    ASSUME SInv, IInv', NEW r \in Requests, locks' = locks, store' = store,
           \A q \in Requests : q # r =>
              /\ pc'[q] = pc[q] /\ job'[q] = job[q] /\ fresh'[q] = fresh[q]
              /\ todo'[q] = todo[q] /\ row'[q] = row[q],
           AimsOnly(r)'
    PROVE  SInv'
<1>1. OthersUnchanged(r)
  BY DEF OthersUnchanged, Held
<1> QED BY <1>1, QuietStep

\* A request that has no row to revoke yet, nor after the step, aims at none.
LEMMA NoRowYet ==
    ASSUME SInv, NEW r \in Requests, pc[r] \notin Past, locks' = locks,
           todo' = todo, row' = row
    PROVE  AimsOnly(r)'
<1>1. \A t \in Tokens : ~Reach(r, t)
  BY NothingReached
<1> QED BY <1>1 DEF AimsOnly, Reach, Held

\* A request that begins, or a login or rotation that decides to succeed or to
\* be refused, keeps the invariant.
LEMMA PlainSInv ==
    ASSUME SInv, IInv', NEW r \in Requests,
           \/ \E u \in Users : BeginLogin(r, u)
           \/ \E t \in Tokens : BeginRotate(r, t)
           \/ \E a, u \in Users : BeginDisable(r, a, u)
           \/ RefuseLogin(r) \/ AcceptLogin(r) \/ Rotate(r)
    PROVE  SInv'
<1>1. /\ pc[r] \notin Past /\ locks' = locks /\ store' = store /\ todo' = todo /\ row' = row
      /\ \A q \in Requests : q # r => pc'[q] = pc[q]
      /\ \A q \in Requests : q # r => job'[q] = job[q]
      /\ \A q \in Requests : q # r => fresh'[q] = fresh[q]
  <2> USE DEF SInv, IInv, TypeOK, Past, Late
  <2>1. CASE \E u \in Users : BeginLogin(r, u)
    BY <2>1 DEF BeginLogin, Take
  <2>2. CASE \E t \in Tokens : BeginRotate(r, t)
    BY <2>2 DEF BeginRotate, Take
  <2>3. CASE \E a, u \in Users : BeginDisable(r, a, u)
    BY <2>3 DEF BeginDisable, Take
  <2>4. CASE RefuseLogin(r)
    BY <2>4 DEF RefuseLogin, Goto
  <2>5. CASE AcceptLogin(r)
    BY <2>5 DEF AcceptLogin, Goto, InsertToken
  <2>6. CASE Rotate(r)
    BY <2>6 DEF Rotate, Goto, InsertToken
  <2> QED BY <2>1, <2>2, <2>3, <2>4, <2>5, <2>6
<1>2. AimsOnly(r)'
  BY <1>1, NoRowYet
<1> QED BY <1>1, <1>2, UnlockedSInv

\* An UPDATE begins with the rows of its snapshot and reaches no other.
LEMMA SnapshotAim ==
    ASSUME SInv, IInv', NEW r \in Requests, pc[r] \notin Past,
           NEW S \in SUBSET issued, NextRow(r, S),
           UNCHANGED <<store, locks, fresh, history>>,
           \A q \in Requests : q # r => job'[q] = job[q],
           \A t \in S : Aim(r, t)'
    PROVE  SInv'
<1>1. TypeOK /\ S \in SUBSET Tokens
  BY DEF SInv, IInv, TypeOK
<1>2. /\ pc'[r] \in {"revoke", "audit"}
      /\ pc'[r] = "audit" => S = {} /\ row'[r] = None /\ todo'[r] = {}
      /\ pc'[r] = "revoke" => row'[r] \in S /\ todo'[r] \subseteq S
      /\ \A q \in Requests : q # r => pc'[q] = pc[q] /\ row'[q] = row[q] /\ todo'[q] = todo[q]
  BY <1>1, RowsReached
<1>3. issued' = issued /\ store' = store /\ fresh' = fresh /\ locks' = locks
  BY DEF store
<1>4. \A t \in Tokens : ~Held(r, t, "nokey")'
  BY <1>3, NothingReached DEF Held
<1>5. \A t \in Tokens : Reach(r, t)' => t \in S
  BY <1>2, <1>4, ConstantsAssumption DEF Reach
<1>6. AimsOnly(r)'
  BY <1>2, <1>3, <1>5 DEF AimsOnly, Past, Late
<1> QED BY <1>2, <1>3, <1>6, UnlockedSInv

\* A logout reaches for the family of its token.
LEMMA BeginLogoutSInv ==
    ASSUME SInv, IInv', NEW r \in Requests, NEW t \in Tokens, BeginLogout(r, t)
    PROVE  SInv'
<1> DEFINE S == FamilyRows(family[t])
<1>1. /\ pc[r] = "idle" /\ NextRow(r, S) /\ UNCHANGED <<store, locks, fresh, history>>
      /\ job' = [job EXCEPT ![r] = [op |-> "logout", tok |-> t, who |-> owner[t], actor |-> owner[t]]]
  BY DEF BeginLogout, Take
<1>2. job'[r].op = "logout" /\ job'[r].tok = t /\ \A q \in Requests : q # r => job'[q] = job[q]
  BY <1>1 DEF SInv, IInv, TypeOK
<1>3. family' = family
  BY <1>1 DEF store
<1>4. \A s \in S : Aim(r, s)'
  BY <1>2, <1>3 DEF Aim, FamilyRows
<1>5. S \in SUBSET issued /\ pc[r] \notin Past
  BY <1>1 DEF FamilyRows, Past, Late
<1> QED BY <1>1, <1>2, <1>4, <1>5, SnapshotAim

\* A replay reaches for the family of its token.
LEMMA DetectReuseSInv ==
    ASSUME SInv, IInv', NEW r \in Requests, NEW isExpired \in BOOLEAN, DetectReuse(r, isExpired)
    PROVE  SInv'
<1> DEFINE S == FamilyRows(family[job[r].tok])
<1>1. /\ pc[r] = "judge" /\ NextRow(r, S) /\ UNCHANGED <<store, locks, job, fresh, history>>
      /\ job[r].op = "rotate"
  BY DEF DetectReuse
<1>2. family' = family /\ job' = job /\ fresh' = fresh /\ fresh[r] = None
  BY <1>1, Judge DEF store, SInv
<1>3. \A s \in S : Aim(r, s)'
  BY <1>1, <1>2 DEF Aim, FoundReuse, FamilyRows
<1>4. S \in SUBSET issued /\ pc[r] \notin Past
  BY <1>1 DEF FamilyRows, Past, Late
<1> QED BY <1>1, <1>2, <1>3, <1>4, SnapshotAim

\* disable_user reaches for tokens of its user.
LEMMA SweepSInv ==
    ASSUME SInv, IInv', NEW r \in Requests, Sweep(r)
    PROVE  SInv'
<1> DEFINE S == {t \in issued : owner[t] = job[r].who /\ t \notin revoked}
<1>1. /\ pc[r] = "sweep" /\ NextRow(r, S) /\ UNCHANGED <<store, locks, job, fresh, history>>
  BY DEF Sweep
<1>2. owner' = owner /\ job' = job /\ job[r].op = "disable"
  BY <1>1, Judge DEF store, SInv
<1>3. \A s \in S : Aim(r, s)'
  BY <1>2 DEF Aim
<1>4. S \in SUBSET issued /\ pc[r] \notin Past
  BY <1>1 DEF Past, Late
<1> QED BY <1>1, <1>2, <1>3, <1>4, SnapshotAim

-----------------------------------------------------------------------------
(* The end of a transaction.                                               *)

\* A transaction that has ended reaches nothing.
LEMMA EndAim ==
    ASSUME SInv, NEW r \in Requests, End(r), RowsStay
    PROVE  \A q \in Requests : AimsOnly(q)'
<1>1. /\ \A q \in Requests : q # r => \A x, m : Held(q, x, m)' <=> Held(q, x, m)
      /\ todo'[r] = {} /\ row'[r] = None
      /\ \A q \in Requests : q # r =>
            /\ pc'[q] = pc[q] /\ job'[q] = job[q] /\ fresh'[q] = fresh[q]
            /\ todo'[q] = todo[q] /\ row'[q] = row[q]
  BY EndEffect DEF SInv
<1>2. OthersUnchanged(r)
  BY <1>1 DEF OthersUnchanged
<1>3. \A t \in Tokens : ~Held(r, t, "nokey")'
  BY DEF End, Release, Held
<1>4. AimsOnly(r)'
  BY <1>1, <1>3, ConstantsAssumption DEF AimsOnly, Reach
<1> QED BY <1>2, <1>4, BystanderAim

\* A rollback commits nothing.
LEMMA RollbackSInv ==
    ASSUME SInv, IInv', NEW r \in Requests, Rollback(r)
    PROVE  SInv'
<1>1. End(r) /\ issued' = issued /\ family' = family /\ owner' = owner
  BY DEF Rollback, store
<1>2. RowsStay
  BY <1>1 DEF RowsStay
<1>3. FamilyRoot'
  BY <1>1 DEF SInv, FamilyRoot
<1> QED BY <1>1, <1>2, <1>3, EndAim DEF SInv

\* A commit adds at most one row: the first of its family, or one more of it.
LEMMA CommitSInv ==
    ASSUME SInv, IInv', NEW r \in Requests, Commit(r)
    PROVE  SInv'
<1> DEFINE new == fresh[r]
<1>1. /\ pc[r] = "commit" /\ TypeOK /\ End(r)
      /\ issued' = issued \cup (IF new = None THEN {} ELSE {new})
      /\ new # None => new \in Tokens \ issued
      /\ \A t \in issued : family'[t] = family[t] /\ owner'[t] = owner[t]
      /\ new # None =>
            family'[new] = IF job[r].op = "login" THEN new ELSE family[job[r].tok]
  BY CommitEffect DEF SInv
<1>2. RowsStay
  BY <1>1 DEF RowsStay
<1>3. new # None =>
         /\ job[r].op \in {"login", "rotate"}
         /\ job[r].op = "rotate" => job[r].tok \in issued
  BY <1>1, NewToken DEF SInv
<1>4. \A t \in issued : family[t] \in issued /\ family[family[t]] = family[t]
  BY <1>1 DEF SInv, FamilyRoot, TypeOK
<1>5. \A t \in issued : family'[family'[t]] = family'[t]
  BY <1>1, <1>4
<1>6. new # None => family'[family'[new]] = family'[new]
  BY <1>1, <1>3, <1>4
<1>7. FamilyRoot'
  BY <1>1, <1>5, <1>6 DEF FamilyRoot
<1> QED BY <1>1, <1>2, <1>7, EndAim DEF SInv

\* Every step preserves the invariant.
LEMMA NextSInv == SInv /\ [Next]_vars => SInv'
<1> SUFFICES ASSUME SInv, [Next]_vars PROVE SInv'
  OBVIOUS
<1>1. IInv'
  BY NextIInv DEF SInv
<1>2. CASE UNCHANGED vars
  <2>1. /\ issued' = issued /\ family' = family /\ owner' = owner /\ locks' = locks
        /\ pc' = pc /\ job' = job /\ fresh' = fresh /\ todo' = todo /\ row' = row
    BY <1>2 DEF vars, store, local
  <2> QED BY <1>1, <2>1 DEF SInv, FamilyRoot, AimsOnly, Reach, Held, Aim, FoundReuse
<1>3. ASSUME NEW r \in Requests, Start(r) PROVE SInv'
  BY <1>1, <1>3, PlainSInv, BeginLogoutSInv DEF Start
<1>4. ASSUME NEW r \in Requests, Locking(r) PROVE SInv'
  BY <1>1, <1>4, LockingSInv, RevokeRowSInv DEF Locking
<1>5. ASSUME NEW r \in Requests, Judging(r) PROVE SInv'
  BY <1>1, <1>5, PlainSInv, DetectReuseSInv, SweepSInv DEF Judging
<1>6. ASSUME NEW r \in Requests, Commit(r) PROVE SInv'
  BY <1>1, <1>6, CommitSInv
<1>7. ASSUME NEW r \in Requests, Abort(r) \/ DeadlockVictim(r) PROVE SInv'
  BY <1>1, <1>7, RollbackSInv DEF Abort, DeadlockVictim
<1> QED BY <1>2, <1>3, <1>4, <1>5, <1>6, <1>7 DEF Next

\* No UPDATE of a handler ever reaches a row it is not there to revoke, and
\* every family is named by a token of its own.
THEOREM OnlyOwnRows == Spec => []SInv
BY InitSInv, NextSInv, PTL DEF Spec

-----------------------------------------------------------------------------
(* The refinement.                                                         *)

\* Token t continues family f.
Continues(f, t) == t \in issued /\ family[t] = f /\ Unspent(t)

\* The user whose session f is.
Holder(f) == IF f \in issued /\ family[f] = f THEN owner[f] ELSE None

\* Live names the one token that continues a family.
LiveNames ==
    \A f \in Tokens :
        /\ \A t : Continues(f, t) => Live(f) = t
        /\ (\A t : ~Continues(f, t)) => Live(f) = None

\* With at most one token to choose from, Live cannot choose wrongly.
LEMMA LiveIs == OneUnspent => LiveNames
<1> SUFFICES ASSUME OneUnspent, NEW f \in Tokens
             PROVE  /\ \A t : Continues(f, t) => Live(f) = t
                    /\ (\A t : ~Continues(f, t)) => Live(f) = None
  BY DEF LiveNames
<1>1. ASSUME NEW t, Continues(f, t) PROVE Live(f) = t
  <2>1. \A s \in issued : family[s] = f /\ Unspent(s) => s = t
    BY <1>1 DEF Continues, OneUnspent
  <2> QED BY <1>1, <2>1 DEF Continues, Live
<1>2. ASSUME \A t : ~Continues(f, t) PROVE Live(f) = None
  BY <1>2 DEF Continues, Live
<1> QED BY <1>1, <1>2

\* What the step does to the token of a session follows from what it does to
\* the rows that continue it.
LEMMA LiveAfter ==
    ASSUME SInv, SInv', NEW f \in Tokens
    PROVE  /\ (\A t : Continues(f, t)' <=> Continues(f, t)) => Live(f)' = Live(f)
           /\ \A t : Continues(f, t) => Live(f) = t
           /\ \A t : Continues(f, t)' => Live(f)' = t
           /\ (\A t : ~Continues(f, t)) => Live(f) = None
           /\ (\A t : ~Continues(f, t)') => Live(f)' = None
<1>1. OneUnspent /\ OneUnspent'
  BY DEF SInv, IInv
<1>2. LiveNames /\ LiveNames'
  BY <1>1, LiveIs, PTL
<1>3. /\ \A t : Continues(f, t) => Live(f) = t
      /\ (\A t : ~Continues(f, t)) => Live(f) = None
  BY <1>2 DEF LiveNames
<1>4. /\ \A t : Continues(f, t)' => Live(f)' = t
      /\ (\A t : ~Continues(f, t)') => Live(f)' = None
  BY <1>2 DEF LiveNames
<1> QED BY <1>3, <1>4

\* What a commit does to the tokens that continue families.
LEMMA CommitTokens ==
    ASSUME SInv, NEW r \in Requests, Commit(r), NEW t \in issued
    PROVE  /\ t \in issued' /\ family'[t] = family[t] /\ owner'[t] = owner[t]
           /\ Unspent(t)' => Unspent(t)
           /\ Unspent(t) /\ ~Unspent(t)' =>
                 \/ job[r].op = "rotate" /\ fresh[r] # None /\ t = job[r].tok
                 \/ Aim(r, t)
           /\ fresh[r] # None => t \notin Marked(r)
<1>1. /\ issued \subseteq issued' /\ family'[t] = family[t] /\ owner'[t] = owner[t]
      /\ revoked' = revoked \cup Marked(r)
      /\ used \subseteq used'
      /\ TypeOK /\ pc[r] = "commit"
  BY CommitEffect DEF SInv
<1>2. used' = IF job[r].op = "rotate" /\ fresh[r] # None THEN used \cup {job[r].tok} ELSE used
  BY DEF Commit
<1>3. t \in Marked(r) => Aim(r, t)
  BY <1>1 DEF Marked, SInv, AimsOnly, Reach, Held
<1>4. fresh[r] # None => t \notin Marked(r)
  <2>1. fresh[r] # None => job[r].op \in {"login", "rotate"}
    BY <1>1, NewToken DEF SInv
  <2> QED BY <1>3, <2>1 DEF Aim, FoundReuse
<1> QED BY <1>1, <1>2, <1>3, <1>4 DEF Unspent

\* The variables of the sessions, as RefreshFamilies maps them.
LiveOf == [f \in Tokens |-> Live(f)]

HolderOf == [f \in Tokens |-> Holder(f)]

\* The commit of a login that was accepted opens a session.
LEMMA CommitOpens ==
    ASSUME SInv, SInv', NEW r \in Requests, Commit(r), fresh[r] # None, job[r].op = "login"
    PROVE  Session!Open(fresh[r], job[r].who)
<1>new. PICK new : new = fresh[r]
  OBVIOUS
<1>1. /\ pc[r] = "commit" /\ TypeOK
      /\ issued' = issued \cup {new} /\ new \in Tokens \ issued
      /\ family'[new] = new /\ owner'[new] = job[r].who
      /\ used' \subseteq used \cup {job[r].tok} /\ (used' # used => job[r].op = "rotate")
      /\ revoked' = revoked \cup Marked(r) /\ Marked(r) \subseteq issued
  BY <1>new, CommitEffect DEF SInv
<1>2. \A t \in issued : /\ family'[t] = family[t] /\ owner'[t] = owner[t]
                        /\ family[t] \in issued /\ family[t] # new
                        /\ Unspent(t)' <=> Unspent(t)
  BY <1>1, CommitTokens DEF TypeOK, Aim, FoundReuse, Unspent
<1>3. Unspent(new)'
  BY <1>1 DEF Unspent, TypeOK
<1>4. Live(new)' = new
  BY <1>1, <1>3, LiveAfter DEF Continues
<1>5. ASSUME NEW f \in Tokens, f # new PROVE Live(f)' = Live(f) /\ Holder(f)' = Holder(f)
  <2>1. \A t : Continues(f, t)' <=> Continues(f, t)
    BY <1>1, <1>2, <1>5 DEF Continues
  <2>2. Holder(f)' = Holder(f)
    BY <1>1, <1>2, <1>5 DEF Holder
  <2> QED BY <2>1, <2>2, LiveAfter
<1>6. Holder(new)' = job[r].who
  BY <1>1 DEF Holder
<1>7. LiveOf' = [LiveOf EXCEPT ![new] = new] /\ HolderOf' = [HolderOf EXCEPT ![new] = job[r].who]
  BY <1>1, <1>4, <1>5, <1>6 DEF LiveOf, HolderOf
<1>8. job[r].who \notin disabled /\ disabled' = disabled
  BY <1>1, NewToken DEF Commit, SInv
<1> QED BY <1>new, <1>1, <1>7, <1>8 DEF Session!Open, LiveOf, HolderOf, Holder

\* The commit of a rotation moves the session to its next token.
LEMMA CommitRefreshes ==
    ASSUME SInv, SInv', NEW r \in Requests, Commit(r), fresh[r] # None, job[r].op = "rotate"
    PROVE  family[job[r].tok] \in Tokens /\ Session!Refresh(family[job[r].tok], fresh[r])
<1>new. PICK new : new = fresh[r]
  OBVIOUS
<1>f. PICK f : f = family[job[r].tok]
  OBVIOUS
<1>1. /\ pc[r] = "commit" /\ TypeOK
      /\ issued' = issued \cup {new} /\ new \in Tokens \ issued
      /\ family'[new] = f
      /\ used' \subseteq used \cup {job[r].tok} /\ job[r].tok \in used'
      /\ revoked' = revoked \cup Marked(r) /\ Marked(r) \subseteq issued
  BY <1>new, <1>f, CommitEffect DEF SInv
<1>2. /\ job[r].tok \in issued /\ Unspent(job[r].tok) /\ f \in issued
  BY <1>f, <1>1, NewToken DEF SInv
<1>3. \A t \in issued : /\ family'[t] = family[t] /\ owner'[t] = owner[t]
                        /\ t # job[r].tok => (Unspent(t)' <=> Unspent(t))
  BY <1>1, CommitTokens DEF Aim, FoundReuse
<1>4. Unspent(new)'
  BY <1>1, <1>2 DEF Unspent, TypeOK
<1>5. f \in Tokens /\ Live(f)' = new /\ Live(f) = job[r].tok
  BY <1>1, <1>2, <1>4, <1>f, LiveAfter DEF Continues, TypeOK
<1>6. job[r].tok # None
  BY <1>1, <1>2, ConstantsAssumption DEF TypeOK
<1>7. ASSUME NEW g \in Tokens, g # f PROVE Live(g)' = Live(g)
  <2>1. \A t : Continues(g, t)' <=> Continues(g, t)
    BY <1>1, <1>2, <1>3, <1>7, <1>f DEF Continues
  <2> QED BY <2>1, LiveAfter
<1>8. ASSUME NEW g \in Tokens PROVE Holder(g)' = Holder(g)
  BY <1>1, <1>2, <1>3 DEF Holder
<1>9. LiveOf' = [LiveOf EXCEPT ![f] = new] /\ HolderOf' = HolderOf
  BY <1>5, <1>7, <1>8 DEF LiveOf, HolderOf
<1>10. disabled' = disabled
  BY DEF Commit
<1> QED BY <1>new, <1>f, <1>1, <1>5, <1>6, <1>9, <1>10 DEF Session!Refresh, LiveOf, HolderOf, Holder

\* The commit of a replay or a logout ends the session if the UPDATE marked
\* its live token, and is no step of it otherwise.
LEMMA CommitCloses ==
    ASSUME SInv, SInv', NEW r \in Requests, Commit(r), fresh[r] = None,
           job[r].op \in {"rotate", "logout"}
    PROVE  \/ family[job[r].tok] \in Tokens /\ Session!Close(family[job[r].tok])
           \/ UNCHANGED Session!vars
<1>f. PICK f : f = family[job[r].tok]
  OBVIOUS
<1>1. TypeOK /\ issued' = issued
  <2>1. TypeOK
    BY DEF SInv, IInv
  <2>2. issued' = issued
    BY DEF Commit
  <2> QED BY <2>1, <2>2
<1>2. job[r].tok \in issued /\ f \in Tokens
  BY <1>f, <1>1 DEF SInv, IInv, ReqInv, Shape, TypeOK
<1>3. \A t \in issued : /\ family'[t] = family[t] /\ owner'[t] = owner[t]
                        /\ Unspent(t)' => Unspent(t)
                        /\ family[t] # f => (Unspent(t)' <=> Unspent(t))
  BY <1>f, CommitTokens DEF Aim
<1>4. ASSUME NEW g \in Tokens, g # f PROVE Live(g)' = Live(g)
  <2>1. \A t : Continues(g, t)' <=> Continues(g, t)
    BY <1>1, <1>3, <1>4 DEF Continues
  <2> QED BY <2>1, LiveAfter
<1>5. ASSUME NEW g \in Tokens PROVE Holder(g)' = Holder(g)
  BY <1>1, <1>3 DEF Holder
<1>6. disabled' = disabled /\ HolderOf' = HolderOf
  BY <1>5 DEF Commit, HolderOf
<1>7. CASE \E t : Continues(f, t)'
  <2>1. PICK t : Continues(f, t)'
    BY <1>7
  <2>2. Continues(f, t)
    BY <1>1, <1>3, <2>1 DEF Continues
  <2>3. Live(f)' = Live(f)
    BY <1>2, <2>1, <2>2, LiveAfter
  <2>4. LiveOf' = LiveOf
    BY <1>4, <2>3 DEF LiveOf
  <2> QED BY <1>1, <1>6, <2>4 DEF Session!vars, LiveOf, HolderOf, Holder
<1>8. CASE \A t : ~Continues(f, t)'
  <2>1. Live(f)' = None
    BY <1>2, <1>8, LiveAfter
  <2>2. LiveOf' = [LiveOf EXCEPT ![f] = None]
    BY <1>2, <1>4, <2>1 DEF LiveOf
  <2>3. Session!Close(f)
    BY <1>1, <1>2, <1>6, <2>2 DEF Session!Close, LiveOf, HolderOf, Holder
  <2> QED BY <1>f, <1>2, <2>3
<1> QED BY <1>f, <1>7, <1>8

\* The commit of disable_user ends every session of its user, and no other.
LEMMA CommitDisables ==
    ASSUME SInv, SInv', NEW r \in Requests, Commit(r), job[r].op = "disable"
    PROVE  job[r].who \in Users /\ Session!Disable(job[r].who)
<1> DEFINE u == job[r].who
<1>1. TypeOK /\ fresh[r] = None /\ u \in Users /\ issued' = issued
  <2>1. fresh[r] = None /\ u \in Users
    BY DEF SInv, IInv, ReqInv, Shape
  <2>2. TypeOK
    BY DEF SInv, IInv
  <2>3. issued' = issued
    BY <2>1 DEF Commit
  <2> QED BY <2>1, <2>2, <2>3
<1>2. \A t \in issued : /\ family'[t] = family[t] /\ owner'[t] = owner[t]
                        /\ Unspent(t)' => Unspent(t)
                        /\ owner[t] # u => (Unspent(t)' <=> Unspent(t))
  BY CommitTokens DEF Aim, FoundReuse
<1>3. disabled' = disabled \cup {u}
  BY DEF Commit
<1>4. \A t \in issued : owner[t] = u => ~Unspent(t)'
  BY <1>1, <1>2, <1>3 DEF SInv, IInv, DisabledHasNoSession, Unspent
<1>5. \A t \in issued : /\ family[t] \in issued /\ family[family[t]] = family[t]
                        /\ owner[family[t]] = owner[t]
  BY <1>1 DEF SInv, IInv, TypeOK, FamilyRoot, FamilyOwner
<1>6. ASSUME NEW f \in Tokens PROVE Live(f)' = IF Holder(f) = u THEN None ELSE Live(f)
  <2>1. CASE Holder(f) = u
    <3>1. \A t : ~Continues(f, t)'
      BY <1>1, <1>2, <1>4, <1>5, <2>1, ConstantsAssumption DEF Continues, Holder
    <3> QED BY <2>1, <3>1, LiveAfter
  <2>2. CASE Holder(f) # u
    <3>1. \A t \in issued : family[t] = f => owner[t] # u
      BY <1>5, <2>2 DEF Holder
    <3>2. \A t : Continues(f, t)' <=> Continues(f, t)
      BY <1>1, <1>2, <3>1 DEF Continues
    <3> QED BY <2>2, <3>2, LiveAfter
  <2> QED BY <2>1, <2>2
<1>7. ASSUME NEW f \in Tokens PROVE Holder(f)' = Holder(f)
  BY <1>1, <1>2 DEF Holder
<1>8. /\ LiveOf' = [f \in Tokens |-> IF HolderOf[f] = u THEN None ELSE LiveOf[f]]
      /\ HolderOf' = HolderOf
  BY <1>6, <1>7 DEF LiveOf, HolderOf
<1> QED BY <1>1, <1>3, <1>8 DEF Session!Disable, LiveOf, HolderOf, Holder

\* A step that commits no row leaves every session alone.
LEMMA NoSession ==
    ASSUME SInv, SInv', issued' = issued, used' = used, revoked' = revoked, disabled' = disabled,
           \A t \in issued : family'[t] = family[t] /\ owner'[t] = owner[t]
    PROVE  UNCHANGED Session!vars
<1>1. ASSUME NEW f \in Tokens PROVE Live(f)' = Live(f) /\ Holder(f)' = Holder(f)
  <2>1. \A t : Continues(f, t)' <=> Continues(f, t)
    BY DEF Continues, Unspent
  <2>2. Holder(f)' = Holder(f)
    BY DEF Holder
  <2> QED BY <2>1, <2>2, LiveAfter
<1>2. LiveOf' = LiveOf /\ HolderOf' = HolderOf
  BY <1>1 DEF LiveOf, HolderOf
<1> QED BY <1>2 DEF Session!vars, LiveOf, HolderOf, Holder

\* Every commit is a step of the sessions, or none.
LEMMA CommitImplements ==
    ASSUME SInv, SInv', NEW r \in Requests, Commit(r)
    PROVE  Session!Next \/ UNCHANGED Session!vars
<1>1. /\ pc[r] = "commit" /\ TypeOK /\ ReqInv(r)
      /\ fresh[r] # None => fresh[r] \in Tokens
  BY CommitEffect DEF SInv, TypeOK
<1>2. /\ job[r].op \in Ops
      /\ fresh[r] # None => job[r].op \in {"login", "rotate"} /\ job[r].who \in Users
  BY <1>1 DEF ReqInv, Shape, TypeOK, Job
<1>3. CASE fresh[r] # None /\ job[r].op = "login"
  <2>1. Session!Open(fresh[r], job[r].who) /\ fresh[r] \in Tokens /\ job[r].who \in Users
    BY <1>1, <1>2, <1>3, CommitOpens
  <2> QED BY <2>1 DEF Session!Next, Session!Open
<1>4. CASE fresh[r] # None /\ job[r].op = "rotate"
  BY <1>1, <1>4, CommitRefreshes DEF Session!Next
<1>5. CASE fresh[r] = None /\ job[r].op \in {"rotate", "logout"}
  BY <1>5, CommitCloses DEF Session!Next
<1>6. CASE job[r].op = "disable"
  BY <1>6, CommitDisables DEF Session!Next
<1>7. CASE fresh[r] = None /\ job[r].op = "login"
  <2>1. issued' = issued /\ used' = used /\ disabled' = disabled
        /\ \A t \in issued : family'[t] = family[t] /\ owner'[t] = owner[t]
    BY <1>7, CommitEffect DEF Commit, SInv
  <2>2. revoked' = revoked
    BY <1>7 DEF Commit, Marked, SInv, AimsOnly, Reach, Held, Aim, FoundReuse
  <2> QED BY <2>1, <2>2, NoSession
<1> QED BY <1>2, <1>3, <1>4, <1>5, <1>6, <1>7 DEF Ops

\* The handlers, with their row locks, UPDATEs row by row, audit lock, aborts
\* and deadlocks, implement sessions that are opened, moved on and ended whole
\* (auth.py, main.py).
THEOREM ImplementsSessions == Spec => SessionSpec
<1>1. Init => Session!Init
  <2> SUFFICES ASSUME Init PROVE Session!Init
    OBVIOUS
  <2>1. \A f \in Tokens : Live(f) = None /\ Holder(f) = None
    BY DEF Init, Live, Holder
  <2>2. LiveOf = [f \in Tokens |-> None] /\ HolderOf = [f \in Tokens |-> None]
    BY <2>1 DEF LiveOf, HolderOf
  <2> QED BY <2>2 DEF Init, Session!Init, LiveOf, HolderOf, Holder
<1>2. SInv /\ SInv' /\ [Next]_vars => [Session!Next]_(Session!vars)
  <2> SUFFICES ASSUME SInv, SInv', [Next]_vars
               PROVE  Session!Next \/ UNCHANGED Session!vars
    OBVIOUS
  <2>1. CASE store' = store
    <3>1. /\ issued' = issued /\ used' = used /\ revoked' = revoked /\ disabled' = disabled
          /\ family' = family /\ owner' = owner
      BY <2>1 DEF store
    <3> QED BY <3>1, NoSession
  <2>2. CASE \E r \in Requests : Commit(r)
    BY <2>2, CommitImplements
  <2>3. store' = store \/ \E r \in Requests : Commit(r)
    BY DEF Next, vars, store, Start, BeginLogin, BeginRotate, BeginLogout, BeginDisable,
           Locking, LockUser, LockToken, UpdateUser, RevokeRow, LockAudit, InsertEntry,
           Judging, RefuseLogin, AcceptLogin, Rotate, Sweep, DetectReuse,
           Abort, DeadlockVictim, Rollback
  <2> QED BY <2>1, <2>2, <2>3
<1>3. Session!Init /\ [][Session!Next]_(Session!vars) => Session!Spec
  BY DEF Session!Spec
<1> QED BY <1>1, <1>2, <1>3, OnlyOwnRows, PTL DEF Spec, SessionSpec
=============================================================================
