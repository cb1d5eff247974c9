------------------------ MODULE RefreshFamiliesProofs ------------------------
(* Theorems about RefreshFamilies, for every set of users, tokens and      *)
(* concurrent requests.                                                    *)
(*                                                                         *)
(* The argument is one about locks.  A rotation that is going to succeed   *)
(* holds its token's row and its user's row FOR UPDATE, so the token stays *)
(* unspent and the user enabled until it commits (Promise).  An UPDATE     *)
(* that revokes rows has, at every moment, either marked each row it must  *)
(* cover or still has it on its list (Covers): nothing can be added behind *)
(* its back, because whoever adds a row to the family holds the users row  *)
(* that the replay and disable_user hold too.  Only logout holds no such   *)
(* lock, which is why its clause excepts the logouts that are overtaken.   *)
EXTENDS RefreshFamilies, TLAPS

Held(r, x, m) == [by |-> r, on |-> x, mode |-> m] \in locks

Late == {"audit", "insert", "commit"}

Past == {"revoke"} \cup Late

\* No two transactions hold locks on one row that exclude each other.
Exclusion ==
    \A k, l \in locks : k.on = l.on /\ Conflict(k.mode, l.mode) => k.by = l.by

\* Rows are locked only once they are committed.
TokenLocks == \A l \in locks : l.on \in Tokens => l.on \in issued

\* A family belongs to one user.
FamilyOwner == \A t \in issued : owner[family[t]] = owner[t]

FreshDistinct ==
    \A q, r \in Requests : fresh[q] # None /\ fresh[q] = fresh[r] => q = r

\* How far a request of each kind can be, and what it carries there.
Shape(r) ==
    /\ job[r].op = "none" => pc[r] = "idle"
    /\ job[r].op = "login" => pc[r] \in {"lockUser", "judge"} \cup Late
    /\ job[r].op = "rotate" => pc[r] \in {"lockToken", "lockUser", "judge"} \cup Past
    /\ job[r].op = "logout" => pc[r] \in Past
    /\ job[r].op = "disable" => pc[r] \in {"updateUser", "sweep"} \cup Past
    /\ job[r].op # "none" => job[r].who \in Users /\ job[r].actor \in Users
    /\ job[r].op \in {"rotate", "logout"} =>
          job[r].tok \in issued /\ job[r].who = owner[job[r].tok]
    /\ fresh[r] # None => job[r].op \in {"login", "rotate"} /\ pc[r] \in Late
    /\ pc[r] # "revoke" => todo[r] = {} /\ row[r] = None
    /\ pc[r] = "revoke" => row[r] \in issued /\ todo[r] \subseteq issued

Holds(r) ==
    /\ job[r].op = "rotate" /\ pc[r] # "lockToken" => Held(r, job[r].tok, "update")
    /\ job[r].op \in {"login", "rotate"} /\ pc[r] \notin {"lockToken", "lockUser"}
          => Held(r, job[r].who, "update")
    /\ job[r].op = "disable" /\ pc[r] # "updateUser" => Held(r, job[r].who, "nokey")

\* A request that has inserted a token may still do so.
Promise(r) ==
    fresh[r] # None =>
        /\ fresh[r] \notin issued
        /\ job[r].who \notin disabled
        /\ job[r].op = "rotate" => Unspent(job[r].tok)

\* The UPDATE of r has marked row t or is going to.
Reach(r, t) == t \in todo[r] \/ t = row[r] \/ Held(r, t, "nokey")

Covers(r) ==
    pc[r] \in Past =>
        /\ FoundReuse(r) \/ (job[r].op = "logout" /\ r \notin overtaken) =>
              \A t \in issued : family[t] = family[job[r].tok] => Reach(r, t)
        /\ job[r].op = "disable" =>
              \A t \in issued : owner[t] = job[r].who => t \in revoked \/ Reach(r, t)

ReqInv(r) == Shape(r) /\ Holds(r) /\ Promise(r) /\ Covers(r)

IInv ==
    /\ TypeOK /\ Exclusion /\ TokenLocks /\ FamilyOwner /\ FreshDistinct
    /\ OneUnspent /\ ReplayKillsFamily /\ DisabledHasNoSession /\ QuietLogoutFinal
    /\ \A r \in Requests : ReqInv(r)

-----------------------------------------------------------------------------
\* The initial state satisfies the invariant.
LEMMA InitIInv == Init => IInv
<1> SUFFICES ASSUME Init PROVE IInv
  OBVIOUS
<1> USE DEF Init
<1>1. NoJob \in Job
  BY DEF NoJob, Job, Ops
<1>2. TypeOK
  BY <1>1 DEF TypeOK, Steps
<1>3. ASSUME NEW r \in Requests PROVE ReqInv(r)
  BY DEF ReqInv, Shape, Holds, Promise, Covers, NoJob, Late, Past, FoundReuse
<1>4. /\ Exclusion /\ TokenLocks /\ FamilyOwner /\ FreshDistinct /\ OneUnspent
      /\ ReplayKillsFamily /\ DisabledHasNoSession /\ QuietLogoutFinal
  BY DEF Exclusion, TokenLocks, FamilyOwner, FreshDistinct, OneUnspent, Unspent,
         ReplayKillsFamily, DisabledHasNoSession, QuietLogoutFinal
<1> QED BY <1>2, <1>3, <1>4 DEF IInv

-----------------------------------------------------------------------------
(* Steps that leave the committed rows alone.                              *)

\* The locks and the local state of every request but r are untouched.
OthersUnchanged(r) ==
    \A q \in Requests : q # r =>
        /\ pc'[q] = pc[q] /\ job'[q] = job[q] /\ fresh'[q] = fresh[q]
        /\ todo'[q] = todo[q] /\ row'[q] = row[q]
        /\ \A x \in Users \cup Tokens \cup {Advisory}, m \in Modes :
              Held(q, x, m)' <=> Held(q, x, m)

\* The modes the handlers ask for are lock modes.
LEMMA ModesType == "update" \in Modes /\ "nokey" \in Modes /\ "keyshare" \in Modes
BY DEF Modes

\* The invariant of a request that does not move, while nothing is committed.
LEMMA BystanderInv ==
    ASSUME IInv, NEW r \in Requests, OthersUnchanged(r), store' = store,
           NEW q \in Requests, q # r, q \in overtaken' <=> q \in overtaken
    PROVE  ReqInv(q)'
<1>1. /\ pc'[q] = pc[q] /\ job'[q] = job[q] /\ fresh'[q] = fresh[q]
      /\ todo'[q] = todo[q] /\ row'[q] = row[q]
  BY DEF OthersUnchanged
<1>2. \A x \in Users \cup Tokens \cup {Advisory}, m \in Modes : Held(q, x, m)' <=> Held(q, x, m)
  BY DEF OthersUnchanged
<1>3. /\ issued' = issued /\ family' = family /\ owner' = owner /\ used' = used
      /\ revoked' = revoked /\ disabled' = disabled /\ reused' = reused
  BY DEF store
<1>4. ReqInv(q) /\ TypeOK
  BY DEF IInv
<1>5. Shape(q)'
  BY <1>1, <1>3, <1>4 DEF ReqInv, Shape
<1>6. Holds(q)'
  <2>1. job[q].op = "rotate" => job[q].tok \in Tokens
    BY <1>4 DEF ReqInv, Shape, TypeOK
  <2>2. job[q].op # "none" => job[q].who \in Users
    BY <1>4 DEF ReqInv, Shape
  <2> QED BY <1>1, <1>2, <1>4, <2>1, <2>2, ModesType DEF ReqInv, Holds
<1>7. Promise(q)'
  BY <1>1, <1>3, <1>4 DEF ReqInv, Promise, Unspent
<1>8. ASSUME NEW t \in issued PROVE Reach(q, t)' <=> Reach(q, t)
  <2>1. t \in Tokens
    BY <1>4 DEF TypeOK
  <2> QED BY <1>1, <1>2, <2>1, ModesType DEF Reach
<1>9. Covers(q)'
  BY <1>1, <1>3, <1>4, <1>8 DEF ReqInv, Covers, FoundReuse
<1> QED BY <1>5, <1>6, <1>7, <1>9 DEF ReqInv

\* What is left to show of a step of r that commits nothing.
LEMMA LocalStep ==
    ASSUME IInv, NEW r \in Requests, OthersUnchanged(r), store' = store, closed' = closed,
           \A q \in Requests : q # r => (q \in overtaken' <=> q \in overtaken),
           TypeOK', Exclusion', TokenLocks', FreshDistinct', ReqInv(r)'
    PROVE  IInv'
<1>1. /\ issued' = issued /\ family' = family /\ owner' = owner /\ used' = used
      /\ revoked' = revoked /\ disabled' = disabled /\ reused' = reused
  BY DEF store
<1>2. \A q \in Requests : ReqInv(q)'
  BY BystanderInv
<1>3. FamilyOwner' /\ OneUnspent'
  BY <1>1 DEF IInv, FamilyOwner, OneUnspent, Unspent
<1>4. ReplayKillsFamily' /\ DisabledHasNoSession' /\ QuietLogoutFinal'
  BY <1>1 DEF IInv, ReplayKillsFamily, DisabledHasNoSession, QuietLogoutFinal
<1> QED BY <1>2, <1>3, <1>4 DEF IInv

-----------------------------------------------------------------------------
(* Granting a lock, and coming to the next row of an UPDATE.               *)

\* A granted lock keeps the locks exclusive and everybody else's where they were.
LEMMA LockGranted ==
    ASSUME IInv, NEW r \in Requests, NEW x \in Users \cup issued \cup {Advisory},
           NEW m \in Modes, Lock(r, x, m)
    PROVE  /\ locks' \subseteq [by : Requests, on : Users \cup Tokens \cup {Advisory}, mode : Modes]
           /\ \A k, l \in locks' : k.on = l.on /\ Conflict(k.mode, l.mode) => k.by = l.by
           /\ \A l \in locks' : l.on \in Tokens => l.on \in issued
           /\ \A q \in Requests : q # r =>
                 \A y \in Users \cup Tokens \cup {Advisory}, n \in Modes :
                    Held(q, y, n)' <=> Held(q, y, n)
           /\ Held(r, x, m)'
           /\ \A y, n : Held(r, y, n) => Held(r, y, n)'
<1> DEFINE new == [by |-> r, on |-> x, mode |-> m]
<1>1. locks' = locks \cup {new}
  BY DEF Lock, Grant
<1>2. \A l \in locks : l.on = x /\ l.by # r => ~Conflict(l.mode, m)
  BY DEF Lock, Grantable
<1>3. x \in Users \cup Tokens \cup {Advisory}
  BY DEF IInv, TypeOK
<1>4. locks' \subseteq [by : Requests, on : Users \cup Tokens \cup {Advisory}, mode : Modes]
  BY <1>1, <1>3 DEF IInv, TypeOK
<1>5. \A k, l \in locks' : k.on = l.on /\ Conflict(k.mode, l.mode) => k.by = l.by
  <2> SUFFICES ASSUME NEW k \in locks', NEW l \in locks',
                      k.on = l.on, Conflict(k.mode, l.mode), k.by # l.by
               PROVE  FALSE
    OBVIOUS
  <2>1. Conflict(l.mode, k.mode)
    BY DEF Conflict
  <2>2. CASE k \in locks /\ l \in locks
    BY <2>2 DEF IInv, Exclusion
  <2>3. CASE k = new /\ l \in locks
    BY <2>1, <2>3, <1>2
  <2>4. CASE l = new /\ k \in locks
    BY <2>4, <1>2
  <2> QED BY <1>1, <2>2, <2>3, <2>4
<1>6. \A l \in locks' : l.on \in Tokens => l.on \in issued
  BY <1>1, ConstantsAssumption DEF IInv, TokenLocks
<1>7. \A q \in Requests : q # r =>
         \A y \in Users \cup Tokens \cup {Advisory}, n \in Modes :
            Held(q, y, n)' <=> Held(q, y, n)
  BY <1>1 DEF Held
<1>8. Held(r, x, m)' /\ \A y, n : Held(r, y, n) => Held(r, y, n)'
  BY <1>1 DEF Held
<1> QED BY <1>4, <1>5, <1>6, <1>7, <1>8

\* An UPDATE that comes to its next row keeps every row of its snapshot in reach.
LEMMA RowsReached ==
    ASSUME TypeOK, NEW r \in Requests, NEW S \in SUBSET Tokens, NextRow(r, S)
    PROVE  /\ pc' \in [Requests -> Steps]
           /\ row' \in [Requests -> Tokens \cup {None}]
           /\ todo' \in [Requests -> SUBSET Tokens]
           /\ pc'[r] \in {"revoke", "audit"}
           /\ pc'[r] = "audit" => S = {} /\ row'[r] = None /\ todo'[r] = {}
           /\ pc'[r] = "revoke" => row'[r] \in S /\ todo'[r] \subseteq S
           /\ \A t \in S : t \in todo'[r] \/ t = row'[r]
           /\ \A q \in Requests : q # r => pc'[q] = pc[q] /\ row'[q] = row[q] /\ todo'[q] = todo[q]
<1>1. CASE /\ S = {}
           /\ pc' = [pc EXCEPT ![r] = "audit"]
           /\ row' = [row EXCEPT ![r] = None]
           /\ todo' = [todo EXCEPT ![r] = {}]
  BY <1>1 DEF TypeOK, Steps
<1>2. ASSUME NEW s \in S,
             pc' = [pc EXCEPT ![r] = "revoke"],
             row' = [row EXCEPT ![r] = s],
             todo' = [todo EXCEPT ![r] = S \ {s}]
      PROVE  /\ pc' \in [Requests -> Steps]
             /\ row' \in [Requests -> Tokens \cup {None}]
             /\ todo' \in [Requests -> SUBSET Tokens]
             /\ pc'[r] = "revoke" /\ row'[r] = s /\ todo'[r] = S \ {s}
             /\ \A q \in Requests : q # r => pc'[q] = pc[q] /\ row'[q] = row[q] /\ todo'[q] = todo[q]
  BY <1>2 DEF TypeOK, Steps
<1>3. \/ /\ S = {}
         /\ pc' = [pc EXCEPT ![r] = "audit"]
         /\ row' = [row EXCEPT ![r] = None]
         /\ todo' = [todo EXCEPT ![r] = {}]
      \/ \E s \in S : /\ pc' = [pc EXCEPT ![r] = "revoke"]
                      /\ row' = [row EXCEPT ![r] = s]
                      /\ todo' = [todo EXCEPT ![r] = S \ {s}]
  BY DEF NextRow
<1> QED BY <1>1, <1>2, <1>3

-----------------------------------------------------------------------------
(* The statements that lock a row and go on.                               *)

\* The common part of LockUser, LockToken, UpdateUser, LockAudit, InsertEntry.
LEMMA LockingStep ==
    ASSUME IInv, NEW r \in Requests, NEW x \in Users \cup issued \cup {Advisory},
           NEW m \in Modes, Lock(r, x, m), NEW step \in Steps,
           pc' = [pc EXCEPT ![r] = step],
           UNCHANGED <<store, job, fresh, todo, row, history>>,
           ReqInv(r)'
    PROVE  IInv'
<1>1. /\ issued' = issued /\ family' = family /\ owner' = owner /\ used' = used
      /\ revoked' = revoked /\ disabled' = disabled /\ reused' = reused
      /\ job' = job /\ fresh' = fresh /\ todo' = todo /\ row' = row
      /\ overtaken' = overtaken /\ closed' = closed
  BY DEF store, history
<1>2. /\ locks' \subseteq [by : Requests, on : Users \cup Tokens \cup {Advisory}, mode : Modes]
      /\ Exclusion' /\ TokenLocks'
  BY <1>1, LockGranted DEF Exclusion, TokenLocks
<1>3. pc' \in [Requests -> Steps] /\ \A q \in Requests : q # r => pc'[q] = pc[q]
  BY DEF IInv, TypeOK
<1>4. TypeOK'
  BY <1>1, <1>2, <1>3 DEF IInv, TypeOK
<1>5. \A q \in Requests : q # r =>
         \A y \in Users \cup Tokens \cup {Advisory}, n \in Modes :
            Held(q, y, n)' <=> Held(q, y, n)
  BY LockGranted
<1>6. OthersUnchanged(r)
  BY <1>1, <1>3, <1>5 DEF OthersUnchanged
<1>7. FreshDistinct'
  BY <1>1 DEF IInv, FreshDistinct
<1>8. store' = store
  BY <1>1 DEF store
<1> QED BY <1>1, <1>2, <1>4, <1>6, <1>7, <1>8, LocalStep

\* Unchanged parts of ReqInv(r) when r has taken a lock and stays below Past
\* or in Late: its rows to mark are what they were.
LEMMA CoversKept ==
    ASSUME IInv, NEW r \in Requests, Covers(r), pc'[r] \in Past => pc[r] \in Past,
           store' = store, job' = job, fresh' = fresh, todo' = todo, row' = row,
           overtaken' = overtaken,
           \A y, n : Held(r, y, n) => Held(r, y, n)'
    PROVE  Covers(r)'
<1>1. issued' = issued /\ family' = family /\ owner' = owner /\ revoked' = revoked
  BY DEF store
<1>2. \A t : Reach(r, t) => Reach(r, t)'
  BY DEF Reach
<1> QED BY <1>1, <1>2 DEF Covers, FoundReuse

\* The users row is taken (auth.py, authenticate and rotate_refresh_token).
LEMMA LockUserIInv ==
    ASSUME IInv, NEW r \in Requests, LockUser(r)
    PROVE  IInv'
<1>1. /\ pc[r] = "lockUser" /\ pc' = [pc EXCEPT ![r] = "judge"] /\ job[r].op \in {"login", "rotate"}
      /\ Lock(r, job[r].who, "update")
      /\ UNCHANGED <<store, job, fresh, todo, row, history>>
  BY DEF LockUser, Goto
<1>2. ReqInv(r) /\ job[r].who \in Users /\ pc'[r] = "judge"
  BY <1>1 DEF IInv, ReqInv, Shape, TypeOK
<1>3. Held(r, job[r].who, "update")' /\ \A y, n : Held(r, y, n) => Held(r, y, n)'
  BY <1>1, <1>2, LockGranted, ModesType
<1>4. /\ issued' = issued /\ family' = family /\ owner' = owner /\ used' = used
      /\ revoked' = revoked /\ disabled' = disabled
      /\ job' = job /\ fresh' = fresh /\ todo' = todo /\ row' = row
  BY <1>1 DEF store
<1>5. Shape(r)'
  BY <1>1, <1>2, <1>4 DEF ReqInv, Shape, Late, Past
<1>6. Holds(r)'
  BY <1>1, <1>2, <1>3, <1>4 DEF ReqInv, Holds
<1>7. Promise(r)' /\ Covers(r)'
  BY <1>1, <1>2, <1>4 DEF ReqInv, Promise, Unspent, Covers, Past, Late
<1>8. "judge" \in Steps
  BY DEF Steps
<1> QED BY <1>1, <1>2, <1>5, <1>6, <1>7, <1>8, LockingStep, ModesType DEF ReqInv

\* The row of the presented token is taken (auth.py, rotate_refresh_token).
LEMMA LockTokenIInv ==
    ASSUME IInv, NEW r \in Requests, LockToken(r)
    PROVE  IInv'
<1>1. /\ pc[r] = "lockToken" /\ pc' = [pc EXCEPT ![r] = "lockUser"]
      /\ Lock(r, job[r].tok, "update")
      /\ UNCHANGED <<store, job, fresh, todo, row, history>>
  BY DEF LockToken, Goto
<1>2. ReqInv(r) /\ pc'[r] = "lockUser" /\ job[r].op = "rotate" /\ job[r].tok \in issued
  <2>1. ReqInv(r) /\ pc'[r] = "lockUser"
    BY <1>1 DEF IInv, TypeOK
  <2>2. job[r].op \in Ops \cup {"none"}
    BY DEF IInv, TypeOK, Job
  <2> QED BY <1>1, <2>1, <2>2 DEF ReqInv, Shape, Late, Past, Ops
<1>3. Held(r, job[r].tok, "update")' /\ \A y, n : Held(r, y, n) => Held(r, y, n)'
  BY <1>1, <1>2, LockGranted, ModesType
<1>4. /\ issued' = issued /\ family' = family /\ owner' = owner /\ used' = used
      /\ revoked' = revoked /\ disabled' = disabled
      /\ job' = job /\ fresh' = fresh /\ todo' = todo /\ row' = row
  BY <1>1 DEF store
<1>5. Shape(r)'
  BY <1>1, <1>2, <1>4 DEF ReqInv, Shape, Late, Past
<1>6. Holds(r)'
  BY <1>1, <1>2, <1>3, <1>4 DEF ReqInv, Holds
<1>7. Promise(r)' /\ Covers(r)'
  BY <1>1, <1>2, <1>4 DEF ReqInv, Promise, Unspent, Covers, Past, Late
<1>8. "lockUser" \in Steps
  BY DEF Steps
<1> QED BY <1>1, <1>2, <1>5, <1>6, <1>7, <1>8, LockingStep, ModesType DEF ReqInv

\* disable_user writes the users row (main.py).
LEMMA UpdateUserIInv ==
    ASSUME IInv, NEW r \in Requests, UpdateUser(r)
    PROVE  IInv'
<1>1. /\ pc[r] = "updateUser" /\ pc' = [pc EXCEPT ![r] = "sweep"]
      /\ Lock(r, job[r].who, "nokey")
      /\ UNCHANGED <<store, job, fresh, todo, row, history>>
  BY DEF UpdateUser, Goto
<1>2. ReqInv(r) /\ pc'[r] = "sweep" /\ job[r].op = "disable" /\ job[r].who \in Users
  <2>1. ReqInv(r) /\ pc'[r] = "sweep"
    BY <1>1 DEF IInv, TypeOK
  <2>2. job[r].op \in Ops \cup {"none"}
    BY DEF IInv, TypeOK, Job
  <2> QED BY <1>1, <2>1, <2>2 DEF ReqInv, Shape, Late, Past, Ops
<1>3. Held(r, job[r].who, "nokey")' /\ \A y, n : Held(r, y, n) => Held(r, y, n)'
  BY <1>1, <1>2, LockGranted, ModesType
<1>4. /\ issued' = issued /\ family' = family /\ owner' = owner /\ used' = used
      /\ revoked' = revoked /\ disabled' = disabled
      /\ job' = job /\ fresh' = fresh /\ todo' = todo /\ row' = row
  BY <1>1 DEF store
<1>5. Shape(r)'
  BY <1>1, <1>2, <1>4 DEF ReqInv, Shape, Late, Past
<1>6. Holds(r)'
  BY <1>1, <1>2, <1>3, <1>4 DEF ReqInv, Holds
<1>7. Promise(r)' /\ Covers(r)'
  BY <1>1, <1>2, <1>4 DEF ReqInv, Promise, Unspent, Covers, Past, Late
<1>8. "sweep" \in Steps
  BY DEF Steps
<1> QED BY <1>1, <1>2, <1>5, <1>6, <1>7, <1>8, LockingStep, ModesType DEF ReqInv

\* LockAudit and InsertEntry: a lock taken on the way from one late step to
\* another.
LEMMA LateLockIInv ==
    ASSUME IInv, NEW r \in Requests, NEW x \in Users \cup {Advisory}, NEW m \in Modes,
           Lock(r, x, m), pc[r] \in Late, NEW step \in Late,
           pc' = [pc EXCEPT ![r] = step],
           UNCHANGED <<store, job, fresh, todo, row, history>>
    PROVE  IInv'
<1>1. ReqInv(r) /\ pc'[r] = step
  BY DEF IInv, TypeOK
<1>2. \A y, n : Held(r, y, n) => Held(r, y, n)'
  BY LockGranted
<1>3. /\ issued' = issued /\ family' = family /\ owner' = owner /\ used' = used
      /\ revoked' = revoked /\ disabled' = disabled
      /\ job' = job /\ fresh' = fresh /\ todo' = todo /\ row' = row
      /\ store' = store /\ overtaken' = overtaken
  BY DEF store, history
<1>4. Shape(r)'
  BY <1>1, <1>3 DEF ReqInv, Shape, Late, Past
<1>5. Holds(r)'
  BY <1>1, <1>2, <1>3 DEF ReqInv, Holds, Late
<1>6. Promise(r)'
  BY <1>1, <1>3 DEF ReqInv, Promise, Unspent
<1>7. Covers(r)'
  BY <1>1, <1>2, <1>3, CoversKept DEF ReqInv, Past
<1>8. step \in Steps
  BY DEF Steps, Late
<1> QED BY <1>1, <1>4, <1>5, <1>6, <1>7, <1>8, LockingStep DEF ReqInv

\* The tenant's audit lock is taken (audit.py, append_audit).
LEMMA LockAuditIInv ==
    ASSUME IInv, NEW r \in Requests, LockAudit(r)
    PROVE  IInv'
BY LateLockIInv, ModesType DEF LockAudit, Goto, Late

\* The audit entry is inserted, its actor checked (audit.py, append_audit).
LEMMA InsertEntryIInv ==
    ASSUME IInv, NEW r \in Requests, InsertEntry(r)
    PROVE  IInv'
<1>1. pc[r] = "insert" /\ ReqInv(r) /\ job[r].op \in Ops \cup {"none"}
  BY DEF InsertEntry, Goto, IInv, TypeOK, Job
<1>2. job[r].actor \in Users
  BY <1>1 DEF ReqInv, Shape
<1> QED BY <1>2, LateLockIInv, ModesType DEF InsertEntry, Goto, Late

\* An UPDATE marks the row it stands at and goes on.
LEMMA RevokeRowIInv ==
    ASSUME IInv, NEW r \in Requests, RevokeRow(r)
    PROVE  IInv'
<1>1. /\ pc[r] = "revoke" /\ Lock(r, row[r], "nokey") /\ NextRow(r, todo[r])
      /\ UNCHANGED <<store, job, fresh, history>>
  BY DEF RevokeRow
<1>2. ReqInv(r) /\ TypeOK /\ row[r] \in issued /\ todo[r] \subseteq issued /\ todo[r] \in SUBSET Tokens
  BY <1>1 DEF IInv, ReqInv, Shape, TypeOK
<1>3. /\ issued' = issued /\ family' = family /\ owner' = owner /\ used' = used
      /\ revoked' = revoked /\ disabled' = disabled /\ reused' = reused
      /\ job' = job /\ fresh' = fresh /\ overtaken' = overtaken /\ closed' = closed
      /\ store' = store
  BY <1>1 DEF store, history
<1>4. /\ pc' \in [Requests -> Steps]
      /\ row' \in [Requests -> Tokens \cup {None}]
      /\ todo' \in [Requests -> SUBSET Tokens]
      /\ pc'[r] \in {"revoke", "audit"}
      /\ pc'[r] = "audit" => todo[r] = {} /\ row'[r] = None /\ todo'[r] = {}
      /\ pc'[r] = "revoke" => row'[r] \in todo[r] /\ todo'[r] \subseteq todo[r]
      /\ \A t \in todo[r] : t \in todo'[r] \/ t = row'[r]
      /\ \A q \in Requests : q # r => pc'[q] = pc[q] /\ row'[q] = row[q] /\ todo'[q] = todo[q]
  BY <1>1, <1>2, RowsReached
<1>at. PICK x : x = row[r]
  OBVIOUS
<1>lock. x \in Users \cup issued \cup {Advisory} /\ Lock(r, x, "nokey")
  BY <1>at, <1>1, <1>2
<1>5. /\ locks' \subseteq [by : Requests, on : Users \cup Tokens \cup {Advisory}, mode : Modes]
      /\ Exclusion' /\ TokenLocks'
      /\ Held(r, x, "nokey")' /\ \A y, n : Held(r, y, n) => Held(r, y, n)'
  <2>1. /\ locks' \subseteq [by : Requests, on : Users \cup Tokens \cup {Advisory}, mode : Modes]
        /\ \A k, l \in locks' : k.on = l.on /\ Conflict(k.mode, l.mode) => k.by = l.by
        /\ \A l \in locks' : l.on \in Tokens => l.on \in issued
        /\ Held(r, x, "nokey")'
        /\ \A y, n : Held(r, y, n) => Held(r, y, n)'
    BY <1>lock, LockGranted, ModesType
  <2> QED BY <2>1, <1>3 DEF Exclusion, TokenLocks
<1>6. OthersUnchanged(r)
  <2>1. \A q \in Requests : q # r =>
           \A y \in Users \cup Tokens \cup {Advisory}, n \in Modes :
              Held(q, y, n)' <=> Held(q, y, n)
    BY <1>lock, LockGranted, ModesType
  <2> QED BY <1>3, <1>4, <2>1 DEF OthersUnchanged
<1>7. TypeOK'
  BY <1>2, <1>3, <1>4, <1>5 DEF TypeOK
<1>8. Shape(r)'
  BY <1>1, <1>2, <1>3, <1>4 DEF ReqInv, Shape, Late, Past
<1>9. Holds(r)'
  BY <1>1, <1>2, <1>3, <1>4, <1>5 DEF ReqInv, Holds
<1>10. Promise(r)'
  BY <1>2, <1>3 DEF ReqInv, Promise, Unspent
<1>11. Covers(r)'
  <2>1. ASSUME NEW t, Reach(r, t) PROVE Reach(r, t)'
    <3>1. CASE t \in todo[r]
      BY <3>1, <1>4 DEF Reach
    <3>2. CASE t = row[r]
      BY <3>2, <1>at, <1>5 DEF Reach
    <3>3. CASE Held(r, t, "nokey")
      BY <3>3, <1>5 DEF Reach
    <3> QED BY <2>1, <3>1, <3>2, <3>3 DEF Reach
  <2> QED BY <1>1, <1>2, <1>3, <2>1 DEF ReqInv, Covers, FoundReuse, Past
<1>12. FreshDistinct'
  BY <1>3 DEF IInv, FreshDistinct
<1> QED BY <1>3, <1>5, <1>6, <1>7, <1>8, <1>9, <1>10, <1>11, <1>12, LocalStep DEF ReqInv

-----------------------------------------------------------------------------
(* Steps that take no lock: a request begins, or decides.                  *)

\* The common part: the locks stay as they are.
LEMMA UnlockedStep ==
    ASSUME IInv, NEW r \in Requests, locks' = locks, store' = store, history' = history,
           pc' \in [Requests -> Steps], job' \in [Requests -> Job],
           fresh' \in [Requests -> Tokens \cup {None}],
           todo' \in [Requests -> SUBSET Tokens], row' \in [Requests -> Tokens \cup {None}],
           \A q \in Requests : q # r =>
              /\ pc'[q] = pc[q] /\ job'[q] = job[q] /\ fresh'[q] = fresh[q]
              /\ todo'[q] = todo[q] /\ row'[q] = row[q],
           fresh'[r] # None => \A q \in Requests : q # r => fresh[q] # fresh'[r],
           ReqInv(r)'
    PROVE  IInv'
<1>1. /\ issued' = issued /\ family' = family /\ owner' = owner /\ used' = used
      /\ revoked' = revoked /\ disabled' = disabled /\ reused' = reused
      /\ overtaken' = overtaken /\ closed' = closed
  BY DEF store, history
<1>2. TypeOK'
  BY <1>1 DEF IInv, TypeOK
<1>3. Exclusion' /\ TokenLocks'
  BY <1>1 DEF IInv, Exclusion, TokenLocks
<1>4. OthersUnchanged(r)
  BY DEF OthersUnchanged, Held
<1>5. FreshDistinct'
  <2> SUFFICES ASSUME NEW p \in Requests, NEW q \in Requests,
                      fresh'[p] # None, fresh'[p] = fresh'[q], p # q
               PROVE  FALSE
    BY DEF FreshDistinct
  <2>1. CASE p = r
    BY <2>1
  <2>2. CASE q = r
    BY <2>2
  <2>3. CASE p # r /\ q # r
    BY <2>3 DEF IInv, FreshDistinct
  <2> QED BY <2>1, <2>2, <2>3
<1> QED BY <1>1, <1>2, <1>3, <1>4, <1>5, LocalStep

\* A login begins with nothing held.
LEMMA BeginLoginIInv ==
    ASSUME IInv, NEW r \in Requests, NEW u \in Users, BeginLogin(r, u)
    PROVE  IInv'
<1> DEFINE j == [op |-> "login", tok |-> None, who |-> u, actor |-> u]
<1>1. /\ pc[r] = "idle" /\ job' = [job EXCEPT ![r] = j] /\ pc' = [pc EXCEPT ![r] = "lockUser"]
      /\ UNCHANGED <<store, locks, fresh, todo, row, history>>
  BY DEF BeginLogin, Take
<1>2. TypeOK /\ ReqInv(r) /\ j \in Job /\ "lockUser" \in Steps
  BY DEF IInv, Job, Ops, Steps
<1>3. pc'[r] = "lockUser" /\ job'[r] = j /\ fresh'[r] = fresh[r]
  BY <1>1, <1>2 DEF TypeOK
<1>4. fresh[r] = None /\ todo'[r] = {} /\ row'[r] = None
  BY <1>1, <1>2 DEF ReqInv, Shape, Late
<1>5. ReqInv(r)'
  BY <1>3, <1>4 DEF ReqInv, Shape, Holds, Promise, Covers, Late, Past
<1>6. /\ pc' \in [Requests -> Steps] /\ job' \in [Requests -> Job]
      /\ \A q \in Requests : q # r => pc'[q] = pc[q] /\ job'[q] = job[q]
  BY <1>1, <1>2 DEF TypeOK
<1> QED BY <1>1, <1>2, <1>3, <1>4, <1>5, <1>6, UnlockedStep DEF TypeOK

\* A rotation begins with nothing held.
LEMMA BeginRotateIInv ==
    ASSUME IInv, NEW r \in Requests, NEW t \in Tokens, BeginRotate(r, t)
    PROVE  IInv'
<1> DEFINE j == [op |-> "rotate", tok |-> t, who |-> owner[t], actor |-> owner[t]]
<1>1. /\ pc[r] = "idle" /\ job' = [job EXCEPT ![r] = j] /\ pc' = [pc EXCEPT ![r] = "lockToken"]
      /\ t \in issued /\ UNCHANGED <<store, locks, fresh, todo, row, history>>
  BY DEF BeginRotate, Take
<1>2. TypeOK /\ ReqInv(r) /\ owner[t] \in Users /\ j \in Job /\ "lockToken" \in Steps
  BY <1>1 DEF IInv, TypeOK, Job, Ops, Steps
<1>3. pc'[r] = "lockToken" /\ job'[r] = j /\ fresh'[r] = fresh[r]
      /\ issued' = issued /\ owner' = owner
  BY <1>1, <1>2 DEF TypeOK, store
<1>4. fresh[r] = None
  BY <1>1, <1>2 DEF ReqInv, Shape, Late
<1>5. ReqInv(r)'
  BY <1>1, <1>2, <1>3, <1>4 DEF ReqInv, Shape, Holds, Promise, Covers, Late, Past
<1>6. /\ pc' \in [Requests -> Steps] /\ job' \in [Requests -> Job]
      /\ \A q \in Requests : q # r => pc'[q] = pc[q] /\ job'[q] = job[q]
  BY <1>1, <1>2 DEF TypeOK
<1> QED BY <1>1, <1>2, <1>3, <1>4, <1>5, <1>6, UnlockedStep DEF TypeOK

\* A logout begins with every row of its snapshot still to mark.
LEMMA BeginLogoutIInv ==
    ASSUME IInv, NEW r \in Requests, NEW t \in Tokens, BeginLogout(r, t)
    PROVE  IInv'
<1> DEFINE j == [op |-> "logout", tok |-> t, who |-> owner[t], actor |-> owner[t]]
<1> DEFINE S == FamilyRows(family[t])
<1>1. /\ pc[r] = "idle" /\ job' = [job EXCEPT ![r] = j] /\ NextRow(r, S)
      /\ t \in issued /\ UNCHANGED <<store, locks, fresh, history>>
  BY DEF BeginLogout, Take
<1>2. TypeOK /\ ReqInv(r) /\ owner[t] \in Users /\ j \in Job
  BY <1>1 DEF IInv, TypeOK, Job, Ops
<1>3. S \in SUBSET Tokens /\ S \subseteq issued
  BY <1>2 DEF FamilyRows, TypeOK
<1>4. /\ pc' \in [Requests -> Steps]
      /\ row' \in [Requests -> Tokens \cup {None}]
      /\ todo' \in [Requests -> SUBSET Tokens]
      /\ pc'[r] \in {"revoke", "audit"}
      /\ pc'[r] = "audit" => S = {} /\ row'[r] = None /\ todo'[r] = {}
      /\ pc'[r] = "revoke" => row'[r] \in S /\ todo'[r] \subseteq S
      /\ \A s \in S : s \in todo'[r] \/ s = row'[r]
      /\ \A q \in Requests : q # r => pc'[q] = pc[q] /\ row'[q] = row[q] /\ todo'[q] = todo[q]
  BY <1>1, <1>2, <1>3, RowsReached
<1>5. /\ job' \in [Requests -> Job] /\ job'[r] = j
      /\ \A q \in Requests : q # r => job'[q] = job[q]
  BY <1>1, <1>2 DEF TypeOK
<1>6. /\ issued' = issued /\ family' = family /\ owner' = owner
      /\ fresh' = fresh /\ fresh[r] = None
  BY <1>1, <1>2 DEF store, ReqInv, Shape, Late
<1>7. Shape(r)'
  BY <1>1, <1>2, <1>3, <1>4, <1>5, <1>6 DEF Shape, Late, Past
<1>8. Holds(r)' /\ Promise(r)'
  BY <1>5, <1>6 DEF Holds, Promise
<1>9. Covers(r)'
  <2>1. \A s \in issued : family[s] = family[t] => Reach(r, s)'
    BY <1>4 DEF Reach, FamilyRows
  <2> QED BY <1>5, <1>6, <2>1 DEF Covers, FoundReuse
<1> QED BY <1>1, <1>2, <1>4, <1>5, <1>6, <1>7, <1>8, <1>9, UnlockedStep DEF ReqInv, TypeOK

\* A disabling begins with nothing held.
LEMMA BeginDisableIInv ==
    ASSUME IInv, NEW r \in Requests, NEW a \in Users, NEW u \in Users, BeginDisable(r, a, u)
    PROVE  IInv'
<1> DEFINE j == [op |-> "disable", tok |-> None, who |-> u, actor |-> a]
<1>1. /\ pc[r] = "idle" /\ job' = [job EXCEPT ![r] = j] /\ pc' = [pc EXCEPT ![r] = "updateUser"]
      /\ UNCHANGED <<store, locks, fresh, todo, row, history>>
  BY DEF BeginDisable, Take
<1>2. TypeOK /\ ReqInv(r) /\ j \in Job /\ "updateUser" \in Steps
  BY DEF IInv, Job, Ops, Steps
<1>3. pc'[r] = "updateUser" /\ job'[r] = j /\ fresh'[r] = fresh[r]
  BY <1>1, <1>2 DEF TypeOK
<1>4. fresh[r] = None /\ todo'[r] = {} /\ row'[r] = None
  BY <1>1, <1>2 DEF ReqInv, Shape, Late
<1>5. ReqInv(r)'
  BY <1>3, <1>4 DEF ReqInv, Shape, Holds, Promise, Covers, Late, Past
<1>6. /\ pc' \in [Requests -> Steps] /\ job' \in [Requests -> Job]
      /\ \A q \in Requests : q # r => pc'[q] = pc[q] /\ job'[q] = job[q]
  BY <1>1, <1>2 DEF TypeOK
<1> QED BY <1>1, <1>2, <1>3, <1>4, <1>5, <1>6, UnlockedStep DEF TypeOK

\* What a request knows once it has its row locks and may judge.
LEMMA Judge ==
    ASSUME IInv, NEW r \in Requests, pc[r] \in {"judge", "sweep"}
    PROVE  /\ TypeOK /\ ReqInv(r) /\ fresh[r] = None /\ job[r].op \in {"login", "rotate", "disable"}
           /\ pc[r] = "sweep" <=> job[r].op = "disable"
<1>1. TypeOK /\ ReqInv(r)
  BY DEF IInv
<1>2. job[r].op \in Ops \cup {"none"}
  BY <1>1 DEF TypeOK, Job
<1> QED BY <1>1, <1>2 DEF ReqInv, Shape, Late, Past, Ops

\* A login or a rotation that passes from judging to append_audit without a
\* row to revoke: with a new token, or a login without one.
LEMMA DecideStep ==
    ASSUME IInv, NEW r \in Requests, pc[r] = "judge", pc' = [pc EXCEPT ![r] = "audit"],
           UNCHANGED <<store, locks, job, todo, row, history>>,
           todo[r] = {}, row[r] = None,
           \/ fresh' = fresh /\ job[r].op = "login"
           \/ /\ InsertToken(r) /\ job[r].who \notin disabled
              /\ job[r].op = "rotate" => Unspent(job[r].tok)
    PROVE  IInv'
<1>1. /\ TypeOK /\ ReqInv(r) /\ fresh[r] = None /\ job[r].op \in {"login", "rotate", "disable"}
      /\ job[r].op # "disable"
  BY Judge
<1>2. pc' \in [Requests -> Steps] /\ pc'[r] = "audit" /\ \A q \in Requests : q # r => pc'[q] = pc[q]
  BY <1>1 DEF TypeOK, Steps
<1>3. /\ issued' = issued /\ family' = family /\ owner' = owner /\ used' = used
      /\ revoked' = revoked /\ disabled' = disabled
  BY DEF store
<1>4. /\ fresh' \in [Requests -> Tokens \cup {None}]
      /\ \A q \in Requests : q # r => fresh'[q] = fresh[q]
      /\ fresh'[r] # None => fresh'[r] \notin issued /\ \A q \in Requests : q # r => fresh[q] # fresh'[r]
      /\ fresh'[r] # None => job[r].who \notin disabled /\ (job[r].op = "rotate" => Unspent(job[r].tok))
      /\ job[r].op = "rotate" => fresh'[r] # None
  <2>1. CASE fresh' = fresh /\ job[r].op = "login"
    BY <1>1, <2>1 DEF TypeOK
  <2>2. CASE /\ InsertToken(r) /\ job[r].who \notin disabled
             /\ job[r].op = "rotate" => Unspent(job[r].tok)
    <3>1. PICK t \in Tokens \ (issued \cup {fresh[q] : q \in Requests}) :
             fresh' = [fresh EXCEPT ![r] = t]
      BY <2>2 DEF InsertToken
    <3>2. t # None
      BY ConstantsAssumption
    <3> QED BY <1>1, <2>2, <3>1, <3>2 DEF TypeOK
  <2> QED BY <2>1, <2>2
<1>5. Shape(r)'
  BY <1>1, <1>2, <1>3 DEF ReqInv, Shape, Late, Past
<1>6. Holds(r)'
  BY <1>1, <1>2 DEF ReqInv, Holds, Held
<1>7. Promise(r)'
  BY <1>3, <1>4 DEF Promise, Unspent
<1>8. Covers(r)'
  BY <1>1, <1>4 DEF Covers, FoundReuse
<1> QED BY <1>1, <1>2, <1>4, <1>5, <1>6, <1>7, <1>8, UnlockedStep DEF ReqInv, TypeOK

\* A refused login inserts no token.
LEMMA RefuseLoginIInv ==
    ASSUME IInv, NEW r \in Requests, RefuseLogin(r)
    PROVE  IInv'
<1>1. todo[r] = {} /\ row[r] = None
  BY DEF RefuseLogin, Goto, IInv, ReqInv, Shape
<1> QED BY <1>1, DecideStep DEF RefuseLogin, Goto

\* An accepted login inserts a token for a user it holds and found enabled.
LEMMA AcceptLoginIInv ==
    ASSUME IInv, NEW r \in Requests, AcceptLogin(r)
    PROVE  IInv'
<1>1. todo[r] = {} /\ row[r] = None
  BY DEF AcceptLogin, Goto, IInv, ReqInv, Shape
<1> QED BY <1>1, DecideStep DEF AcceptLogin, Goto

\* A rotation inserts a token while it holds its old one, unspent.
LEMMA RotateIInv ==
    ASSUME IInv, NEW r \in Requests, Rotate(r)
    PROVE  IInv'
<1>1. todo[r] = {} /\ row[r] = None
  BY DEF Rotate, Goto, IInv, ReqInv, Shape
<1> QED BY <1>1, DecideStep DEF Rotate, Goto, Rotatable

\* The common part of DetectReuse and Sweep: the snapshot S of an UPDATE that
\* r runs while it holds the row of the user concerned.
LEMMA SnapshotStep ==
    ASSUME IInv, NEW r \in Requests, NEW S \in SUBSET issued,
           pc[r] \in {"judge", "sweep"}, NextRow(r, S), job[r].op # "login",
           UNCHANGED <<store, locks, job, fresh, history>>,
           job[r].op = "rotate" => FamilyRows(family[job[r].tok]) \subseteq S,
           job[r].op = "disable" =>
              {t \in issued : owner[t] = job[r].who /\ t \notin revoked} \subseteq S
    PROVE  IInv'
<1>1. /\ TypeOK /\ ReqInv(r) /\ fresh[r] = None /\ job[r].op \in {"rotate", "disable"}
      /\ pc[r] = "sweep" <=> job[r].op = "disable"
  BY Judge
<1>2. S \in SUBSET Tokens
  BY <1>1 DEF TypeOK
<1>3. /\ pc' \in [Requests -> Steps]
      /\ row' \in [Requests -> Tokens \cup {None}]
      /\ todo' \in [Requests -> SUBSET Tokens]
      /\ pc'[r] \in {"revoke", "audit"}
      /\ pc'[r] = "audit" => S = {} /\ row'[r] = None /\ todo'[r] = {}
      /\ pc'[r] = "revoke" => row'[r] \in S /\ todo'[r] \subseteq S
      /\ \A s \in S : s \in todo'[r] \/ s = row'[r]
      /\ \A q \in Requests : q # r => pc'[q] = pc[q] /\ row'[q] = row[q] /\ todo'[q] = todo[q]
  BY <1>1, <1>2, RowsReached
<1>4. /\ issued' = issued /\ family' = family /\ owner' = owner /\ used' = used
      /\ revoked' = revoked /\ disabled' = disabled /\ job' = job /\ fresh' = fresh
  BY DEF store
<1>5. Shape(r)'
  BY <1>1, <1>3, <1>4 DEF ReqInv, Shape, Late, Past
<1>6. Holds(r)'
  BY <1>1, <1>4 DEF ReqInv, Holds, Held
<1>7. Promise(r)'
  BY <1>1, <1>4 DEF Promise
<1>8. Covers(r)'
  <2>1. \A s \in S : Reach(r, s)'
    BY <1>3 DEF Reach
  <2>2. job[r].op = "rotate" => \A t \in issued : family[t] = family[job[r].tok] => Reach(r, t)'
    BY <2>1 DEF FamilyRows
  <2>3. job[r].op = "disable" =>
           \A t \in issued : owner[t] = job[r].who => t \in revoked \/ Reach(r, t)'
    BY <2>1
  <2> QED BY <1>1, <1>4, <2>2, <2>3 DEF Covers, FoundReuse
<1> QED BY <1>1, <1>3, <1>4, <1>5, <1>6, <1>7, <1>8, UnlockedStep DEF ReqInv, TypeOK

\* A replay begins its UPDATE with the whole family to mark and the user held.
LEMMA DetectReuseIInv ==
    ASSUME IInv, NEW r \in Requests, NEW isExpired \in BOOLEAN, DetectReuse(r, isExpired)
    PROVE  IInv'
<1>1. FamilyRows(family[job[r].tok]) \in SUBSET issued
  BY DEF FamilyRows
<1> QED BY <1>1, SnapshotStep DEF DetectReuse

\* disable_user begins its UPDATE with every live token of the user to mark.
LEMMA SweepIInv ==
    ASSUME IInv, NEW r \in Requests, Sweep(r)
    PROVE  IInv'
<1>1. job[r].op = "disable"
  BY Judge DEF Sweep
<1>2. {t \in issued : owner[t] = job[r].who /\ t \notin revoked} \in SUBSET issued
  OBVIOUS
<1> QED BY <1>1, <1>2, SnapshotStep DEF Sweep

-----------------------------------------------------------------------------
(* The end of a transaction.                                               *)

\* The end of a transaction releases its locks and clears its local state.
LEMMA EndEffect ==
    ASSUME IInv, NEW r \in Requests, End(r)
    PROVE  /\ locks' \subseteq locks
           /\ \A q \in Requests : q # r => \A x, m : Held(q, x, m)' <=> Held(q, x, m)
           /\ pc' \in [Requests -> Steps] /\ job' \in [Requests -> Job]
           /\ fresh' \in [Requests -> Tokens \cup {None}]
           /\ todo' \in [Requests -> SUBSET Tokens] /\ row' \in [Requests -> Tokens \cup {None}]
           /\ pc'[r] = "idle" /\ job'[r] = NoJob /\ fresh'[r] = None
           /\ todo'[r] = {} /\ row'[r] = None
           /\ \A q \in Requests : q # r =>
                 /\ pc'[q] = pc[q] /\ job'[q] = job[q] /\ fresh'[q] = fresh[q]
                 /\ todo'[q] = todo[q] /\ row'[q] = row[q]
           /\ FreshDistinct'
           /\ Shape(r)' /\ Holds(r)' /\ Promise(r)' /\ Covers(r)'
<1>1. TypeOK
  BY DEF IInv
<1>2. NoJob \in Job /\ "idle" \in Steps
  BY DEF NoJob, Job, Ops, Steps
<1>3. /\ pc' \in [Requests -> Steps] /\ job' \in [Requests -> Job]
      /\ fresh' \in [Requests -> Tokens \cup {None}]
      /\ todo' \in [Requests -> SUBSET Tokens] /\ row' \in [Requests -> Tokens \cup {None}]
      /\ pc'[r] = "idle" /\ job'[r] = NoJob /\ fresh'[r] = None
      /\ todo'[r] = {} /\ row'[r] = None
      /\ \A q \in Requests : q # r =>
            /\ pc'[q] = pc[q] /\ job'[q] = job[q] /\ fresh'[q] = fresh[q]
            /\ todo'[q] = todo[q] /\ row'[q] = row[q]
  BY <1>1, <1>2 DEF End, TypeOK
<1>4. /\ locks' \subseteq locks
      /\ \A q \in Requests : q # r => \A x, m : Held(q, x, m)' <=> Held(q, x, m)
  BY DEF End, Release, Held
<1>5. FreshDistinct'
  BY <1>3 DEF IInv, FreshDistinct
<1>6. Shape(r)' /\ Holds(r)' /\ Promise(r)' /\ Covers(r)'
  BY <1>3 DEF Shape, Holds, Promise, Covers, NoJob, Late, Past
<1> QED BY <1>3, <1>4, <1>5, <1>6

\* A rollback, of an abort or of a deadlock, commits nothing.
LEMMA RollbackIInv ==
    ASSUME IInv, NEW r \in Requests, Rollback(r)
    PROVE  IInv'
<1>1. End(r) /\ store' = store /\ closed' = closed /\ overtaken' = overtaken \ {r}
  BY DEF Rollback, store
<1>2. /\ issued' = issued /\ family' = family /\ owner' = owner /\ used' = used
      /\ revoked' = revoked /\ disabled' = disabled /\ reused' = reused
  BY <1>1 DEF store
<1>3. TypeOK' /\ Exclusion' /\ TokenLocks' /\ FreshDistinct' /\ ReqInv(r)' /\ OthersUnchanged(r)
  BY <1>1, <1>2, EndEffect DEF IInv, TypeOK, Exclusion, TokenLocks, ReqInv, OthersUnchanged
<1> QED BY <1>1, <1>3, LocalStep

\* What a commit makes of the committed rows.
LEMMA CommitEffect ==
    ASSUME IInv, NEW r \in Requests, Commit(r)
    PROVE  LET new == fresh[r]
           IN  /\ pc[r] = "commit" /\ ReqInv(r) /\ TypeOK /\ End(r)
               /\ todo[r] = {} /\ row[r] = None
               /\ issued' = issued \cup (IF new = None THEN {} ELSE {new})
               /\ new # None => new \in Tokens \ issued
               /\ \A t \in issued : family'[t] = family[t] /\ owner'[t] = owner[t]
               /\ new # None =>
                     /\ family'[new] = IF job[r].op = "login" THEN new ELSE family[job[r].tok]
                     /\ owner'[new] = job[r].who
               /\ used \subseteq used' /\ used' \subseteq used \cup {job[r].tok}
               /\ used' # used => job[r].op = "rotate"
               /\ job[r].op = "rotate" /\ new # None => job[r].tok \in used'
               /\ revoked' = revoked \cup Marked(r)
               /\ Marked(r) \subseteq issued
<1> DEFINE new == fresh[r]
<1>1. /\ pc[r] = "commit" /\ End(r)
      /\ issued' = IF new = None THEN issued ELSE issued \cup {new}
      /\ family' = [t \in Tokens |-> IF t = new THEN IF job[r].op = "login" THEN new ELSE family[job[r].tok]
                                     ELSE family[t]]
      /\ owner' = [t \in Tokens |-> IF t = new THEN job[r].who ELSE owner[t]]
      /\ used' = IF job[r].op = "rotate" /\ new # None THEN used \cup {job[r].tok} ELSE used
      /\ revoked' = revoked \cup Marked(r)
  BY DEF Commit
<1>2. ReqInv(r) /\ TypeOK
  BY DEF IInv
<1>3. todo[r] = {} /\ row[r] = None
  BY <1>1, <1>2 DEF ReqInv, Shape
<1>4. new # None => new \in Tokens \ issued
  BY <1>2 DEF ReqInv, Promise, TypeOK
<1>5. Marked(r) \subseteq issued
  <2> SUFFICES ASSUME NEW t \in Marked(r) PROVE t \in issued
    OBVIOUS
  <2>1. [by |-> r, on |-> t, mode |-> "nokey"] \in locks /\ t \in Tokens
    BY DEF Marked
  <2> QED BY <2>1 DEF IInv, TokenLocks
<1>6. \A t \in issued : family'[t] = family[t] /\ owner'[t] = owner[t]
  <2>1. \A t \in issued : t \in Tokens /\ t # new
    BY <1>2, <1>4, ConstantsAssumption DEF TypeOK
  <2> QED BY <1>1, <2>1
<1>7. new # None => /\ family'[new] = IF job[r].op = "login" THEN new ELSE family[job[r].tok]
                    /\ owner'[new] = job[r].who
  BY <1>1, <1>4
<1> QED BY <1>1, <1>2, <1>3, <1>4, <1>5, <1>6, <1>7

\* Locks that exclude each other are held by one transaction.
LEMMA Excluded ==
    ASSUME IInv, NEW q \in Requests, NEW r \in Requests, NEW x,
           NEW m, NEW n, Held(q, x, m), Held(r, x, n), Conflict(m, n)
    PROVE  q = r
<1> DEFINE k == [by |-> q, on |-> x, mode |-> m]
<1> DEFINE l == [by |-> r, on |-> x, mode |-> n]
<1>1. k \in locks /\ l \in locks /\ k.on = l.on /\ Conflict(k.mode, l.mode)
  BY DEF Held
<1>2. k.by = l.by
  BY <1>1 DEF IInv, Exclusion
<1> QED BY <1>2

\* The new token of a rotation joins a family that no audited reuse and no
\* final logout has closed; its user is enabled and still holds the lock.
LEMMA NewToken ==
    ASSUME IInv, NEW r \in Requests, pc[r] = "commit", fresh[r] # None
    PROVE  /\ job[r].op \in {"login", "rotate"}
           /\ job[r].who \in Users /\ job[r].who \notin disabled
           /\ Held(r, job[r].who, "update")
           /\ job[r].op = "rotate" =>
                 /\ job[r].tok \in issued /\ Unspent(job[r].tok)
                 /\ Held(r, job[r].tok, "update") /\ owner[job[r].tok] = job[r].who
                 /\ family[job[r].tok] \in issued /\ owner[family[job[r].tok]] = job[r].who
                 /\ family[job[r].tok] \notin reused /\ family[job[r].tok] \notin closed
<1>1. ReqInv(r) /\ TypeOK /\ job[r].op \in {"login", "rotate"}
  BY DEF IInv, ReqInv, Shape
<1>2. job[r].who \in Users /\ job[r].who \notin disabled /\ Held(r, job[r].who, "update")
  BY <1>1 DEF ReqInv, Shape, Promise, Holds
<1>3. ASSUME job[r].op = "rotate"
      PROVE  /\ job[r].tok \in issued /\ Unspent(job[r].tok)
             /\ Held(r, job[r].tok, "update") /\ owner[job[r].tok] = job[r].who
  BY <1>1, <1>3 DEF ReqInv, Shape, Promise, Holds
<1>4. ASSUME job[r].op = "rotate"
      PROVE  /\ family[job[r].tok] \in issued /\ owner[family[job[r].tok]] = job[r].who
             /\ family[job[r].tok] \notin reused /\ family[job[r].tok] \notin closed
  BY <1>1, <1>3, <1>4 DEF IInv, TypeOK, FamilyOwner, ReplayKillsFamily, QuietLogoutFinal, Unspent
<1> QED BY <1>1, <1>2, <1>3, <1>4

\* The commit of r keeps the invariant of every other request.
LEMMA CommitBystander ==
    ASSUME IInv, NEW r \in Requests, Commit(r), NEW q \in Requests, q # r
    PROVE  ReqInv(q)'
<1> DEFINE new == fresh[r]
<1>1. /\ pc[r] = "commit" /\ ReqInv(r) /\ TypeOK /\ End(r)
      /\ issued' = issued \cup (IF new = None THEN {} ELSE {new})
      /\ new # None => new \in Tokens \ issued
      /\ \A t \in issued : family'[t] = family[t] /\ owner'[t] = owner[t]
      /\ new # None =>
            /\ family'[new] = IF job[r].op = "login" THEN new ELSE family[job[r].tok]
            /\ owner'[new] = job[r].who
      /\ used' \subseteq used \cup {job[r].tok} /\ (used' # used => job[r].op = "rotate")
      /\ revoked' = revoked \cup Marked(r)
  BY CommitEffect
<1>2. /\ \A x, m : Held(q, x, m)' <=> Held(q, x, m)
      /\ pc'[q] = pc[q] /\ job'[q] = job[q] /\ fresh'[q] = fresh[q]
      /\ todo'[q] = todo[q] /\ row'[q] = row[q]
  BY <1>1, EndEffect
<1>3. ReqInv(q) /\ \A t \in issued : family[t] \in issued /\ t \in Tokens
  BY DEF IInv, TypeOK
<1>4. Shape(q)'
  BY <1>1, <1>2, <1>3 DEF ReqInv, Shape
<1>5. Holds(q)'
  BY <1>2, <1>3 DEF ReqInv, Holds
<1>6. Promise(q)'
  <2> SUFFICES ASSUME fresh[q] # None
               PROVE  /\ fresh[q] \notin issued' /\ job[q].who \notin disabled'
                      /\ job[q].op = "rotate" => Unspent(job[q].tok)'
    BY <1>2 DEF Promise
  <2>1. /\ job[q].op \in {"login", "rotate"} /\ pc[q] \in Late
        /\ fresh[q] \notin issued /\ job[q].who \notin disabled
        /\ Held(q, job[q].who, "update")
        /\ job[q].op = "rotate" => /\ job[q].tok \in issued /\ Unspent(job[q].tok)
                                   /\ Held(q, job[q].tok, "update")
    BY <1>3 DEF ReqInv, Shape, Holds, Promise, Late
  <2>2. fresh[q] \notin issued'
    BY <1>1, <2>1 DEF IInv, FreshDistinct
  <2>3. job[q].who \notin disabled'
    <3>1. disabled' = IF job[r].op = "disable" THEN disabled \cup {job[r].who} ELSE disabled
      BY DEF Commit
    <3>2. job[r].op = "disable" => Held(r, job[r].who, "nokey")
      BY <1>1 DEF ReqInv, Holds
    <3>3. job[r].op = "disable" => job[r].who # job[q].who
      BY <2>1, <3>2, Excluded DEF Conflict
    <3> QED BY <2>1, <3>1, <3>3
  <2>4. ASSUME job[q].op = "rotate" PROVE Unspent(job[q].tok)'
    <3> DEFINE t == job[q].tok
    <3>1. t \in issued /\ Unspent(t) /\ Held(q, t, "update") /\ t \in Tokens
      BY <1>3, <2>1, <2>4
    <3>2. t \notin Marked(r)
      BY <3>1, Excluded DEF Marked, Held, Conflict
    <3>3. t \notin used'
      <4>1. job[r].op = "rotate" => Held(r, job[r].tok, "update")
        BY <1>1 DEF ReqInv, Holds
      <4>2. job[r].op = "rotate" => job[r].tok # t
        BY <3>1, <4>1, Excluded DEF Conflict
      <4> QED BY <1>1, <3>1, <4>2 DEF Unspent
    <3>4. t \in issued' /\ t \notin revoked'
      BY <1>1, <3>1, <3>2 DEF Unspent
    <3>5. job'[q].tok = t
      BY <1>2
    <3> QED BY <3>3, <3>4, <3>5 DEF Unspent
  <2> QED BY <2>2, <2>3, <2>4
<1>7. Covers(q)'
  <2>1. \A t : Reach(q, t)' <=> Reach(q, t)
    BY <1>2 DEF Reach
  <2>2. /\ FoundReuse(q)' <=> FoundReuse(q)
        /\ pc'[q] = pc[q] /\ job'[q] = job[q]
    BY <1>2 DEF FoundReuse
  <2>3. q \in overtaken => q \in overtaken'
    BY DEF Commit
  <2>4. ASSUME pc[q] \in Past, FoundReuse(q) \/ (job[q].op = "logout" /\ q \notin overtaken'),
               NEW t \in issued', family'[t] = family'[job[q].tok]
        PROVE  Reach(q, t)
    <3>1. job[q].tok \in issued /\ job[q].who = owner[job[q].tok] /\ family'[job[q].tok] = family[job[q].tok]
      BY <1>1, <1>3, <2>4 DEF ReqInv, Shape, FoundReuse
    <3>2. CASE t \in issued
      BY <1>1, <1>3, <2>3, <2>4, <3>1, <3>2 DEF ReqInv, Covers
    <3>3. CASE t \notin issued
      <4>1. t = new /\ new # None
        BY <1>1, <2>4, <3>3
      <4>2. job[r].op = "rotate" /\ family[job[r].tok] = family[job[q].tok]
        <5>1. family[job[q].tok] \in issued
          BY <1>3, <3>1
        <5>2. job[r].op # "login"
          BY <1>1, <2>4, <3>1, <4>1, <5>1
        <5> QED BY <1>1, <2>4, <3>1, <4>1, <5>2, NewToken
      <4>3. job[r].who = job[q].who
        BY <1>1, <3>1, <4>1, <4>2, NewToken DEF IInv, FamilyOwner
      <4>4. CASE FoundReuse(q)
        <5>1. Held(q, job[q].who, "update")
          BY <1>3, <2>4, <4>4 DEF ReqInv, Holds, FoundReuse, Past, Late
        <5>2. Held(r, job[r].who, "update")
          BY <1>1, <4>1, NewToken
        <5> QED BY <4>3, <5>1, <5>2, Excluded DEF Conflict
      <4>5. CASE job[q].op = "logout" /\ q \notin overtaken'
        <5>1. q \in Missing(family[job[r].tok])
          BY <4>2, <4>5 DEF Missing
        <5>2. q \in overtaken'
          BY <4>1, <4>2, <5>1 DEF Commit
        <5> QED BY <4>5, <5>2
      <4> QED BY <2>4, <4>4, <4>5
    <3> QED BY <3>2, <3>3
  <2>5. ASSUME pc[q] \in Past, job[q].op = "disable",
               NEW t \in issued', owner'[t] = job[q].who
        PROVE  t \in revoked' \/ Reach(q, t)
    <3>1. CASE t \in issued
      BY <1>1, <1>3, <2>5, <3>1 DEF ReqInv, Covers
    <3>2. CASE t \notin issued
      <4>1. t = new /\ new # None
        BY <1>1, <2>5, <3>2
      <4>2. Held(r, job[r].who, "update") /\ job[r].who = job[q].who
        BY <1>1, <2>5, <4>1, NewToken
      <4>3. Held(q, job[q].who, "nokey")
        BY <1>3, <2>5 DEF ReqInv, Holds, Past, Late
      <4> QED BY <4>2, <4>3, Excluded DEF Conflict
    <3> QED BY <3>1, <3>2
  <2> QED BY <2>1, <2>2, <2>4, <2>5 DEF Covers
<1> QED BY <1>4, <1>5, <1>6, <1>7 DEF ReqInv

\* A commit makes tokens, marks and the disabled user visible together.
LEMMA CommitIInv ==
    ASSUME IInv, NEW r \in Requests, Commit(r)
    PROVE  IInv'
<1> DEFINE new == fresh[r]
<1>1. /\ pc[r] = "commit" /\ ReqInv(r) /\ TypeOK /\ End(r)
      /\ todo[r] = {} /\ row[r] = None
      /\ issued' = issued \cup (IF new = None THEN {} ELSE {new})
      /\ new # None => new \in Tokens \ issued
      /\ \A t \in issued : family'[t] = family[t] /\ owner'[t] = owner[t]
      /\ new # None =>
            /\ family'[new] = IF job[r].op = "login" THEN new ELSE family[job[r].tok]
            /\ owner'[new] = job[r].who
      /\ used \subseteq used' /\ used' \subseteq used \cup {job[r].tok}
      /\ (used' # used => job[r].op = "rotate")
      /\ (job[r].op = "rotate" /\ new # None => job[r].tok \in used')
      /\ revoked' = revoked \cup Marked(r) /\ Marked(r) \subseteq issued
  BY CommitEffect
<1>2. /\ locks' \subseteq locks
      /\ pc' \in [Requests -> Steps] /\ job' \in [Requests -> Job]
      /\ fresh' \in [Requests -> Tokens \cup {None}]
      /\ todo' \in [Requests -> SUBSET Tokens] /\ row' \in [Requests -> Tokens \cup {None}]
      /\ FreshDistinct' /\ ReqInv(r)'
  BY <1>1, EndEffect DEF ReqInv
<1>3. \A q \in Requests : ReqInv(q)'
  BY <1>2, CommitBystander
<1>4. \A t \in issued : t \in Tokens /\ family[t] \in issued /\ owner[t] \in Users
  BY <1>1 DEF TypeOK
<1>5. new # None =>
         /\ family'[new] \in issued' /\ owner'[new] \in Users /\ owner'[new] \notin disabled
         /\ owner'[family'[new]] = owner'[new]
         /\ family'[new] \notin reused /\ family'[new] \notin closed
         /\ job[r].op = "rotate" => family'[new] = family[job[r].tok]
  <2>1. CASE job[r].op = "login"
    <3>1. new # None => new \notin reused /\ new \notin closed
      BY <1>1 DEF TypeOK
    <3> QED BY <1>1, <2>1, <3>1, NewToken
  <2>2. CASE job[r].op # "login"
    BY <1>1, <1>4, <2>2, NewToken
  <2> QED BY <2>1, <2>2
<1>6. job[r].op \in {"rotate", "logout"} => job[r].tok \in issued /\ family[job[r].tok] \in issued
  BY <1>1, <1>4 DEF ReqInv, Shape
<1>7. /\ disabled' = IF job[r].op = "disable" THEN disabled \cup {job[r].who} ELSE disabled
      /\ reused' = IF FoundReuse(r) THEN reused \cup {family[job[r].tok]} ELSE reused
      /\ closed' = IF job[r].op = "logout" /\ r \notin overtaken
                   THEN closed \cup {family[job[r].tok]} ELSE closed
      /\ overtaken' \subseteq overtaken \cup Missing(family[job[r].tok])
  BY DEF Commit, FoundReuse
<1>8. TypeOK'
  <2>1. issued' \subseteq Tokens /\ used' \subseteq issued' /\ revoked' \subseteq issued'
    BY <1>1, <1>6 DEF TypeOK
  <2>2. disabled' \subseteq Users
    BY <1>1, <1>7 DEF TypeOK, ReqInv, Shape
  <2>3. family' \in [Tokens -> Tokens \cup {None}] /\ owner' \in [Tokens -> Users \cup {None}]
    <3>1. /\ family' = [t \in Tokens |-> IF t = new THEN IF job[r].op = "login" THEN new ELSE family[job[r].tok]
                                         ELSE family[t]]
          /\ owner' = [t \in Tokens |-> IF t = new THEN job[r].who ELSE owner[t]]
      BY DEF Commit
    <3>2. \A t \in Tokens : t = new => /\ job[r].op = "login" \/ family[job[r].tok] \in Tokens
                                       /\ job[r].who \in Users
      BY <1>1, <1>4, NewToken, ConstantsAssumption
    <3> QED BY <1>1, <3>1, <3>2 DEF TypeOK
  <2>4. \A t \in issued' : family'[t] \in issued' /\ owner'[t] \in Users
    BY <1>1, <1>4, <1>5
  <2>5. locks' \subseteq [by : Requests, on : Users \cup Tokens \cup {Advisory}, mode : Modes]
    BY <1>1, <1>2 DEF TypeOK
  <2>6. overtaken' \subseteq Requests /\ closed' \subseteq issued' /\ reused' \subseteq issued'
    BY <1>1, <1>6, <1>7 DEF TypeOK, Missing, FoundReuse
  <2> QED BY <1>2, <2>1, <2>2, <2>3, <2>4, <2>5, <2>6 DEF TypeOK
<1>9. Exclusion' /\ TokenLocks'
  BY <1>1, <1>2 DEF IInv, Exclusion, TokenLocks
<1>10. FamilyOwner'
  BY <1>1, <1>4, <1>5 DEF IInv, FamilyOwner
<1>11. OneUnspent'
  <2> SUFFICES ASSUME NEW s \in issued', NEW t \in issued', Unspent(s)', Unspent(t)',
                      family'[s] = family'[t], s # t
               PROVE  FALSE
    BY DEF OneUnspent
  <2>1. \A x \in issued : Unspent(x)' => Unspent(x)
    BY <1>1 DEF Unspent
  <2>2. CASE s \in issued /\ t \in issued
    BY <1>1, <2>1, <2>2 DEF IInv, OneUnspent
  <2>3. ASSUME NEW x \in issued, Unspent(x)', new # None, family'[x] = family'[new]
        PROVE  FALSE
    <3>1. family[x] \in issued /\ Unspent(x) /\ family[x] = family'[new]
      BY <1>1, <1>4, <2>1, <2>3
    <3>2. job[r].op = "rotate"
      BY <1>1, <2>3, <3>1, NewToken
    <3>3. job[r].tok \in issued /\ Unspent(job[r].tok) /\ family[x] = family[job[r].tok]
      BY <1>1, <1>5, <2>3, <3>1, <3>2, NewToken
    <3>4. x = job[r].tok
      BY <3>1, <3>3 DEF IInv, OneUnspent
    <3> QED BY <1>1, <2>3, <3>2, <3>4 DEF Unspent
  <2> QED BY <1>1, <2>2, <2>3
<1>12. ReplayKillsFamily'
  <2> SUFFICES ASSUME NEW t \in issued', family'[t] \in reused' PROVE t \in revoked'
    BY DEF ReplayKillsFamily
  <2>1. CASE t \notin issued
    BY <1>1, <1>5, <1>7, <2>1 DEF FoundReuse
  <2>2. CASE t \in issued /\ family[t] \in reused
    BY <1>1, <2>2 DEF IInv, ReplayKillsFamily
  <2>3. CASE t \in issued /\ family[t] \notin reused
    <3>1. FoundReuse(r) /\ family[t] = family[job[r].tok]
      BY <1>1, <1>7, <2>3
    <3>2. Reach(r, t)
      BY <1>1, <2>3, <3>1 DEF ReqInv, Covers, Past, Late
    <3> QED BY <1>1, <1>4, <2>3, <3>2, ConstantsAssumption DEF Reach, Held, Marked
  <2> QED BY <2>1, <2>2, <2>3
<1>13. DisabledHasNoSession'
  <2> SUFFICES ASSUME NEW t \in issued', owner'[t] \in disabled' PROVE t \in revoked'
    BY DEF DisabledHasNoSession
  <2>1. CASE t \notin issued
    BY <1>1, <1>5, <1>7, <2>1, NewToken
  <2>2. CASE t \in issued /\ owner[t] \in disabled
    BY <1>1, <2>2 DEF IInv, DisabledHasNoSession
  <2>3. CASE t \in issued /\ owner[t] \notin disabled
    <3>1. job[r].op = "disable" /\ owner[t] = job[r].who
      BY <1>1, <1>7, <2>3
    <3>2. t \in revoked \/ Reach(r, t)
      BY <1>1, <2>3, <3>1 DEF ReqInv, Covers, Past, Late
    <3> QED BY <1>1, <1>4, <2>3, <3>2, ConstantsAssumption DEF Reach, Held, Marked
  <2> QED BY <2>1, <2>2, <2>3
<1>14. QuietLogoutFinal'
  <2> SUFFICES ASSUME NEW t \in issued', family'[t] \in closed' PROVE t \in revoked'
    BY DEF QuietLogoutFinal
  <2>1. CASE t \notin issued
    BY <1>1, <1>5, <1>7, <2>1, NewToken
  <2>2. CASE t \in issued /\ family[t] \in closed
    BY <1>1, <2>2 DEF IInv, QuietLogoutFinal
  <2>3. CASE t \in issued /\ family[t] \notin closed
    <3>1. job[r].op = "logout" /\ r \notin overtaken /\ family[t] = family[job[r].tok]
      BY <1>1, <1>7, <2>3
    <3>2. Reach(r, t)
      BY <1>1, <2>3, <3>1 DEF ReqInv, Covers, Past, Late
    <3> QED BY <1>1, <1>4, <2>3, <3>2, ConstantsAssumption DEF Reach, Held, Marked
  <2> QED BY <2>1, <2>2, <2>3
<1> QED BY <1>2, <1>3, <1>8, <1>9, <1>10, <1>11, <1>12, <1>13, <1>14 DEF IInv

-----------------------------------------------------------------------------
\* Every step preserves the invariant.
LEMMA NextIInv == IInv /\ [Next]_vars => IInv'
<1> SUFFICES ASSUME IInv, [Next]_vars PROVE IInv'
  OBVIOUS
<1>1. CASE UNCHANGED vars
  <2>1. /\ issued' = issued /\ family' = family /\ owner' = owner /\ used' = used
        /\ revoked' = revoked /\ disabled' = disabled /\ reused' = reused /\ locks' = locks
        /\ pc' = pc /\ job' = job /\ fresh' = fresh /\ todo' = todo /\ row' = row
        /\ overtaken' = overtaken /\ closed' = closed
    BY <1>1 DEF vars, store, local, history
  <2>2. TypeOK' /\ Exclusion' /\ TokenLocks' /\ FamilyOwner' /\ FreshDistinct'
    BY <2>1 DEF IInv, TypeOK, Exclusion, TokenLocks, FamilyOwner, FreshDistinct
  <2>3. OneUnspent' /\ ReplayKillsFamily' /\ DisabledHasNoSession' /\ QuietLogoutFinal'
    BY <2>1 DEF IInv, OneUnspent, Unspent, ReplayKillsFamily, DisabledHasNoSession, QuietLogoutFinal
  <2>4. \A r \in Requests : ReqInv(r)'
    BY <2>1 DEF IInv, ReqInv, Shape, Holds, Promise, Covers, Unspent, Reach, Held, FoundReuse
  <2> QED BY <2>2, <2>3, <2>4 DEF IInv
<1>2. ASSUME NEW r \in Requests, Start(r) PROVE IInv'
  BY <1>2, BeginLoginIInv, BeginRotateIInv, BeginLogoutIInv, BeginDisableIInv DEF Start
<1>3. ASSUME NEW r \in Requests, Locking(r) PROVE IInv'
  BY <1>3, LockUserIInv, LockTokenIInv, UpdateUserIInv, RevokeRowIInv, LockAuditIInv, InsertEntryIInv
     DEF Locking
<1>4. ASSUME NEW r \in Requests, Judging(r) PROVE IInv'
  BY <1>4, RefuseLoginIInv, AcceptLoginIInv, RotateIInv, DetectReuseIInv, SweepIInv DEF Judging
<1>5. ASSUME NEW r \in Requests, Commit(r) PROVE IInv'
  BY <1>5, CommitIInv
<1>6. ASSUME NEW r \in Requests, Abort(r) \/ DeadlockVictim(r) PROVE IInv'
  BY <1>6, RollbackIInv DEF Abort, DeadlockVictim
<1> QED BY <1>1, <1>2, <1>3, <1>4, <1>5, <1>6 DEF Next

-----------------------------------------------------------------------------
(* Who waits for whom.  A lock says how far its holder is (LockMeans), and *)
(* a login or rotation that waits for one of its kind is less far than the *)
(* other (WaitsUpwards): there is no way round.                            *)

LockMeans(l) ==
    /\ l.on = Advisory => pc[l.by] \in {"insert", "commit"}
    /\ l.on \in Users /\ l.mode = "update" =>
          job[l.by].op \in {"login", "rotate"} /\ pc[l.by] \in {"judge"} \cup Past
    /\ l.on \in Users /\ l.mode = "nokey" => job[l.by].op = "disable" /\ pc[l.by] # "updateUser"
    /\ l.on \in Users /\ l.mode = "keyshare" => pc[l.by] = "commit"
    /\ l.on \in Tokens => l.mode \in {"update", "nokey"}
    /\ l.on \in Tokens /\ l.mode = "update" =>
          job[l.by].op = "rotate" /\ pc[l.by] \notin {"idle", "lockToken"}
    /\ l.on \in Tokens /\ l.mode = "nokey" => Revokes(l.by) /\ pc[l.by] \in Past

LInv ==
    /\ \A l \in locks : LockMeans(l)
    /\ \A r \in Requests : job[r].op \in {"login", "rotate"} => job[r].actor = job[r].who

\* There are no locks at the start.
LEMMA InitLInv == Init => LInv
BY DEF Init, LInv, NoJob

\* Only those who do something hold locks.
LEMMA IdleFree ==
    ASSUME IInv, LInv, NEW r \in Requests, pc[r] = "idle"
    PROVE  \A l \in locks : l.by # r
<1> SUFFICES ASSUME NEW l \in locks, l.by = r PROVE FALSE
  OBVIOUS
<1>1. LockMeans(l) /\ Shape(r)
  BY DEF LInv, IInv, ReqInv
<1>2. l.on \in Users \cup Tokens \cup {Advisory} /\ l.mode \in {"update", "nokey", "keyshare"}
  BY DEF IInv, TypeOK, Modes
<1> QED BY <1>1, <1>2 DEF LockMeans, Shape, Past, Late

\* What is left to show of a step of r.
LEMMA StepLInv ==
    ASSUME IInv, LInv, NEW r \in Requests,
           \A q \in Requests : q # r => pc'[q] = pc[q] /\ job'[q] = job[q] /\ fresh'[q] = fresh[q],
           \A l \in locks' : l \in locks \/ l.by = r,
           \A l \in locks' : l.by = r => LockMeans(l)',
           job'[r].op \in {"login", "rotate"} => job'[r].actor = job'[r].who
    PROVE  LInv'
<1>1. ASSUME NEW l \in locks', l.by # r PROVE LockMeans(l)'
  <2>1. l \in locks /\ l.by \in Requests /\ LockMeans(l)
    BY <1>1 DEF IInv, LInv, TypeOK
  <2>2. pc'[l.by] = pc[l.by] /\ job'[l.by] = job[l.by] /\ fresh'[l.by] = fresh[l.by]
    BY <1>1, <2>1
  <2> QED BY <2>1, <2>2 DEF LockMeans, Revokes, FoundReuse
<1>2. \A q \in Requests : job'[q].op \in {"login", "rotate"} => job'[q].actor = job'[q].who
  BY DEF LInv
<1> QED BY <1>1, <1>2 DEF LInv

\* A request that begins has no locks.
LEMMA StartLInv ==
    ASSUME IInv, LInv, NEW r \in Requests, Start(r)
    PROVE  LInv'
<1>1. /\ pc[r] = "idle" /\ locks' = locks /\ fresh' = fresh
      /\ \A q \in Requests : q # r => pc'[q] = pc[q] /\ job'[q] = job[q]
      /\ job'[r].op \in {"login", "rotate"} => job'[r].actor = job'[r].who
  <2>1. CASE \E u \in Users : BeginLogin(r, u)
    BY <2>1 DEF BeginLogin, Take, IInv, TypeOK
  <2>2. CASE \E t \in Tokens : BeginRotate(r, t)
    BY <2>2 DEF BeginRotate, Take, IInv, TypeOK
  <2>3. CASE \E t \in Tokens : BeginLogout(r, t)
    BY <2>3 DEF BeginLogout, Take, NextRow, IInv, TypeOK
  <2>4. CASE \E a, u \in Users : BeginDisable(r, a, u)
    BY <2>4 DEF BeginDisable, Take, IInv, TypeOK
  <2> QED BY <2>1, <2>2, <2>3, <2>4 DEF Start
<1> QED BY <1>1, IdleFree, StepLInv

\* A request that ends, well or not, has given its locks up.
LEMMA EndLInv ==
    ASSUME IInv, LInv, NEW r \in Requests, End(r)
    PROVE  LInv'
<1>1. /\ locks' = Release(locks, r) /\ job'[r] = NoJob
      /\ \A q \in Requests : q # r => pc'[q] = pc[q] /\ job'[q] = job[q] /\ fresh'[q] = fresh[q]
  BY DEF End, IInv, TypeOK
<1>2. \A l \in locks' : l \in locks /\ l.by # r
  BY <1>1 DEF Release
<1> QED BY <1>1, <1>2, StepLInv DEF NoJob

\* A request goes on and keeps its locks.
LEMMA MoveLInv ==
    ASSUME IInv, LInv, NEW r \in Requests, NEW step \in Steps \ {"idle", "lockToken"},
           pc' = [pc EXCEPT ![r] = step], job' = job,
           pc[r] # "commit", pc[r] = "insert" => step = "commit",
           pc[r] = "updateUser" \/ step # "updateUser",
           pc[r] \in {"judge"} \cup Past => step \in Past,
           \A q \in Requests : q # r \/ pc[r] \in Past => fresh'[q] = fresh[q],
           \A l \in locks' : l \in locks \/ (l.by = r /\ LockMeans(l)')
    PROVE  LInv'
<1>1. pc'[r] = step /\ \A q \in Requests : q # r => pc'[q] = pc[q]
  BY DEF IInv, TypeOK
<1>2. ASSUME NEW l \in locks, l.by = r PROVE LockMeans(l)'
  <2>1. LockMeans(l)
    BY DEF LInv
  <2>2. step = "commit" => step \in Past
    BY DEF Past, Late
  <2>3. Revokes(r) /\ pc[r] \in Past => Revokes(r)'
    BY <1>1 DEF Revokes, FoundReuse, Past, Late
  <2> QED BY <1>1, <1>2, <2>1, <2>2, <2>3 DEF LockMeans
<1>3. job'[r].op \in {"login", "rotate"} => job'[r].actor = job'[r].who
  BY DEF LInv
<1> QED BY <1>1, <1>2, <1>3, StepLInv

\* A request goes on with one more lock, which means what it should.
LEMMA LockLInv ==
    ASSUME IInv, LInv, NEW r \in Requests, NEW x, NEW m, Lock(r, x, m),
           NEW step \in Steps \ {"idle", "lockToken", "updateUser"},
           pc' = [pc EXCEPT ![r] = step], job' = job, fresh' = fresh,
           pc[r] # "commit", pc[r] = "insert" => step = "commit",
           pc[r] \in {"judge"} \cup Past => step \in Past,
           LockMeans([by |-> r, on |-> x, mode |-> m])'
    PROVE  LInv'
<1>1. \A l \in locks' : l \in locks \/ l = [by |-> r, on |-> x, mode |-> m]
  BY DEF Lock, Grant
<1>2. \A l \in locks' : l \in locks \/ (l.by = r /\ LockMeans(l)')
  <2> SUFFICES ASSUME NEW l \in locks', l \notin locks PROVE l.by = r /\ LockMeans(l)'
    OBVIOUS
  <2>1. l = [by |-> r, on |-> x, mode |-> m]
    BY <1>1
  <2> QED BY <2>1
<1> QED BY <1>2, MoveLInv

\* Every statement that takes a lock takes one that fits how far it is.
LEMMA LockingLInv ==
    ASSUME IInv, LInv, NEW r \in Requests, Locking(r)
    PROVE  LInv'
<1>1. Shape(r) /\ job[r] \in Job
  BY DEF IInv, ReqInv, TypeOK
<1>2. CASE LockUser(r)
  <2>x. PICK x : x = job[r].who
    OBVIOUS
  <2>1. /\ pc[r] = "lockUser" /\ job' = job /\ fresh' = fresh /\ Lock(r, x, "update")
        /\ pc' = [pc EXCEPT ![r] = "judge"]
    BY <1>2, <2>x DEF LockUser, Goto, IInv
  <2>2. pc'[r] = "judge" /\ job[r].op \in {"login", "rotate"} /\ x \in Users
    BY <1>1, <1>2, <2>x, <2>1 DEF LockUser, IInv, TypeOK, Shape, Job, Ops, Past, Late
  <2>3. LockMeans([by |-> r, on |-> x, mode |-> "update"])'
    BY <2>1, <2>2, ConstantsAssumption DEF LockMeans, Past, Late
  <2> QED BY <2>1, <2>3, LockLInv DEF Steps, Past, Late
<1>3. CASE LockToken(r)
  <2>x. PICK x : x = job[r].tok
    OBVIOUS
  <2>1. /\ pc[r] = "lockToken" /\ job' = job /\ fresh' = fresh /\ Lock(r, x, "update")
        /\ pc' = [pc EXCEPT ![r] = "lockUser"]
    BY <1>3, <2>x DEF LockToken, Goto, IInv
  <2>2. pc'[r] = "lockUser" /\ job[r].op = "rotate" /\ x \in Tokens
    BY <1>1, <1>3, <2>x, <2>1 DEF LockToken, IInv, TypeOK, Shape, Job, Ops, Past, Late
  <2>3. LockMeans([by |-> r, on |-> x, mode |-> "update"])'
    BY <2>1, <2>2, ConstantsAssumption DEF LockMeans, Past, Late
  <2> QED BY <2>1, <2>3, LockLInv DEF Steps, Past, Late
<1>4. CASE UpdateUser(r)
  <2>x. PICK x : x = job[r].who
    OBVIOUS
  <2>1. /\ pc[r] = "updateUser" /\ job' = job /\ fresh' = fresh /\ Lock(r, x, "nokey")
        /\ pc' = [pc EXCEPT ![r] = "sweep"]
    BY <1>4, <2>x DEF UpdateUser, Goto, IInv
  <2>2. pc'[r] = "sweep" /\ job[r].op = "disable" /\ x \in Users
    BY <1>1, <1>4, <2>x, <2>1 DEF UpdateUser, IInv, TypeOK, Shape, Job, Ops, Past, Late
  <2>3. LockMeans([by |-> r, on |-> x, mode |-> "nokey"])'
    BY <2>1, <2>2, ConstantsAssumption DEF LockMeans, Past, Late
  <2> QED BY <2>1, <2>3, LockLInv DEF Steps, Past, Late
<1>5. CASE RevokeRow(r)
  <2>x. PICK x : x = row[r]
    OBVIOUS
  <2>1. PICK step \in {"revoke", "audit"} :
           /\ pc[r] = "revoke" /\ job' = job /\ fresh' = fresh /\ Lock(r, x, "nokey")
           /\ pc' = [pc EXCEPT ![r] = step]
    BY <1>5, <2>x DEF RevokeRow, NextRow
  <2>2. pc'[r] = step /\ x \in Tokens
    BY <1>1, <2>x, <2>1 DEF IInv, TypeOK, Shape
  <2>3. Revokes(r)'
    BY <1>1, <2>1, <2>2 DEF IInv, TypeOK, Shape, Job, Ops, Late, Revokes, FoundReuse
  <2>4. LockMeans([by |-> r, on |-> x, mode |-> "nokey"])'
    BY <2>2, <2>3, ConstantsAssumption DEF LockMeans, Past, Late
  <2> QED BY <2>1, <2>4, LockLInv DEF Steps, Past, Late
<1>6. CASE LockAudit(r)
  <2>x. PICK x : x = Advisory
    OBVIOUS
  <2>1. /\ pc[r] = "audit" /\ job' = job /\ fresh' = fresh /\ Lock(r, x, "update")
        /\ pc' = [pc EXCEPT ![r] = "insert"]
    BY <1>6, <2>x DEF LockAudit, Goto, IInv
  <2>2. pc'[r] = "insert" /\ x = Advisory
    BY <1>1, <1>6, <2>x, <2>1 DEF LockAudit, IInv, TypeOK, Shape, Job, Ops, Past, Late
  <2>3. LockMeans([by |-> r, on |-> x, mode |-> "update"])'
    BY <2>1, <2>2, ConstantsAssumption DEF LockMeans, Past, Late
  <2> QED BY <2>1, <2>3, LockLInv DEF Steps, Past, Late
<1>7. CASE InsertEntry(r)
  <2>x. PICK x : x = job[r].actor
    OBVIOUS
  <2>1. /\ pc[r] = "insert" /\ job' = job /\ fresh' = fresh /\ Lock(r, x, "keyshare")
        /\ pc' = [pc EXCEPT ![r] = "commit"]
    BY <1>7, <2>x DEF InsertEntry, Goto, IInv
  <2>2. pc'[r] = "commit" /\ x \in Users
    BY <1>1, <1>7, <2>x, <2>1 DEF InsertEntry, IInv, TypeOK, Shape, Job, Ops, Past, Late
  <2>3. LockMeans([by |-> r, on |-> x, mode |-> "keyshare"])'
    BY <2>1, <2>2, ConstantsAssumption DEF LockMeans, Past, Late
  <2> QED BY <2>1, <2>3, LockLInv DEF Steps, Past, Late
<1> QED BY <1>2, <1>3, <1>4, <1>5, <1>6, <1>7 DEF Locking

\* Judging takes no lock.
LEMMA JudgingLInv ==
    ASSUME IInv, LInv, NEW r \in Requests, Judging(r)
    PROVE  LInv'
<1>1. /\ pc[r] \in {"judge", "sweep"} /\ locks' = locks /\ job' = job
      /\ \A q \in Requests : q # r => fresh'[q] = fresh[q]
      /\ \E step \in {"revoke", "audit"} : pc' = [pc EXCEPT ![r] = step]
  <2>1. CASE RefuseLogin(r)
    BY <2>1 DEF RefuseLogin, Goto
  <2>2. CASE AcceptLogin(r)
    BY <2>2 DEF AcceptLogin, InsertToken, Goto, IInv, TypeOK
  <2>3. CASE Rotate(r)
    BY <2>3 DEF Rotate, InsertToken, Goto, IInv, TypeOK
  <2>4. CASE Sweep(r)
    BY <2>4 DEF Sweep, NextRow
  <2>5. CASE \E isExpired \in BOOLEAN : DetectReuse(r, isExpired)
    BY <2>5 DEF DetectReuse, NextRow
  <2> QED BY <2>1, <2>2, <2>3, <2>4, <2>5 DEF Judging
<1> QED BY <1>1, MoveLInv DEF Steps, Past, Late

\* Every step keeps what the locks mean.
LEMMA NextLInv == IInv /\ LInv /\ [Next]_vars => LInv'
<1> SUFFICES ASSUME IInv, LInv, [Next]_vars PROVE LInv'
  OBVIOUS
<1>1. CASE UNCHANGED vars
  BY <1>1 DEF vars, local, LInv, LockMeans, Revokes, FoundReuse
<1>2. ASSUME NEW r \in Requests, Commit(r) \/ Abort(r) \/ DeadlockVictim(r) PROVE LInv'
  <2>1. End(r)
    BY <1>2 DEF Commit, Abort, DeadlockVictim, Rollback
  <2> QED BY <2>1, EndLInv
<1> QED BY <1>1, <1>2, StartLInv, LockingLInv, JudgingLInv DEF Next

\* How far a login or rotation is that waits.
Stage(r) ==
    CASE pc[r] = "lockToken" -> 0
      [] pc[r] = "lockUser"  -> 1
      [] pc[r] = "audit"     -> 2
      [] OTHER               -> 3

\* What a login or rotation that waits is waiting at.
LEMMA WaitingAt ==
    ASSUME IInv, NEW r \in Requests, ~Revokes(r), WaitsOn(r) # {}
    PROVE  /\ job[r].op \in {"login", "rotate"}
           /\ pc[r] \in {"lockToken", "lockUser", "audit", "insert"}
           /\ pc[r] = "lockToken" => job[r].op = "rotate"
<1>1. pc[r] \in {"lockUser", "lockToken", "updateUser", "revoke", "audit", "insert"}
  BY DEF WaitsOn
<1>2. Shape(r) /\ job[r].op \in Ops \cup {"none"}
  BY DEF IInv, ReqInv, TypeOK, Job
<1> QED BY <1>1, <1>2 DEF Shape, Revokes, FoundReuse, Ops, Past, Late

\* Of two logins or rotations that wait, the one waited for is further.
LEMMA WaitsUpwards ==
    ASSUME IInv, LInv, NEW q \in Requests, NEW p \in Requests, ~Revokes(q), ~Revokes(p),
           p \in WaitsOn(q), WaitsOn(p) # {}
    PROVE  Stage(q) < Stage(p)
<1>1. /\ job[q].op \in {"login", "rotate"} /\ job[p].op \in {"login", "rotate"}
      /\ pc[q] \in {"lockToken", "lockUser", "audit", "insert"}
      /\ pc[p] \in {"lockToken", "lockUser", "audit", "insert"}
      /\ pc[q] = "lockToken" => job[q].op = "rotate"
  BY WaitingAt
<1>2. Shape(q) /\ Holds(q)
  BY DEF IInv, ReqInv
<1>3. \A x, m : p \in Blockers(locks, q, x, m) =>
         \E l \in locks : l.on = x /\ l.by = p /\ p # q /\ Conflict(l.mode, m) /\ LockMeans(l)
  BY DEF Blockers, LInv
<1>4. \A l \in locks : l.mode \in {"update", "nokey", "keyshare"}
  BY DEF IInv, TypeOK, Modes
<1>5. CASE pc[q] = "lockToken"
  <2>1. p \in Blockers(locks, q, job[q].tok, "update") /\ job[q].tok \in Tokens
    BY <1>1, <1>2, <1>5 DEF WaitsOn, Shape, IInv, TypeOK
  <2>2. pc[p] # "lockToken"
    BY <1>1, <1>3, <1>4, <2>1 DEF LockMeans
  <2> QED BY <1>1, <1>5, <2>2 DEF Stage
<1>6. CASE pc[q] = "lockUser"
  <2>1. p \in Blockers(locks, q, job[q].who, "update") /\ job[q].who \in Users
    BY <1>1, <1>2, <1>6 DEF WaitsOn, Shape
  <2>2. pc[p] \in {"judge"} \cup Past
    BY <1>1, <1>3, <1>4, <2>1 DEF LockMeans, Past, Late
  <2> QED BY <1>1, <1>6, <2>2 DEF Stage, Past, Late
<1>7. CASE pc[q] = "audit"
  <2>1. p \in Blockers(locks, q, Advisory, "update")
    BY <1>7 DEF WaitsOn
  <2>2. pc[p] = "insert"
    BY <1>1, <1>3, <2>1 DEF LockMeans
  <2> QED BY <1>7, <2>2 DEF Stage
<1>8. CASE pc[q] = "insert"
  <2>1. p \in Blockers(locks, q, job[q].actor, "keyshare") /\ job[q].actor = job[q].who
    BY <1>1, <1>8 DEF WaitsOn, LInv
  <2>2. Held(q, job[q].who, "update")
    BY <1>1, <1>2, <1>8 DEF Holds
  <2>3. PICK l \in locks : l.on = job[q].who /\ l.by = p /\ p # q /\ Conflict(l.mode, "keyshare")
    BY <1>3, <2>1
  <2>4. Conflict([by |-> q, on |-> job[q].who, mode |-> "update"].mode, l.mode)
    BY DEF Conflict
  <2>5. q = p
    BY <2>2, <2>3, <2>4 DEF IInv, Exclusion, Held
  <2> QED BY <2>3, <2>5
<1> QED BY <1>1, <1>5, <1>6, <1>7, <1>8

\* There is no cycle where every wait leads further, since there are four
\* stages: nobody on it is at the last, so nobody at the last but one, and so
\* on down.
LEMMA NoCycle == IInv /\ LInv => OnlyRevokersDeadlock
<1> DEFINE waits == [q \in Requests |-> IF Revokes(q) THEN {} ELSE WaitsOn(q)]
<1> SUFFICES ASSUME IInv, LInv, NEW r \in Requests, OnCycle(waits, r) PROVE FALSE
  BY DEF OnlyRevokersDeadlock
<1>1. PICK n \in 1 .. Cardinality(DOMAIN waits) :
         \E path \in [0 .. n -> DOMAIN waits] :
            /\ path[0] = r /\ path[n] = r
            /\ \A i \in 1 .. n : path[i] \in waits[path[i - 1]]
  BY DEF OnCycle
<1>2. PICK path \in [0 .. n -> Requests] :
            /\ path[0] = r /\ path[n] = r
            /\ \A i \in 1 .. n : path[i] \in waits[path[i - 1]]
  BY <1>1
<1>3. n \in Nat /\ n >= 1
  BY <1>1
<1>4. \A i \in 1 .. n : /\ path[i] \in Requests /\ path[i - 1] \in Requests
                        /\ ~Revokes(path[i - 1]) /\ path[i] \in WaitsOn(path[i - 1])
  BY <1>2, <1>3
<1>5. ASSUME NEW i \in 0 .. n PROVE ~Revokes(path[i]) /\ WaitsOn(path[i]) # {}
  <2>1. CASE i < n
    <3>1. i + 1 \in 1 .. n /\ (i + 1) - 1 = i
      BY <1>3, <2>1
    <3> QED BY <1>4, <3>1
  <2>2. CASE i = n
    <3>1. 1 \in 1 .. n /\ path[i] = path[1 - 1]
      BY <1>2, <1>3, <2>2
    <3> QED BY <1>4, <3>1
  <2> QED BY <1>3, <2>1, <2>2
<1>6. \A i \in 1 .. n : Stage(path[i - 1]) < Stage(path[i])
  <2> SUFFICES ASSUME NEW i \in 1 .. n PROVE Stage(path[i - 1]) < Stage(path[i])
    OBVIOUS
  <2>1. i \in 0 .. n /\ i - 1 \in 0 .. n
    BY <1>3
  <2> QED BY <1>4, <1>5, <2>1, WaitsUpwards
<1>7. ASSUME NEW i \in 0 .. n PROVE \E k \in 0 .. n : Stage(path[i]) < Stage(path[k])
  <2>1. CASE i < n
    <3>1. i + 1 \in 1 .. n /\ (i + 1) - 1 = i /\ i + 1 \in 0 .. n
      BY <1>3, <2>1
    <3> QED BY <1>6, <3>1
  <2>2. CASE i = n
    <3>1. 1 \in 1 .. n /\ path[i] = path[1 - 1] /\ 1 \in 0 .. n
      BY <1>2, <1>3, <2>2
    <3> QED BY <1>6, <3>1
  <2> QED BY <1>3, <2>1, <2>2
<1>8. \A i \in 0 .. n : Stage(path[i]) \in 0 .. 3
  BY DEF Stage
<1>9. ASSUME NEW i \in 0 .. n PROVE Stage(path[i]) \in 0 .. 2
  <2>1. PICK k \in 0 .. n : Stage(path[i]) < Stage(path[k])
    BY <1>7
  <2>2. Stage(path[i]) \in 0 .. 3 /\ Stage(path[k]) \in 0 .. 3
    BY <1>8
  <2> QED BY <2>1, <2>2
<1>10. ASSUME NEW i \in 0 .. n PROVE Stage(path[i]) \in 0 .. 1
  <2>1. PICK k \in 0 .. n : Stage(path[i]) < Stage(path[k])
    BY <1>7
  <2>2. Stage(path[i]) \in 0 .. 2 /\ Stage(path[k]) \in 0 .. 2
    BY <1>9
  <2> QED BY <2>1, <2>2
<1>11. ASSUME NEW i \in 0 .. n PROVE Stage(path[i]) = 0
  <2>1. PICK k \in 0 .. n : Stage(path[i]) < Stage(path[k])
    BY <1>7
  <2>2. Stage(path[i]) \in 0 .. 1 /\ Stage(path[k]) \in 0 .. 1
    BY <1>10
  <2> QED BY <2>1, <2>2
<1>12. 0 \in 0 .. n
  BY <1>3
<1>13. PICK k \in 0 .. n : Stage(path[0]) < Stage(path[k])
  BY <1>7, <1>12
<1>14. Stage(path[0]) = 0 /\ Stage(path[k]) = 0
  BY <1>11, <1>12
<1> QED BY <1>13, <1>14

-----------------------------------------------------------------------------
\* The strengthened invariant holds in every reachable state: it holds at the
\* start and no step of a handler, commit, rollback or deadlock breaks it.
THEOREM Invariance == Spec => []IInv
BY InitIInv, NextIInv, PTL DEF Spec

\* The variables keep their types in every interleaving of the handlers.
THEOREM TypeCorrect == Spec => []TypeOK
<1>1. IInv => TypeOK
  BY DEF IInv
<1> QED BY <1>1, Invariance, PTL

\* No two tokens of a family can be exchanged at the same time, however many
\* rotations, replays, logouts and failures there are.
THEOREM SingleToken == Spec => []OneUnspent
<1>1. IInv => OneUnspent
  BY DEF IInv
<1> QED BY <1>1, Invariance, PTL

\* A recorded replay has revoked the family, now and for ever.
THEOREM ReplayIsFinal == Spec => []ReplayKillsFamily
<1>1. IInv => ReplayKillsFamily
  BY DEF IInv
<1> QED BY <1>1, Invariance, PTL

\* A disabled user has no refresh token that is not revoked.
THEOREM DisabledIsFinal == Spec => []DisabledHasNoSession
<1>1. IInv => DisabledHasNoSession
  BY DEF IInv
<1> QED BY <1>1, Invariance, PTL

\* A logout that no rotation overtook has ended its family.
THEOREM LogoutIsFinal == Spec => []QuietLogoutFinal
<1>1. IInv => QuietLogoutFinal
  BY DEF IInv
<1> QED BY <1>1, Invariance, PTL

\* However many logins and rotations run, none of them are ever on a cycle of
\* waits of their own: a deadlock takes a logout, a disabling or a replay.
THEOREM NoCircleOfRotations == Spec => []OnlyRevokersDeadlock
<1>1. IInv /\ LInv /\ [Next]_vars => LInv'
  BY NextLInv
<1>2. Init => LInv
  BY InitLInv
<1>3. IInv /\ LInv => OnlyRevokersDeadlock
  BY NoCycle
<1> QED BY <1>1, <1>2, <1>3, Invariance, PTL DEF Spec
=============================================================================
