-------------------------- MODULE LoginLockoutProofs --------------------------
(* Theorems about LoginLockout, for every set of accounts and codes, any   *)
(* number of logins at once and every threshold and hold.                  *)
(*                                                                         *)
(* The argument: a login judges an account while it holds the row, so what *)
(* it has seen is still what is there (SeenIsRow).  The time it judges by  *)
(* may be long past, but never lies ahead (ClockRead); hence a failure     *)
(* that counts finds the old lock over at a time not after now, and sets   *)
(* the new one at least a Hold further on.  So the end of the lock walks   *)
(* ahead of the failures by a Hold each (LockPaces), and since it is never *)
(* more than a Hold ahead of the clock, the clock bounds the failures.     *)
(* The counter counts every wrong guess (Counted), so it bounds those too. *)
EXTENDS LoginLockout, TLAPS

\* A login under way is of a known user.
Trying == \A l \in Logins : pc[l] # "idle" => try[l].who \in Users

\* What the holder of a row has read of it is what it is.
SeenIsRow == \A l \in Logins : pc[l] = "judge" => seen[l] = Row(try[l].who)

\* The row of an account has one holder.
OneJudge ==
    \A l, m \in Logins :
        pc[l] = "judge" /\ pc[m] = "judge" /\ try[l].who = try[m].who => l = m

\* The time a login judges by is not in the future.
ClockRead == \A l \in Logins : now[l] <= clock

\* The counter has lost none of the wrong guesses.
Counted == failed = guesses

\* Once the threshold is reached every failure has moved the lock by a Hold.
LockPaces ==
    \A u \in Users :
        /\ lockedUntil[u] <= clock + Hold
        /\ failed[u] >= Threshold => lockedUntil[u] >= Hold * (failed[u] - Threshold + 1)

\* A code that has opened a session is no longer among the account's codes.
SpentCodes ==
    \A u \in Users : \A c \in Codes :
        opened[u][c] <= 1 /\ (c \in codes[u] => opened[u][c] = 0)

IInv == TypeOK /\ Trying /\ SeenIsRow /\ OneJudge /\ ClockRead /\ LockPaces /\ SpentCodes /\ Counted

-----------------------------------------------------------------------------
\* A multiple of h not above x counts no more than x divided by h.
LEMMA DivBound ==
    ASSUME NEW x \in Nat, NEW h \in Nat \ {0}, NEW k \in Int, h * k <= x
    PROVE  k <= x \div h
OBVIOUS

\* One more failure, one more Hold.
LEMMA OneHoldMore ==
    ASSUME NEW h \in Nat \ {0}, NEW k \in Int
    PROVE  h * (k + 1) = h * k + h
OBVIOUS

\* The initial state satisfies the invariant.
LEMMA InitIInv == Init => IInv
<1> SUFFICES ASSUME Init PROVE IInv
  OBVIOUS
<1> USE LockoutAssumption DEF Init
<1>1. NoTry \in [who : Users \cup {None}, password : BOOLEAN, factor : Factors]
  BY DEF NoTry, Factors
<1>2. Unseen \in [locked : 0 .. LastTick + Hold, disabled : BOOLEAN, codes : SUBSET Codes]
  BY DEF Unseen
<1>3. TypeOK
  BY <1>1, <1>2 DEF TypeOK
<1>4. Trying /\ SeenIsRow /\ OneJudge /\ ClockRead /\ SpentCodes
  BY DEF Trying, SeenIsRow, OneJudge, ClockRead, SpentCodes
<1>5. LockPaces /\ Counted
  BY DEF LockPaces, Counted
<1> QED BY <1>3, <1>4, <1>5 DEF IInv

-----------------------------------------------------------------------------
(* A login that takes the row, and one that lets it go.                    *)

\* A login reads the clock before it waits.
LEMMA BeginIInv ==
    ASSUME IInv, NEW l \in Logins, NEW t \in Tries, Begin(l, t)
    PROVE  IInv'
<1> USE LockoutAssumption
<1>1. /\ pc[l] = "idle" /\ pc' = [pc EXCEPT ![l] = "lockUser"]
      /\ try' = [try EXCEPT ![l] = t] /\ now' = [now EXCEPT ![l] = clock]
      /\ clock' = clock /\ failed' = failed /\ lockedUntil' = lockedUntil /\ codes' = codes
      /\ disabled' = disabled /\ seen' = seen /\ opened' = opened /\ guesses' = guesses
  BY DEF Begin, account, history
<1>2. t \in [who : Users \cup {None}, password : BOOLEAN, factor : Factors] /\ t.who \in Users
  BY DEF Tries
<1>3. TypeOK'
  BY <1>1, <1>2 DEF IInv, TypeOK
<1>4. /\ pc'[l] = "lockUser" /\ try'[l] = t /\ now'[l] = clock
      /\ \A m \in Logins : m # l => pc'[m] = pc[m] /\ try'[m] = try[m] /\ now'[m] = now[m]
  BY <1>1 DEF IInv, TypeOK
<1>5. Trying' /\ SeenIsRow' /\ OneJudge'
  BY <1>1, <1>2, <1>4 DEF IInv, Trying, SeenIsRow, OneJudge, Row
<1>6. ClockRead'
  BY <1>1, <1>4 DEF IInv, ClockRead, TypeOK
<1>7. LockPaces' /\ SpentCodes' /\ Counted'
  BY <1>1 DEF IInv, LockPaces, SpentCodes, Counted
<1> QED BY <1>3, <1>5, <1>6, <1>7 DEF IInv

\* A login that is granted the row reads it and is its only holder.
LEMMA LockUserIInv ==
    ASSUME IInv, NEW l \in Logins, LockUser(l)
    PROVE  IInv'
<1>1. /\ pc[l] = "lockUser" /\ ~Held(try[l].who) /\ pc' = [pc EXCEPT ![l] = "judge"]
      /\ seen' = [seen EXCEPT ![l] = Row(try[l].who)]
      /\ clock' = clock /\ failed' = failed /\ lockedUntil' = lockedUntil /\ codes' = codes
      /\ disabled' = disabled /\ try' = try /\ now' = now /\ opened' = opened /\ guesses' = guesses
  BY DEF LockUser, account, history
<1>2. try[l].who \in Users
  BY <1>1 DEF IInv, Trying
<1>3. Row(try[l].who) \in [locked : 0 .. LastTick + Hold, disabled : BOOLEAN, codes : SUBSET Codes]
  BY <1>2 DEF IInv, TypeOK, Row
<1>4. TypeOK'
  BY <1>1, <1>3 DEF IInv, TypeOK
<1>5. /\ pc'[l] = "judge" /\ seen'[l] = Row(try[l].who)
      /\ \A m \in Logins : m # l => pc'[m] = pc[m] /\ seen'[m] = seen[m]
  BY <1>1 DEF IInv, TypeOK
<1>6. Trying'
  BY <1>1, <1>2, <1>5 DEF IInv, Trying
<1>7. SeenIsRow'
  BY <1>1, <1>5 DEF IInv, SeenIsRow, Row
<1>8. OneJudge'
  BY <1>1, <1>5 DEF IInv, OneJudge, Held
<1>9. ClockRead' /\ LockPaces' /\ SpentCodes' /\ Counted'
  BY <1>1 DEF IInv, ClockRead, LockPaces, SpentCodes, Counted
<1> QED BY <1>4, <1>6, <1>7, <1>8, <1>9 DEF IInv

\* The fields of a row.
LEMMA RowFields ==
    ASSUME NEW u
    PROVE  /\ Row(u).locked = lockedUntil[u] /\ Row(u).codes = codes[u]
           /\ Row(u).disabled <=> u \in disabled
<1>1. Row(u).locked = lockedUntil[u] /\ Row(u).codes = codes[u]
  BY Zenon DEF Row
<1>2. Row(u).disabled <=> u \in disabled
  BY Zenon DEF Row
<1> QED BY <1>1, <1>2

\* What a login has in hand when it judges.
LEMMA Judging ==
    ASSUME IInv, NEW l \in Logins, pc[l] = "judge"
    PROVE  /\ try[l].who \in Users
           /\ seen[l] = Row(try[l].who)
           /\ ~Unavailable(l) =>
                 try[l].who \notin disabled /\ lockedUntil[try[l].who] <= now[l]
           /\ now[l] \in Nat /\ now[l] <= clock
<1>1. try[l].who \in Users /\ seen[l] = Row(try[l].who)
  BY DEF IInv, Trying, SeenIsRow
<1>2. now[l] \in Nat /\ now[l] <= clock /\ lockedUntil[try[l].who] \in Int
  BY <1>1, LockoutAssumption DEF IInv, TypeOK, ClockRead
<1>3. ~Unavailable(l) => try[l].who \notin disabled /\ ~(lockedUntil[try[l].who] > now[l])
  BY <1>1, RowFields DEF Unavailable
<1>4. ~Unavailable(l) => try[l].who \notin disabled /\ lockedUntil[try[l].who] <= now[l]
  BY <1>2, <1>3
<1> QED BY <1>1, <1>2, <1>4

\* A login that ends leaves the others as they were.
LEMMA EndEffect ==
    ASSUME IInv, NEW l \in Logins, End(l)
    PROVE  /\ pc' \in [Logins -> {"idle", "lockUser", "judge"}]
           /\ try' \in [Logins -> [who : Users \cup {None}, password : BOOLEAN, factor : Factors]]
           /\ now' \in [Logins -> 0 .. LastTick]
           /\ seen' \in [Logins -> [locked : 0 .. LastTick + Hold, disabled : BOOLEAN,
                                    codes : SUBSET Codes]]
           /\ pc'[l] = "idle" /\ now'[l] = 0
           /\ \A m \in Logins : m # l =>
                 pc'[m] = pc[m] /\ try'[m] = try[m] /\ now'[m] = now[m] /\ seen'[m] = seen[m]
<1>1. NoTry \in [who : Users \cup {None}, password : BOOLEAN, factor : Factors]
  BY DEF NoTry, Factors
<1>2. Unseen \in [locked : 0 .. LastTick + Hold, disabled : BOOLEAN, codes : SUBSET Codes]
  BY LockoutAssumption DEF Unseen
<1>3. 0 \in 0 .. LastTick
  BY LockoutAssumption
<1> QED BY <1>1, <1>2, <1>3 DEF End, IInv, TypeOK

\* What is left to show when login l ends having written at most the row of
\* its own user, which it held.
LEMMA EndStep ==
    ASSUME IInv, NEW l \in Logins, End(l), clock' = clock, disabled' = disabled,
           failed' \in [Users -> Nat], lockedUntil' \in [Users -> 0 .. LastTick + Hold],
           codes' \in [Users -> SUBSET Codes], opened' \in [Users -> [Codes -> Nat]],
           guesses' \in [Users -> Nat],
           \A u \in Users : pc[l] # "judge" \/ u # try[l].who =>
              lockedUntil'[u] = lockedUntil[u] /\ codes'[u] = codes[u],
           LockPaces', SpentCodes', Counted'
    PROVE  IInv'
<1>1. /\ pc' \in [Logins -> {"idle", "lockUser", "judge"}]
      /\ try' \in [Logins -> [who : Users \cup {None}, password : BOOLEAN, factor : Factors]]
      /\ now' \in [Logins -> 0 .. LastTick]
      /\ seen' \in [Logins -> [locked : 0 .. LastTick + Hold, disabled : BOOLEAN, codes : SUBSET Codes]]
      /\ pc'[l] = "idle" /\ now'[l] = 0
      /\ \A m \in Logins : m # l =>
            pc'[m] = pc[m] /\ try'[m] = try[m] /\ now'[m] = now[m] /\ seen'[m] = seen[m]
  BY EndEffect
<1>2. TypeOK'
  BY <1>1 DEF IInv, TypeOK
<1>3. Trying' /\ OneJudge'
  <2>1. Trying'
    BY <1>1 DEF IInv, Trying
  <2>2. OneJudge'
    BY <1>1 DEF IInv, OneJudge
  <2> QED BY <2>1, <2>2
<1>4. SeenIsRow'
  <2> SUFFICES ASSUME NEW m \in Logins, pc'[m] = "judge"
               PROVE  (seen[m] = Row(try[m].who))'
    BY DEF SeenIsRow
  <2>1. m # l /\ pc[m] = "judge" /\ try'[m] = try[m] /\ seen'[m] = seen[m]
    BY <1>1
  <2>2. try[m].who \in Users /\ seen[m] = Row(try[m].who)
    BY <2>1, Judging
  <2>3. pc[l] # "judge" \/ try[m].who # try[l].who
    BY <2>1 DEF IInv, OneJudge
  <2> QED BY <2>1, <2>2, <2>3 DEF Row
<1>5. ClockRead'
  <2> SUFFICES ASSUME NEW m \in Logins PROVE now'[m] <= clock'
    BY DEF ClockRead
  <2>1. clock \in 0 .. LastTick /\ now[m] <= clock
    BY DEF IInv, TypeOK, ClockRead
  <2>2. now'[m] = 0 \/ now'[m] = now[m]
    BY <1>1
  <2> QED BY <2>1, <2>2, LockoutAssumption
<1> QED BY <1>2, <1>3, <1>4, <1>5 DEF IInv

\* A denied login and an aborted one write nothing.
LEMMA NothingWritten ==
    ASSUME IInv, NEW l \in Logins, Deny(l) \/ Abort(l)
    PROVE  IInv'
<1>1. /\ End(l) /\ clock' = clock /\ failed' = failed /\ lockedUntil' = lockedUntil
      /\ codes' = codes /\ disabled' = disabled /\ opened' = opened /\ guesses' = guesses
  BY DEF Deny, Abort, account, history
<1>2. LockPaces' /\ SpentCodes' /\ Counted'
  BY <1>1 DEF IInv, LockPaces, SpentCodes, Counted
<1> QED BY <1>1, <1>2, EndStep DEF IInv, TypeOK

-----------------------------------------------------------------------------
(* The two outcomes of a judgement.                                        *)

\* A failure is one more, and the lock is a Hold further on.
LEMMA FailIInv ==
    ASSUME IInv, NEW l \in Logins, Fail(l)
    PROVE  IInv'
<1> USE LockoutAssumption
<1>u. PICK u : u = try[l].who
  OBVIOUS
<1>1. /\ pc[l] = "judge" /\ ~Unavailable(l) /\ End(l)
      /\ failed' = [failed EXCEPT ![u] = failed[u] + 1]
      /\ lockedUntil' = [lockedUntil EXCEPT ![u] = IF failed[u] + 1 >= Threshold THEN now[l] + Hold
                                                   ELSE lockedUntil[u]]
      /\ clock' = clock /\ codes' = codes /\ disabled' = disabled /\ opened' = opened
      /\ guesses' = [guesses EXCEPT ![u] = guesses[u] + 1]
  BY <1>u DEF Fail
<1>2. /\ u \in Users /\ lockedUntil[u] <= now[l] /\ now[l] \in 0 .. LastTick /\ now[l] <= clock
      /\ clock \in Nat /\ lockedUntil[u] \in 0 .. LastTick + Hold /\ failed[u] \in Nat
  BY <1>u, <1>1, Judging DEF IInv, TypeOK
<1>3. /\ failed' \in [Users -> Nat] /\ lockedUntil' \in [Users -> 0 .. LastTick + Hold]
      /\ failed'[u] = failed[u] + 1
      /\ lockedUntil'[u] = IF failed[u] + 1 >= Threshold THEN now[l] + Hold ELSE lockedUntil[u]
      /\ \A v \in Users : v # u => failed'[v] = failed[v] /\ lockedUntil'[v] = lockedUntil[v]
  BY <1>1, <1>2 DEF IInv, TypeOK
<1>4. lockedUntil'[u] <= clock + Hold
  BY <1>2, <1>3 DEF IInv, LockPaces
<1>5. ASSUME failed'[u] >= Threshold
      PROVE  lockedUntil'[u] >= Hold * (failed'[u] - Threshold + 1)
  <2>1. lockedUntil'[u] = now[l] + Hold
    BY <1>2, <1>3, <1>5
  <2>2. CASE failed[u] >= Threshold
    <3>1. lockedUntil[u] >= Hold * (failed[u] - Threshold + 1)
      BY <1>2, <2>2 DEF IInv, LockPaces
    <3>2. Hold * ((failed[u] - Threshold + 1) + 1) = Hold * (failed[u] - Threshold + 1) + Hold
      BY <1>2, OneHoldMore
    <3>3. failed'[u] - Threshold + 1 = (failed[u] - Threshold + 1) + 1
      BY <1>2, <1>3
    <3>4. Hold * (failed[u] - Threshold + 1) \in Int
      BY <1>2
    <3> QED BY <1>2, <2>1, <3>1, <3>2, <3>3, <3>4
  <2>3. CASE failed[u] < Threshold
    <3>1. failed'[u] - Threshold + 1 = 1
      BY <1>2, <1>3, <1>5, <2>3
    <3> QED BY <1>2, <2>1, <3>1
  <2> QED BY <1>2, <2>2, <2>3
<1>6. LockPaces'
  BY <1>1, <1>3, <1>4, <1>5 DEF IInv, LockPaces
<1>7. SpentCodes'
  BY <1>1 DEF IInv, SpentCodes
<1>8. Counted' /\ guesses' \in [Users -> Nat]
  BY <1>1, <1>3 DEF IInv, Counted
<1> QED BY <1>u, <1>1, <1>3, <1>6, <1>7, <1>8, EndStep DEF IInv, TypeOK

\* A success clears the counter and the lock, and spends the code it used.
LEMMA SucceedIInv ==
    ASSUME IInv, NEW l \in Logins, Succeed(l)
    PROVE  IInv'
<1> USE LockoutAssumption
<1>u. PICK u : u = try[l].who
  OBVIOUS
<1>c. PICK c : c = try[l].factor
  OBVIOUS
<1>1. /\ pc[l] = "judge" /\ End(l)
      /\ failed' = [failed EXCEPT ![u] = 0] /\ lockedUntil' = [lockedUntil EXCEPT ![u] = 0]
      /\ codes' = IF Recovers(l) THEN [codes EXCEPT ![u] = seen[l].codes \ {c}] ELSE codes
      /\ opened' = IF Recovers(l) THEN [opened EXCEPT ![u][c] = opened[u][c] + 1] ELSE opened
      /\ clock' = clock /\ disabled' = disabled /\ guesses' = [guesses EXCEPT ![u] = 0]
  BY <1>u, <1>c DEF Succeed
<1>2. u \in Users /\ seen[l].codes = codes[u] /\ TypeOK
  BY <1>u, <1>1, Judging, RowFields DEF IInv
<1>3. Recovers(l) => c \in codes[u] /\ c \in Codes
  BY <1>c, <1>2 DEF Recovers, TypeOK
<1>4. /\ failed' \in [Users -> Nat] /\ lockedUntil' \in [Users -> 0 .. LastTick + Hold]
      /\ failed'[u] = 0 /\ lockedUntil'[u] = 0
      /\ \A v \in Users : v # u => failed'[v] = failed[v] /\ lockedUntil'[v] = lockedUntil[v]
  BY <1>1, <1>2 DEF TypeOK
<1>5. /\ codes' \in [Users -> SUBSET Codes]
      /\ \A v \in Users : v # u => codes'[v] = codes[v]
      /\ codes'[u] = IF Recovers(l) THEN codes[u] \ {c} ELSE codes[u]
  BY <1>1, <1>2 DEF TypeOK
<1>6. /\ opened' \in [Users -> [Codes -> Nat]]
      /\ \A v \in Users : v # u => opened'[v] = opened[v]
      /\ \A d \in Codes : opened'[u][d] = IF Recovers(l) /\ d = c THEN opened[u][c] + 1 ELSE opened[u][d]
  BY <1>1, <1>2, <1>3 DEF TypeOK
<1>7. LockPaces'
  <2>1. clock \in Nat
    BY <1>2 DEF TypeOK
  <2> QED BY <1>1, <1>4, <2>1 DEF IInv, LockPaces
<1>8. SpentCodes'
  <2> SUFFICES ASSUME NEW v \in Users, NEW d \in Codes
               PROVE  opened'[v][d] <= 1 /\ (d \in codes'[v] => opened'[v][d] = 0)
    BY DEF SpentCodes
  <2>1. opened[v][d] <= 1 /\ (d \in codes[v] => opened[v][d] = 0)
    BY DEF IInv, SpentCodes
  <2>2. CASE v # u
    BY <1>5, <1>6, <2>1, <2>2
  <2>3. CASE v = u /\ ~(Recovers(l) /\ d = c)
    BY <1>5, <1>6, <2>1, <2>3
  <2>4. CASE v = u /\ Recovers(l) /\ d = c
    BY <1>3, <1>5, <1>6, <2>1, <2>4
  <2> QED BY <2>2, <2>3, <2>4
<1>9. Counted' /\ guesses' \in [Users -> Nat]
  BY <1>1, <1>4 DEF IInv, Counted
<1> QED BY <1>u, <1>1, <1>4, <1>5, <1>6, <1>7, <1>8, <1>9, EndStep

-----------------------------------------------------------------------------
(* The steps of others.                                                    *)

\* disable_user waits until nobody holds the row.
LEMMA DisableIInv ==
    ASSUME IInv, NEW u \in Users, Disable(u)
    PROVE  IInv'
<1>1. /\ ~Held(u) /\ disabled' = disabled \cup {u}
      /\ clock' = clock /\ failed' = failed /\ lockedUntil' = lockedUntil /\ codes' = codes
      /\ pc' = pc /\ try' = try /\ now' = now /\ seen' = seen /\ opened' = opened /\ guesses' = guesses
  BY DEF Disable, local, history
<1>2. TypeOK' /\ Trying' /\ OneJudge' /\ ClockRead' /\ LockPaces'
  BY <1>1 DEF IInv, TypeOK, Trying, OneJudge, ClockRead, LockPaces
<1>4. SpentCodes' /\ Counted'
  BY <1>1 DEF IInv, SpentCodes, Counted
<1>3. SeenIsRow'
  BY <1>1 DEF IInv, SeenIsRow, Row, Held
<1> QED BY <1>2, <1>3, <1>4 DEF IInv

\* The clock moves away from what was read of it and towards every lock's end.
LEMMA TickIInv == ASSUME IInv, Tick PROVE IInv'
<1> USE LockoutAssumption
<1>1. /\ clock < LastTick /\ clock' = clock + 1
      /\ failed' = failed /\ lockedUntil' = lockedUntil /\ codes' = codes /\ disabled' = disabled
      /\ pc' = pc /\ try' = try /\ now' = now /\ seen' = seen /\ opened' = opened /\ guesses' = guesses
  BY DEF Tick, account, local, history
<1>2. clock \in Nat /\ clock' \in 0 .. LastTick
  BY <1>1 DEF IInv, TypeOK
<1>3. TypeOK' /\ Trying' /\ SeenIsRow' /\ OneJudge' /\ SpentCodes' /\ Counted'
  BY <1>1, <1>2 DEF IInv, TypeOK, Trying, SeenIsRow, Row, OneJudge, SpentCodes, Counted
<1>4. ClockRead' /\ LockPaces'
  <2>1. \A l \in Logins : now[l] \in Int
    BY DEF IInv, TypeOK
  <2>2. \A u \in Users : lockedUntil[u] \in Int
    BY DEF IInv, TypeOK
  <2>3. ClockRead'
    BY <1>1, <1>2, <2>1 DEF IInv, ClockRead
  <2>4. \A u \in Users : lockedUntil'[u] <= clock' + Hold
    BY <1>1, <1>2, <2>2 DEF IInv, LockPaces
  <2> QED BY <1>1, <2>3, <2>4 DEF IInv, LockPaces
<1> QED BY <1>3, <1>4 DEF IInv

\* Every step preserves the invariant.
LEMMA NextIInv == IInv /\ [Next]_vars => IInv'
<1> SUFFICES ASSUME IInv, [Next]_vars PROVE IInv'
  OBVIOUS
<1>1. CASE UNCHANGED vars
  BY <1>1 DEF vars, account, local, history, IInv, TypeOK, Trying, SeenIsRow, Row, OneJudge,
              ClockRead, LockPaces, SpentCodes, Counted
<1>2. ASSUME NEW l \in Logins, Step(l) PROVE IInv'
  BY <1>2, BeginIInv, LockUserIInv, NothingWritten, FailIInv, SucceedIInv DEF Step
<1>3. ASSUME NEW u \in Users, Disable(u) PROVE IInv'
  BY <1>3, DisableIInv
<1>4. CASE Tick
  BY <1>4, TickIInv
<1> QED BY <1>1, <1>2, <1>3, <1>4 DEF Next

\* The strengthened invariant holds in every reachable state.
THEOREM Invariance == Spec => []IInv
BY InitIInv, NextIInv, PTL DEF Spec

\* The variables keep their types: in particular no lock ends later than a
\* Hold after the last tick, and no counter goes below zero.
THEOREM TypeCorrect == Spec => []TypeOK
<1>1. IInv => TypeOK
  BY DEF IInv
<1> QED BY <1>1, Invariance, PTL

\* Since the last success no more wrong guesses at an account were answered than
\* the threshold and one for every Hold the clock has run (auth.py, authenticate).
THEOREM GuessesAreBounded == Spec => []GuessesBounded
<1>1. IInv => GuessesBounded
  <2> SUFFICES ASSUME IInv, NEW u \in Users PROVE failed[u] <= Threshold + clock \div Hold
    BY DEF GuessesBounded, IInv, Counted
  <2>1. /\ clock \in Nat /\ failed[u] \in Nat /\ Hold \in Nat \ {0} /\ Threshold \in Nat \ {0}
        /\ lockedUntil[u] \in Int /\ lockedUntil[u] <= clock + Hold
    BY LockoutAssumption DEF IInv, TypeOK, LockPaces
  <2>div. clock \div Hold \in Nat
    BY <2>1
  <2>2. CASE failed[u] >= Threshold
    <3>1. lockedUntil[u] >= Hold * (failed[u] - Threshold + 1)
      BY <2>2 DEF IInv, LockPaces
    <3>2. Hold * (failed[u] - Threshold + 1) = Hold * (failed[u] - Threshold) + Hold
      BY <2>1, OneHoldMore
    <3>3. Hold * (failed[u] - Threshold) \in Int
      BY <2>1
    <3>4. Hold * (failed[u] - Threshold) <= clock
      BY <2>1, <3>1, <3>2, <3>3
    <3>5. failed[u] - Threshold <= clock \div Hold
      BY <2>1, <3>4, DivBound
    <3> QED BY <2>1, <2>div, <3>5
  <2>3. CASE failed[u] < Threshold
    BY <2>1, <2>div, <2>3
  <2> QED BY <2>1, <2>2, <2>3
<1> QED BY <1>1, Invariance, PTL

\* A recovery code opens one session at most (auth.py, authenticate).
THEOREM CodesOpenOnce == Spec => []RecoveryCodeOnce
<1>1. IInv => RecoveryCodeOnce
  BY DEF IInv, SpentCodes, RecoveryCodeOnce
<1> QED BY <1>1, Invariance, PTL

\* Only a success shortens a lock (auth.py, authenticate).
THEOREM LocksOnlyGrow == Spec => LockNeverShortened
<1> DEFINE Kept == \A u \in Users : lockedUntil'[u] >= lockedUntil[u] \/ failed'[u] = 0
<1>1. IInv /\ [Next]_vars => Kept
  <2> SUFFICES ASSUME IInv, [Next]_vars, NEW u \in Users
               PROVE  lockedUntil'[u] >= lockedUntil[u] \/ failed'[u] = 0
    OBVIOUS
  <2>1. lockedUntil[u] \in Int /\ failed \in [Users -> Nat] /\ lockedUntil \in [Users -> 0 .. LastTick + Hold]
    BY DEF IInv, TypeOK
  <2>2. ASSUME NEW l \in Logins, Fail(l) PROVE lockedUntil'[u] >= lockedUntil[u]
    <3>1. PICK v : v = try[l].who
      OBVIOUS
    <3>2. /\ pc[l] = "judge" /\ ~Unavailable(l)
          /\ lockedUntil' = [lockedUntil EXCEPT ![v] = IF failed[v] + 1 >= Threshold THEN now[l] + Hold
                                                       ELSE lockedUntil[v]]
      BY <2>2, <3>1 DEF Fail
    <3>3. v \in Users /\ lockedUntil[v] <= now[l] /\ now[l] \in Nat
      BY <3>1, <3>2, Judging
    <3> QED BY <2>1, <3>2, <3>3, LockoutAssumption
  <2>3. ASSUME NEW l \in Logins, Succeed(l) PROVE lockedUntil'[u] >= lockedUntil[u] \/ failed'[u] = 0
    BY <2>1, <2>3 DEF Succeed
  <2>4. CASE lockedUntil' = lockedUntil
    BY <2>1, <2>4
  <2>5. \/ lockedUntil' = lockedUntil
        \/ \E l \in Logins : Fail(l) \/ Succeed(l)
    BY DEF Next, Step, Begin, LockUser, Deny, Abort, Disable, Tick, vars, account
  <2> QED BY <2>2, <2>3, <2>4, <2>5
<1>2. IInv /\ [Next]_vars => [Kept]_vars
  BY <1>1
<1> QED BY <1>2, Invariance, PTL DEF Spec, LockNeverShortened

\* A session is opened only for an account that is enabled and not locked at
\* the moment it opens (auth.py, authenticate).
THEOREM OnlyAvailableOpen == Spec => OpensOnlyAvailable
<1> DEFINE Right == \A l \in Logins :
                       Succeed(l) => try[l].who \notin disabled /\ lockedUntil[try[l].who] <= clock
<1>1. IInv => Right
  <2> SUFFICES ASSUME IInv, NEW l \in Logins, Succeed(l)
               PROVE  try[l].who \notin disabled /\ lockedUntil[try[l].who] <= clock
    OBVIOUS
  <2>1. pc[l] = "judge" /\ ~Unavailable(l)
    BY DEF Succeed
  <2>2. /\ try[l].who \in Users /\ try[l].who \notin disabled
        /\ lockedUntil[try[l].who] <= now[l] /\ now[l] \in Nat /\ now[l] <= clock
    BY <2>1, Judging
  <2>3. lockedUntil[try[l].who] \in Int /\ clock \in Int
    BY <2>2 DEF IInv, TypeOK
  <2> QED BY <2>2, <2>3
<1>2. IInv /\ [Next]_vars => [Right]_vars
  BY <1>1
<1> QED BY <1>2, Invariance, PTL DEF Spec, OpensOnlyAvailable
=============================================================================
