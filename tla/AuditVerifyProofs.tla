-------------------------- MODULE AuditVerifyProofs --------------------------
(* Theorems about AuditVerify, for every finite set of ids, any bodies and *)
(* any number of changes behind the program's back.                        *)
(*                                                                         *)
(* The equation of Walk has a solution, because every round leaves fewer   *)
(* rows to visit (Solved), so the walk is what its rounds say              *)
(* (WalkIsRound).  If it accepts, the rows it went along are a chain       *)
(* (PathGoesOn).  If the rows are a chain, it accepts them: the k-th hash  *)
(* commits to k bodies, so no two hashes are the same, and every row but   *)
(* the last has one successor, the next (ChainSuccessors).  Hence the      *)
(* verdict of any table.                                                   *)
(*                                                                         *)
(* The theorems about the specification add what append_audit does: to one *)
(* chain it adds the next row (AppendExtends), so the table is one chain   *)
(* until the first damage, and what a handler left behind as one chain is  *)
(* one; and two chains with one hash in common are the same up to it       *)
(* (ChainsAgree).                                                          *)
EXTENDS AuditVerify, WellFoundedInduction, FiniteSetTheorems, SequenceTheorems, TLAPS

-----------------------------------------------------------------------------
\* Every set of naturals has a least member: the form of induction used here.
LEMMA LeastNat ==
    ASSUME NEW T \in SUBSET Nat, T # {}
    PROVE  \E x \in T : \A y \in T : x <= y
<1> DEFINE R == OpToRel(<, Nat)
<1>1. IsWellFoundedOn(R, Nat)
  BY NatLessThanWellFounded
<1>2. \A x, y \in Nat : <<y, x>> \in R <=> y < x
  BY DEF OpToRel
<1> HIDE DEF R
<1>3. PICK x \in T : \A y \in T : ~ (<<y, x>> \in R)
  BY <1>1, WFMin
<1>4. ASSUME NEW y \in T PROVE x <= y
  <2>1. x \in Nat /\ y \in Nat
    OBVIOUS
  <2>2. ~(y < x)
    BY <1>2, <1>3, <2>1
  <2> QED BY <2>1, <2>2
<1> QED BY <1>4

-----------------------------------------------------------------------------
(* The loop.  Every round leaves fewer rows to visit, so the recursion of   *)
(* Walk is sound: there is a function that satisfies its equation.          *)

Left(es, s) == Cardinality(DOMAIN es \ s.visited)

\* The state of the loop after a round at s that goes on to row n.
After(es, s, n) ==
    [id |-> n, previous |-> es[s.id].hash, visited |-> s.visited \cup {s.id}]

LEMMA LeftType ==
    ASSUME NEW es, IsFiniteSet(DOMAIN es), NEW s \in LoopStates(es)
    PROVE  Left(es, s) \in Nat
<1>1. IsFiniteSet(DOMAIN es \ s.visited)
  BY FS_Difference
<1> QED BY <1>1, FS_CardinalityType DEF Left

\* A round goes on to a state with one row less to visit.
LEMMA AfterIsLater ==
    ASSUME NEW es, IsFiniteSet(DOMAIN es), NEW s \in LoopStates(es), s.id \notin s.visited,
           NEW n \in DOMAIN es
    PROVE  /\ After(es, s, n) \in LoopStates(es)
           /\ Left(es, After(es, s, n)) < Left(es, s)
<1> DEFINE t == After(es, s, n)
           D == DOMAIN es \ s.visited
<1>1. s.id \in DOMAIN es /\ s.visited \subseteq DOMAIN es
  BY DEF LoopStates
<1>2. t \in LoopStates(es)
  <2>1. es[s.id].hash \in {NoHash} \cup {es[i].hash : i \in DOMAIN es}
    BY <1>1
  <2> QED BY <1>1, <2>1 DEF LoopStates, After
<1>3. DOMAIN es \ t.visited = D \ {s.id}
  BY DEF After
<1>4. IsFiniteSet(D) /\ s.id \in D
  BY <1>1, FS_Difference
<1>5. Cardinality(D \ {s.id}) = Cardinality(D) - 1 /\ Cardinality(D) \in Nat
  BY <1>4, FS_RemoveElement, FS_CardinalityType
<1>6. Left(es, t) = Cardinality(D \ {s.id}) /\ Left(es, s) = Cardinality(D)
  BY <1>3 DEF Left
<1> HIDE DEF t, D
<1>7. Left(es, t) < Left(es, s)
  BY <1>5, <1>6
<1> QED BY <1>2, <1>7 DEF t

\* The row a round goes on to.
NextRow(es, s) == CHOOSE n \in Successors(es, es[s.id].hash) : TRUE

\* What is checked of row s.id.
Sound(es, s) ==
    /\ es[s.id].prev = s.previous
    /\ es[s.id].hash = Digest(es[s.id].prev, es[s.id].body)
    /\ Cardinality(Successors(es, es[s.id].hash)) <= 1

\* What a round says, by cases.
LEMMA RoundCases ==
    ASSUME NEW es, NEW s, NEW f
    PROVE  /\ s.id \in s.visited => (Round(es, s, f) <=> s.visited = DOMAIN es)
           /\ s.id \notin s.visited /\ Successors(es, es[s.id].hash) = {} =>
                (Round(es, s, f) <=> Sound(es, s) /\ s.visited \cup {s.id} = DOMAIN es)
           /\ s.id \notin s.visited /\ Successors(es, es[s.id].hash) # {} =>
                (Round(es, s, f) <=> Sound(es, s) /\ f[After(es, s, NextRow(es, s))])
<1>1. CASE s.id \in s.visited
  BY <1>1 DEF Round
<1>2. CASE s.id \notin s.visited /\ Successors(es, es[s.id].hash) = {}
  BY <1>2 DEF Round, Sound, Rehash
<1>3. CASE s.id \notin s.visited /\ Successors(es, es[s.id].hash) # {}
  BY <1>3 DEF Round, Sound, Rehash, After, NextRow
<1> QED BY <1>1, <1>2, <1>3

\* A round asks only what follows from states with fewer rows to visit.
LEMMA RoundLooksAhead ==
    ASSUME NEW es, IsFiniteSet(DOMAIN es), NEW s \in LoopStates(es), NEW f, NEW g,
           \A t \in LoopStates(es) : Left(es, t) < Left(es, s) => f[t] = g[t]
    PROVE  Round(es, s, f) <=> Round(es, s, g)
<1>1. CASE s.id \in s.visited
  BY <1>1, RoundCases
<1>2. CASE s.id \notin s.visited /\ Successors(es, es[s.id].hash) = {}
  BY <1>2, RoundCases
<1>3. CASE s.id \notin s.visited /\ Successors(es, es[s.id].hash) # {}
  <2>1. NextRow(es, s) \in DOMAIN es
    BY <1>3 DEF Successors, NextRow
  <2>2. f[After(es, s, NextRow(es, s))] = g[After(es, s, NextRow(es, s))]
    BY <1>3, <2>1, AfterIsLater
  <2> QED BY <1>3, <2>2, RoundCases
<1> QED BY <1>1, <1>2, <1>3

LEMMA RoundBoolean ==
    ASSUME NEW es, NEW s \in LoopStates(es), NEW f \in [LoopStates(es) -> BOOLEAN],
           IsFiniteSet(DOMAIN es)
    PROVE  Round(es, s, f) \in BOOLEAN
BY DEF Round

\* The equation of Walk has a solution as far as n rows from the end.
SolvedTo(es, n, f) ==
    /\ f \in [LoopStates(es) -> BOOLEAN]
    /\ \A s \in LoopStates(es) : Left(es, s) < n => (f[s] <=> Round(es, s, f))

LEMMA SolvedFurther ==
    ASSUME NEW es, IsFiniteSet(DOMAIN es), NEW n \in Nat, NEW f, SolvedTo(es, n, f)
    PROVE  \E g : SolvedTo(es, n + 1, g)
<1> DEFINE g == [s \in LoopStates(es) |-> IF Left(es, s) < n THEN f[s] ELSE Round(es, s, f)]
<1>1. f \in [LoopStates(es) -> BOOLEAN]
  BY DEF SolvedTo
<1>2. g \in [LoopStates(es) -> BOOLEAN]
  BY <1>1, RoundBoolean
<1>3. \A s \in LoopStates(es) : g[s] <=> Round(es, s, f)
  BY DEF SolvedTo
<1>4. \A s \in LoopStates(es) : Left(es, s) < n => g[s] = f[s]
  OBVIOUS
<1> HIDE DEF g
<1>5. ASSUME NEW s \in LoopStates(es), Left(es, s) < n + 1
      PROVE  g[s] <=> Round(es, s, g)
  <2>1. \A t \in LoopStates(es) : Left(es, t) < Left(es, s) => f[t] = g[t]
    <3> SUFFICES ASSUME NEW t \in LoopStates(es), Left(es, t) < Left(es, s) PROVE f[t] = g[t]
      OBVIOUS
    <3>1. Left(es, t) \in Nat /\ Left(es, s) \in Nat
      BY LeftType
    <3>2. Left(es, t) < n
      BY <1>5, <3>1
    <3> QED BY <1>4, <3>2
  <2>2. Round(es, s, f) <=> Round(es, s, g)
    BY <2>1, RoundLooksAhead
  <2> QED BY <1>3, <2>2
<1> QED BY <1>2, <1>5 DEF SolvedTo

LEMMA Solved ==
    ASSUME NEW es, IsFiniteSet(DOMAIN es), NEW n \in Nat
    PROVE  \E f : SolvedTo(es, n, f)
<1> DEFINE T == {m \in Nat : ~ \E f : SolvedTo(es, m, f)}
<1> SUFFICES ASSUME T # {} PROVE FALSE
  OBVIOUS
<1>1. PICK m \in T : \A k \in T : m <= k
  BY LeastNat
<1>2. m # 0
  <2> DEFINE f == [s \in LoopStates(es) |-> FALSE]
  <2>1. SolvedTo(es, 0, f)
    <3>1. \A s \in LoopStates(es) : ~(Left(es, s) < 0)
      BY LeftType
    <3> QED BY <3>1 DEF SolvedTo
  <2> QED BY <2>1
<1>3. m - 1 \in Nat /\ m - 1 \notin T /\ m = (m - 1) + 1
  BY <1>1, <1>2
<1>4. PICK f : SolvedTo(es, m - 1, f)
  BY <1>3
<1>5. \E g : SolvedTo(es, (m - 1) + 1, g)
  BY <1>3, <1>4, SolvedFurther
<1> QED BY <1>1, <1>3, <1>5

\* What the loop answers from a state is what its round there says.
LEMMA WalkIsRound ==
    ASSUME NEW es, IsFiniteSet(DOMAIN es)
    PROVE  \A s \in LoopStates(es) : Walk(es)[s] <=> Round(es, s, Walk(es))
<1> DEFINE n == Cardinality(DOMAIN es) + 1
<1>1. n \in Nat
  BY FS_CardinalityType
<1>2. PICK f : SolvedTo(es, n, f)
  BY <1>1, Solved
<1>3. \A s \in LoopStates(es) : Left(es, s) < n
  <2> SUFFICES ASSUME NEW s \in LoopStates(es) PROVE Left(es, s) < n
    OBVIOUS
  <2>1. Left(es, s) <= Cardinality(DOMAIN es) /\ Left(es, s) \in Nat
    BY FS_Subset, LeftType DEF Left
  <2>2. Cardinality(DOMAIN es) \in Nat
    BY FS_CardinalityType
  <2> QED BY <2>1, <2>2
<1>4. f = [s \in LoopStates(es) |-> Round(es, s, f)]
  <2>1. f \in [LoopStates(es) -> BOOLEAN]
    BY <1>2 DEF SolvedTo
  <2>2. \A s \in LoopStates(es) : f[s] <=> Round(es, s, f)
    BY <1>2, <1>3 DEF SolvedTo
  <2>3. \A s \in LoopStates(es) : f[s] = Round(es, s, f)
    BY <2>1, <2>2, RoundBoolean
  <2> QED BY <2>1, <2>3
<1>5. Walk(es) = [s \in LoopStates(es) |-> Round(es, s, Walk(es))]
  BY <1>4 DEF Walk
<1> QED BY <1>5

-----------------------------------------------------------------------------
(* What the loop accepts is one chain.                                      *)

\* The hash of the row before the k-th of an order.
HashBefore(es, o, k) == IF k = 1 THEN NoHash ELSE es[o[k - 1]].hash

\* The k-th row of an order names the one before it and has the right hash.
Linked(es, o, k) ==
    /\ es[o[k]].prev = HashBefore(es, o, k)
    /\ es[o[k]].hash = Digest(es[o[k]].prev, es[o[k]].body)

Distinct(o, m) == \A j, k \in 1..m : o[j] = o[k] => j = k

\* The state of the loop at the m-th row of an order.
StateAt(es, o, m) ==
    [id |-> o[m], previous |-> HashBefore(es, o, m), visited |-> {o[j] : j \in 1..(m - 1)}]

\* The loop has come along m rows, each only once, and accepts from there on.
Path(es, o, m) ==
    /\ o \in [1..m -> DOMAIN es] /\ Distinct(o, m)
    /\ \A k \in 1..(m - 1) : Linked(es, o, k)
    /\ Walk(es)[StateAt(es, o, m)]

\* An order of all rows, linked throughout, is what IsOneChain asks for.
LEMMA OrderIsChain ==
    ASSUME NEW es, IsFiniteSet(DOMAIN es)
    PROVE  IsOneChain(es) <=>
             \E o \in [1..Cardinality(DOMAIN es) -> DOMAIN es] :
                /\ Distinct(o, Cardinality(DOMAIN es))
                /\ \A k \in 1..Cardinality(DOMAIN es) : Linked(es, o, k)
<1> DEFINE n == Cardinality(DOMAIN es)
<1>1. n \in Nat
  BY FS_CardinalityType
<1>2. \A o \in [1..n -> DOMAIN es] : Len(o) = n
  BY <1>1
<1>3. SetToSeqs(DOMAIN es) = {o \in [1..n -> DOMAIN es] : Distinct(o, n)}
  BY DEF SetToSeqs, Distinct
<1>4. \A o \in [1..n -> DOMAIN es] :
         (\A k \in 1..Len(o) :
            /\ es[o[k]].prev = IF k = 1 THEN NoHash ELSE es[o[k - 1]].hash
            /\ es[o[k]].hash = Digest(es[o[k]].prev, es[o[k]].body))
         <=> \A k \in 1..n : Linked(es, o, k)
  BY <1>2 DEF Linked, HashBefore
<1> HIDE DEF n
<1> QED BY <1>3, <1>4 DEF IsOneChain, n

\* An order in which no row comes twice is no longer than the table, and one
\* as long as the table has every row.
LEMMA OrderLength ==
    ASSUME NEW D, IsFiniteSet(D), NEW m \in Nat, NEW o \in [1..m -> D], Distinct(o, m)
    PROVE  /\ m <= Cardinality(D)
           /\ m = Cardinality(D) <=> {o[j] : j \in 1..m} = D
<1>1. o \in Injection(1..m, D)
  BY DEF Injection, IsInjective, Distinct
<1>2. Cardinality(1..m) = m
  BY FS_Interval
<1>3. m <= Cardinality(D) /\ (m = Cardinality(D) <=> o \in Surjection(1..m, D))
  BY <1>1, <1>2, FS_Injection
<1>4. o \in Surjection(1..m, D) <=> {o[j] : j \in 1..m} = D
  BY DEF Surjection
<1> QED BY <1>3, <1>4

\* A table whose loop has come along m rows is one chain of m rows, or the
\* loop goes on to a row that it has not seen.
LEMMA PathGoesOn ==
    ASSUME NEW es, IsFiniteSet(DOMAIN es), NEW m \in Nat \ {0}, NEW o, Path(es, o, m)
    PROVE  IsOneChain(es) \/ \E u : Path(es, u, m + 1)
<1> DEFINE s == StateAt(es, o, m)
<1>1. /\ o \in [1..m -> DOMAIN es] /\ Distinct(o, m) /\ o[m] \in DOMAIN es
      /\ \A k \in 1..(m - 1) : Linked(es, o, k) /\ o[k] \in DOMAIN es
  BY DEF Path
<1>2. s \in LoopStates(es)
  <2>1. HashBefore(es, o, m) \in {NoHash} \cup {es[i].hash : i \in DOMAIN es}
    BY <1>1 DEF HashBefore
  <2>2. {o[j] : j \in 1..(m - 1)} \in SUBSET DOMAIN es
    BY <1>1
  <2> QED BY <1>1, <2>1, <2>2 DEF LoopStates, StateAt
<1>3. Round(es, s, Walk(es))
  BY <1>2, WalkIsRound DEF Path
<1>4. s.id = o[m] /\ s.previous = HashBefore(es, o, m) /\ s.visited = {o[j] : j \in 1..(m - 1)}
  BY DEF StateAt
<1> HIDE DEF s
<1>5. s.id \notin s.visited
  BY <1>1, <1>4 DEF Distinct
<1>6. Sound(es, s)
  BY <1>3, <1>5, RoundCases
<1>7. Linked(es, o, m)
  BY <1>4, <1>6 DEF Sound, Linked
<1>8. \A k \in 1..m : Linked(es, o, k)
  BY <1>1, <1>7
<1>9. s.visited \cup {s.id} = {o[j] : j \in 1..m}
  BY <1>4
<1>10. CASE {o[j] : j \in 1..m} = DOMAIN es
  <2>1. m = Cardinality(DOMAIN es)
    BY <1>1, <1>10, OrderLength
  <2> QED BY <1>1, <1>8, <2>1, OrderIsChain
<1>11. CASE {o[j] : j \in 1..m} # DOMAIN es
  <2>1. Successors(es, es[s.id].hash) # {}
    BY <1>3, <1>5, <1>9, <1>11, RoundCases
  <2> DEFINE next == NextRow(es, s)
             t == After(es, s, next)
             u == [j \in 1..(m + 1) |-> IF j = m + 1 THEN next ELSE o[j]]
  <2>2. next \in Successors(es, es[s.id].hash)
    BY <2>1 DEF NextRow
  <2>3. next \in DOMAIN es /\ es[next].prev = es[s.id].hash
    BY <2>2 DEF Successors
  <2>4. Walk(es)[t]
    BY <1>3, <1>5, <2>1, RoundCases
  <2>5. t \in LoopStates(es) /\ t.id = next /\ t.visited = {o[j] : j \in 1..m}
    BY <1>2, <1>5, <1>9, <2>3, AfterIsLater DEF After
  <2>6. next \notin {o[j] : j \in 1..m}
    <3>1. Round(es, t, Walk(es))
      BY <2>4, <2>5, WalkIsRound
    <3> QED BY <1>11, <2>5, <3>1, RoundCases
  <2>7. t = StateAt(es, u, m + 1)
    <3>1. HashBefore(es, u, m + 1) = es[s.id].hash
      BY <1>4 DEF HashBefore
    <3>2. {u[j] : j \in 1..m} = {o[j] : j \in 1..m} /\ u[m + 1] = next
      OBVIOUS
    <3> HIDE DEF u, next
    <3> QED BY <1>9, <3>1, <3>2 DEF StateAt, After
  <2>8. u \in [1..(m + 1) -> DOMAIN es] /\ Distinct(u, m + 1)
    <3> HIDE DEF next
    <3>1. u \in [1..(m + 1) -> DOMAIN es]
      BY <1>1, <2>3
    <3>2. ASSUME NEW j \in 1..(m + 1), NEW k \in 1..(m + 1), u[j] = u[k] PROVE j = k
      <4>1. CASE j \in 1..m /\ k \in 1..m
        BY <1>1, <3>2, <4>1 DEF Distinct
      <4>2. CASE j = m + 1 /\ k \in 1..m
        BY <2>6, <3>2, <4>2
      <4>3. CASE j \in 1..m /\ k = m + 1
        BY <2>6, <3>2, <4>3
      <4> QED BY <4>1, <4>2, <4>3
    <3> HIDE DEF u
    <3> QED BY <3>1, <3>2 DEF Distinct
  <2>9. ASSUME NEW k \in 1..m PROVE Linked(es, u, k)
    <3>1. u[k] = o[k] /\ (k # 1 => u[k - 1] = o[k - 1])
      OBVIOUS
    <3> HIDE DEF u
    <3> QED BY <1>8, <3>1 DEF Linked, HashBefore
  <2> HIDE DEF u, t
  <2>10. Path(es, u, m + 1)
    BY <2>4, <2>7, <2>8, <2>9 DEF Path
  <2> QED BY <2>10
<1> QED BY <1>10, <1>11

\* A table that is accepted is empty or has a root that the loop starts at.
LEMMA PathBegins ==
    ASSUME NEW es, IsFiniteSet(DOMAIN es), VerifyAuditChain(es), DOMAIN es # {}
    PROVE  \E o : Path(es, o, 1)
<1> DEFINE r == CHOOSE i \in Roots(es) : TRUE
           o == [j \in 1..1 |-> r]
<1>1. Cardinality(Roots(es)) = 1 /\ Walk(es)[[id |-> r, previous |-> NoHash, visited |-> {}]]
  BY DEF VerifyAuditChain
<1>2. r \in DOMAIN es
  <2>1. Roots(es) # {}
    BY <1>1, FS_EmptySet
  <2> QED BY <2>1 DEF Roots
<1> HIDE DEF r
<1>3. o \in [1..1 -> DOMAIN es] /\ Distinct(o, 1)
  BY <1>2 DEF Distinct
<1>4. StateAt(es, o, 1) = [id |-> r, previous |-> NoHash, visited |-> {}]
  BY DEF StateAt, HashBefore
<1>5. Path(es, o, 1)
  BY <1>1, <1>3, <1>4 DEF Path
<1> QED BY <1>5

LEMMA AcceptedIsChain ==
    ASSUME NEW es, IsFiniteSet(DOMAIN es), VerifyAuditChain(es)
    PROVE  IsOneChain(es)
<1>1. CASE DOMAIN es = {}
  <2> DEFINE o == [j \in 1..0 |-> 0]
  <2>1. Cardinality(DOMAIN es) = 0
    BY <1>1, FS_EmptySet
  <2>2. o \in [1..0 -> DOMAIN es] /\ Distinct(o, 0) /\ \A k \in 1..0 : Linked(es, o, k)
    BY DEF Distinct
  <2> QED BY <2>1, <2>2, OrderIsChain
<1>2. CASE DOMAIN es # {}
  <2> SUFFICES ASSUME ~IsOneChain(es) PROVE FALSE
    OBVIOUS
  <2> DEFINE T == {m \in Nat \ {0} : ~ \E o : Path(es, o, m)}
  <2>1. Cardinality(DOMAIN es) + 1 \in T
    <3> DEFINE n == Cardinality(DOMAIN es)
    <3>1. n \in Nat
      BY FS_CardinalityType
    <3>2. ASSUME NEW o, Path(es, o, n + 1) PROVE FALSE
      <4>1. n + 1 <= n
        BY <3>1, <3>2, OrderLength DEF Path
      <4> QED BY <3>1, <4>1
    <3> QED BY <3>1, <3>2
  <2>2. PICK m \in T : \A k \in T : m <= k
    BY <2>1, LeastNat
  <2>3. m # 1
    BY <1>2, <2>2, PathBegins
  <2>4. m - 1 \in Nat \ {0} /\ m - 1 \notin T /\ m = (m - 1) + 1
    BY <2>2, <2>3
  <2>5. PICK o : Path(es, o, m - 1)
    BY <2>4
  <2>6. \E u : Path(es, u, (m - 1) + 1)
    BY <2>4, <2>5, PathGoesOn
  <2> QED BY <2>2, <2>4, <2>6
<1> QED BY <1>1, <1>2

-----------------------------------------------------------------------------
(* One chain is accepted: its hashes are all different, as the k-th commits *)
(* to k bodies, so every row but the last has one successor.                *)

\* An order of all rows in which each is linked to the one before it.
Chained(es, o) ==
    /\ o \in [1..Cardinality(DOMAIN es) -> DOMAIN es]
    /\ Distinct(o, Cardinality(DOMAIN es))
    /\ \A k \in 1..Cardinality(DOMAIN es) : Linked(es, o, k)

Typed(es) == IsFiniteSet(DOMAIN es) /\ \A i \in DOMAIN es : es[i].body \in Bodies

LEMMA ChainHashes ==
    ASSUME NEW es, Typed(es), NEW o, Chained(es, o), NEW k \in 1..Cardinality(DOMAIN es)
    PROVE  es[o[k]].hash \in Seq(Bodies) /\ Len(es[o[k]].hash) = k
<1> DEFINE n == Cardinality(DOMAIN es)
           Good(j) == es[o[j]].hash \in Seq(Bodies) /\ Len(es[o[j]].hash) = j
           T == {j \in 1..n : ~Good(j)}
<1>n. n \in Nat
  BY FS_CardinalityType DEF Typed
<1> SUFFICES ASSUME T # {} PROVE FALSE
  OBVIOUS
<1>1. PICK j \in T : \A i \in T : j <= i
  <2>1. T \in SUBSET Nat
    BY <1>n
  <2> QED BY <2>1, LeastNat
<1>2. j \in 1..n /\ Linked(es, o, j) /\ es[o[j]].body \in Bodies
  BY <1>n DEF Chained, Typed
<1>3. HashBefore(es, o, j) \in Seq(Bodies) /\ Len(HashBefore(es, o, j)) = j - 1
  <2>1. CASE j = 1
    BY <2>1 DEF HashBefore, NoHash
  <2>2. CASE j # 1
    <3>1. j - 1 \in 1..n /\ j - 1 \notin T
      BY <1>n, <1>1, <1>2, <2>2
    <3>2. Good(j - 1)
      BY <3>1
    <3> QED BY <2>2, <3>2 DEF HashBefore
  <2> QED BY <2>1, <2>2
<1>4. es[o[j]].hash = Append(HashBefore(es, o, j), es[o[j]].body)
  BY <1>2 DEF Linked, Digest
<1>5. Good(j)
  BY <1>n, <1>2, <1>3, <1>4
<1> QED BY <1>1, <1>5

LEMMA ChainHasAll ==
    ASSUME NEW es, Typed(es), NEW o, Chained(es, o)
    PROVE  {o[j] : j \in 1..Cardinality(DOMAIN es)} = DOMAIN es
<1>1. PICK n : n = Cardinality(DOMAIN es)
  OBVIOUS
<1>2. n \in Nat /\ IsFiniteSet(DOMAIN es)
  BY <1>1, FS_CardinalityType DEF Typed
<1>3. o \in [1..n -> DOMAIN es] /\ Distinct(o, n)
  BY <1>1 DEF Chained
<1>4. {o[j] : j \in 1..n} = DOMAIN es
  <2>1. PICK D : D = DOMAIN es
    OBVIOUS
  <2>2. IsFiniteSet(D) /\ o \in [1..n -> D]
    BY <1>2, <1>3, <2>1
  <2>3. n = Cardinality(D) <=> {o[j] : j \in 1..n} = D
    BY <1>2, <1>3, <2>2, OrderLength
  <2> QED BY <1>1, <2>1, <2>3
<1> QED BY <1>1, <1>4

\* In a chain every row but the last has the next row as its one successor,
\* and the first is the one root.
Following(es, o, k) == IF k = Cardinality(DOMAIN es) THEN {} ELSE {o[k + 1]}

LEMMA ChainSuccessors ==
    ASSUME NEW es, Typed(es), NEW o, Chained(es, o)
    PROVE  /\ \A k \in 1..Cardinality(DOMAIN es) :
                 Successors(es, es[o[k]].hash) = Following(es, o, k)
           /\ DOMAIN es # {} => Roots(es) = {o[1]}
<1> DEFINE n == Cardinality(DOMAIN es)
<1>1. n \in Nat /\ (n = 0 <=> DOMAIN es = {})
  BY FS_CardinalityType, FS_EmptySet DEF Typed
<1>2. o \in [1..n -> DOMAIN es] /\ DOMAIN es = {o[j] : j \in 1..n}
  BY <1>1, ChainHasAll DEF Chained
<1>3. \A j \in 1..n : es[o[j]].prev = IF j = 1 THEN NoHash ELSE es[o[j - 1]].hash
  BY DEF Chained, Linked, HashBefore
<1>4. \A j, k \in 1..n : es[o[j]].hash = es[o[k]].hash => j = k
  BY ChainHashes
<1>5. \A j \in 1..n : es[o[j]].hash # NoHash
  <2> SUFFICES ASSUME NEW j \in 1..n, es[o[j]].hash = NoHash PROVE FALSE
    OBVIOUS
  <2>1. Len(es[o[j]].hash) = j
    BY ChainHashes
  <2> QED BY <1>1, <2>1 DEF NoHash
<1> HIDE DEF n
<1>6. ASSUME NEW k \in 1..n
      PROVE  Successors(es, es[o[k]].hash) = IF k = n THEN {} ELSE {o[k + 1]}
  <2>1. ASSUME NEW j \in 1..n PROVE es[o[j]].prev = es[o[k]].hash <=> j = k + 1
    <3>1. CASE j = 1
      BY <1>1, <1>3, <1>5, <3>1
    <3>2. CASE j # 1
      <4>1. j - 1 \in 1..n /\ es[o[j]].prev = es[o[j - 1]].hash
        BY <1>1, <1>3, <3>2
      <4>2. es[o[j]].prev = es[o[k]].hash <=> j - 1 = k
        BY <1>4, <4>1
      <4> QED BY <1>1, <4>2
    <3> QED BY <3>1, <3>2
  <2>2. \A i \in DOMAIN es : es[i].prev = es[o[k]].hash <=> \E j \in 1..n : j = k + 1 /\ i = o[j]
    <3> SUFFICES ASSUME NEW i \in DOMAIN es
                 PROVE  es[i].prev = es[o[k]].hash <=> \E j \in 1..n : j = k + 1 /\ i = o[j]
      OBVIOUS
    <3>1. PICK j \in 1..n : i = o[j]
      BY <1>2
    <3>2. \A a \in 1..n : i = o[a] => a = j
      BY <3>1 DEF Chained, Distinct, n
    <3> QED BY <2>1, <3>1, <3>2
  <2>3. k + 1 \in 1..n <=> k # n
    BY <1>1
  <2> QED BY <1>2, <2>2, <2>3 DEF Successors
<1>7. DOMAIN es # {} => Roots(es) = {o[1]}
  <2> SUFFICES ASSUME DOMAIN es # {} PROVE Roots(es) = {o[1]}
    OBVIOUS
  <2>1. 1 \in 1..n
    BY <1>1
  <2>2. ASSUME NEW j \in 1..n PROVE es[o[j]].prev = NoHash <=> j = 1
    <3>1. CASE j = 1
      BY <1>3, <3>1
    <3>2. CASE j # 1
      <4>1. j - 1 \in 1..n
        BY <1>1, <3>2
      <4> QED BY <1>3, <1>5, <3>2, <4>1
    <3> QED BY <3>1, <3>2
  <2> QED BY <1>2, <2>1, <2>2 DEF Roots
<1> QED BY <1>6, <1>7 DEF n, Following

\* From every row of a chain the loop comes to the end and has seen all rows.
LEMMA ChainIsWalked ==
    ASSUME NEW es, Typed(es), NEW o, Chained(es, o), NEW k \in 1..Cardinality(DOMAIN es)
    PROVE  Walk(es)[StateAt(es, o, k)]
<1> DEFINE n == Cardinality(DOMAIN es)
           T == {d \in 0..(n - 1) : ~ Walk(es)[StateAt(es, o, n - d)]}
<1>n. n \in Nat /\ IsFiniteSet(DOMAIN es)
  BY FS_CardinalityType DEF Typed
<1>1. ASSUME NEW d \in T, \A e \in T : d <= e PROVE FALSE
  <2> DEFINE j == n - d
             s == StateAt(es, o, j)
  <2>1. d \in 0..(n - 1) /\ j \in 1..n /\ ~Walk(es)[s]
    BY <1>n
  <2>2. o \in [1..n -> DOMAIN es] /\ o[j] \in DOMAIN es
    BY <2>1 DEF Chained
  <2> HIDE DEF j
  <2>3. s \in LoopStates(es)
    <3>1. HashBefore(es, o, j) \in {NoHash} \cup {es[i].hash : i \in DOMAIN es}
      <4>1. j # 1 => j - 1 \in 1..n
        BY <1>n, <2>1
      <4> QED BY <2>2, <4>1 DEF HashBefore
    <3>2. {o[i] : i \in 1..(j - 1)} \in SUBSET DOMAIN es
      BY <1>n, <2>1, <2>2
    <3> QED BY <2>2, <3>1, <3>2 DEF LoopStates, StateAt
  <2>4. s.id = o[j] /\ s.previous = HashBefore(es, o, j) /\ s.visited = {o[i] : i \in 1..(j - 1)}
    BY DEF StateAt
  <2>5. s.id \notin s.visited
    <3>1. \A i \in 1..(j - 1) : i \in 1..n /\ i # j
      BY <1>n, <2>1
    <3> QED BY <2>1, <2>4, <3>1 DEF Chained, Distinct
  <2>6. s.visited \cup {s.id} = {o[i] : i \in 1..j}
    BY <1>n, <2>1, <2>4
  <2>7. Successors(es, es[s.id].hash) = IF j = n THEN {} ELSE {o[j + 1]}
    <3>1. Successors(es, es[o[j]].hash) = IF j = n THEN {} ELSE {o[j + 1]}
      <4>1. Successors(es, es[o[j]].hash) = Following(es, o, j)
        BY <2>1, ChainSuccessors
      <4> QED BY <4>1 DEF Following
    <3> HIDE DEF n, s
    <3> QED BY <2>4, <3>1
  <2>8. Sound(es, s)
    <3>1. Linked(es, o, j)
      BY <2>1 DEF Chained
    <3>2. Cardinality(Successors(es, es[s.id].hash)) <= 1
      <4>1. CASE j = n
        BY <2>7, <4>1, FS_EmptySet
      <4>2. CASE j # n
        <5>1. Cardinality({o[j + 1]}) = 1
          BY FS_Singleton
        <5> QED BY <2>7, <4>2, <5>1
      <4> QED BY <4>1, <4>2
    <3> QED BY <2>4, <3>1, <3>2 DEF Sound, Linked
  <2> HIDE DEF s
  <2>9. ~Round(es, s, Walk(es))
    BY <1>n, <2>1, <2>3, WalkIsRound
  <2>10. CASE j = n
    <3>1. {o[i] : i \in 1..n} = DOMAIN es
      BY ChainHasAll
    <3> QED BY <2>5, <2>6, <2>7, <2>8, <2>9, <2>10, <3>1, RoundCases
  <2>11. CASE j # n
    <3>1. NextRow(es, s) = o[j + 1]
      BY <2>7, <2>11 DEF NextRow
    <3>2. After(es, s, o[j + 1]) = StateAt(es, o, j + 1)
      <4>1. (j + 1) - 1 = j /\ j + 1 # 1
        BY <1>n, <2>1
      <4>2. HashBefore(es, o, j + 1) = es[s.id].hash
        BY <2>4, <4>1 DEF HashBefore
      <4> QED BY <2>6, <4>1, <4>2 DEF After, StateAt
    <3>3. d - 1 \in 0..(n - 1) /\ d - 1 \notin T /\ n - (d - 1) = j + 1
      BY <1>n, <1>1, <2>1, <2>11 DEF j
    <3>4. Walk(es)[StateAt(es, o, j + 1)]
      BY <3>3
    <3> QED BY <2>5, <2>7, <2>8, <2>9, <2>11, <3>1, <3>2, <3>4, RoundCases
  <2> QED BY <2>10, <2>11
<1>2. T = {}
  <2>1. T \in SUBSET Nat
    BY <1>n
  <2> HIDE DEF T
  <2> QED BY <1>1, <2>1, LeastNat
<1>3. n - k \in 0..(n - 1) /\ n - (n - k) = k
  BY <1>n
<1> QED BY <1>2, <1>3

LEMMA ChainIsAccepted ==
    ASSUME NEW es, Typed(es), IsOneChain(es)
    PROVE  VerifyAuditChain(es)
<1> SUFFICES ASSUME DOMAIN es # {} PROVE VerifyAuditChain(es)
  BY DEF VerifyAuditChain
<1>1. PICK o : Chained(es, o)
  BY OrderIsChain DEF Typed, Chained
<1>2. 1 \in 1..Cardinality(DOMAIN es)
  <2>1. Cardinality(DOMAIN es) \in Nat /\ Cardinality(DOMAIN es) # 0
    BY FS_CardinalityType, FS_EmptySet DEF Typed
  <2> QED BY <2>1
<1>3. Roots(es) = {o[1]} /\ Walk(es)[StateAt(es, o, 1)]
  BY <1>1, <1>2, ChainSuccessors, ChainIsWalked
<1>4. Cardinality(Roots(es)) = 1 /\ (CHOOSE r \in Roots(es) : TRUE) = o[1]
  BY <1>3, FS_Singleton
<1>5. StateAt(es, o, 1) = [id |-> o[1], previous |-> NoHash, visited |-> {}]
  BY DEF StateAt, HashBefore
<1> QED BY <1>3, <1>4, <1>5 DEF VerifyAuditChain

\* The loop of verify_audit_chain accepts a table of any size exactly when its
\* rows can be ordered into one chain.
THEOREM VerdictOfAnyTable ==
    ASSUME NEW es, Typed(es)
    PROVE  VerifyAuditChain(es) <=> IsOneChain(es)
BY AcceptedIsChain, ChainIsAccepted DEF Typed

-----------------------------------------------------------------------------
(* append_audit on one chain.  Its tail is the last row, and the new row is *)
(* the next.                                                                *)

LEMMA ChainTail ==
    ASSUME NEW es, Typed(es), NEW o, Chained(es, o)
    PROVE  /\ Tails(es) = IF DOMAIN es = {} THEN {} ELSE {o[Cardinality(DOMAIN es)]}
           /\ TailHashes(es) = IF DOMAIN es = {} THEN {NoHash}
                               ELSE {es[o[Cardinality(DOMAIN es)]].hash}
<1>1. PICK n : n = Cardinality(DOMAIN es)
  OBVIOUS
<1>2. n \in Nat /\ (n = 0 <=> DOMAIN es = {})
  BY <1>1, FS_CardinalityType, FS_EmptySet DEF Typed
<1>3. DOMAIN es = {o[j] : j \in 1..n}
  BY <1>1, ChainHasAll
<1>4. \A k \in 1..n : Successors(es, es[o[k]].hash) = IF k = n THEN {} ELSE {o[k + 1]}
  BY <1>1, ChainSuccessors DEF Following
<1>5. Tails(es) = IF DOMAIN es = {} THEN {} ELSE {o[n]}
  <2>1. CASE n = 0
    BY <1>2, <2>1 DEF Tails
  <2>2. CASE n # 0
    <3>1. n \in 1..n /\ o[n] \in DOMAIN es
      BY <1>2, <1>3, <2>2
    <3>2. ASSUME NEW i \in DOMAIN es PROVE Successors(es, es[i].hash) = {} <=> i = o[n]
      <4>1. PICK k \in 1..n : i = o[k]
        BY <1>3
      <4> QED BY <1>4, <3>1, <4>1
    <3> QED BY <1>2, <2>2, <3>1, <3>2 DEF Tails
  <2> QED BY <2>1, <2>2
<1>6. TailHashes(es) = IF DOMAIN es = {} THEN {NoHash} ELSE {es[o[n]].hash}
  BY <1>5 DEF TailHashes
<1> QED BY <1>1, <1>5, <1>6

LEMMA AppendExtends ==
    ASSUME NEW es, Typed(es), IsOneChain(es), NEW i, i \notin DOMAIN es,
           NEW h \in TailHashes(es), NEW b, NEW fs,
           fs = [j \in DOMAIN es \cup {i} |-> IF j = i THEN RowFor(h, b) ELSE es[j]]
    PROVE  IsOneChain(fs)
<1>1. PICK o : Chained(es, o)
  BY OrderIsChain DEF Typed, Chained
<1>2. PICK n : n = Cardinality(DOMAIN es)
  OBVIOUS
<1>3. n \in Nat /\ IsFiniteSet(DOMAIN es) /\ (n = 0 <=> DOMAIN es = {})
  BY <1>2, FS_CardinalityType, FS_EmptySet DEF Typed
<1>4. o \in [1..n -> DOMAIN es] /\ Distinct(o, n) /\ \A k \in 1..n : Linked(es, o, k)
  BY <1>1, <1>2 DEF Chained
<1>5. h = IF n = 0 THEN NoHash ELSE es[o[n]].hash
  BY <1>1, <1>2, <1>3, ChainTail
<1>6. /\ DOMAIN fs = DOMAIN es \cup {i}
      /\ \A j \in DOMAIN es : fs[j] = es[j]
      /\ fs[i].prev = h /\ fs[i].hash = Digest(fs[i].prev, fs[i].body)
  BY DEF RowFor
<1>7. IsFiniteSet(DOMAIN fs) /\ Cardinality(DOMAIN fs) = n + 1
  BY <1>2, <1>3, <1>6, FS_AddElement
<1> DEFINE u == [k \in 1..(n + 1) |-> IF k = n + 1 THEN i ELSE o[k]]
<1>8. u \in [1..(n + 1) -> DOMAIN fs] /\ Distinct(u, n + 1)
  <2>1. u \in [1..(n + 1) -> DOMAIN fs]
    BY <1>3, <1>4, <1>6
  <2>2. ASSUME NEW j \in 1..(n + 1), NEW k \in 1..(n + 1), u[j] = u[k] PROVE j = k
    <3>1. CASE j \in 1..n /\ k \in 1..n
      BY <1>3, <1>4, <2>2, <3>1 DEF Distinct
    <3>2. CASE j = n + 1 /\ k \in 1..n
      BY <1>3, <1>4, <2>2, <3>2
    <3>3. CASE j \in 1..n /\ k = n + 1
      BY <1>3, <1>4, <2>2, <3>3
    <3> QED BY <1>3, <3>1, <3>2, <3>3
  <2> HIDE DEF u
  <2> QED BY <2>1, <2>2 DEF Distinct
<1>9. ASSUME NEW k \in 1..(n + 1) PROVE Linked(fs, u, k)
  <2>1. CASE k = n + 1
    <3>1. u[k] = i /\ (n # 0 => n \in 1..n /\ u[n] = o[n] /\ o[n] \in DOMAIN es)
      BY <1>3, <1>4, <2>1
    <3>2. HashBefore(fs, u, k) = h
      <4>1. k - 1 = n /\ (k = 1 <=> n = 0)
        BY <1>3, <2>1
      <4> HIDE DEF u
      <4> QED BY <1>5, <1>6, <3>1, <4>1 DEF HashBefore
    <3> HIDE DEF u
    <3> QED BY <1>6, <3>1, <3>2 DEF Linked
  <2>2. CASE k # n + 1
    <3>1. /\ k \in 1..n /\ u[k] = o[k] /\ o[k] \in DOMAIN es
          /\ k # 1 => k - 1 \in 1..n /\ u[k - 1] = o[k - 1] /\ o[k - 1] \in DOMAIN es
      BY <1>3, <1>4, <2>2
    <3>2. Linked(es, o, k)
      BY <1>4, <3>1
    <3> HIDE DEF u
    <3> QED BY <1>6, <3>1, <3>2 DEF Linked, HashBefore
  <2> QED BY <2>1, <2>2
<1> HIDE DEF u
<1> QED BY <1>7, <1>8, <1>9, OrderIsChain

-----------------------------------------------------------------------------
(* The inductive invariant.  Handlers find one chain until the first        *)
(* damage, and what they promise is one chain, whatever the table becomes.  *)

TypedTable(es) == DOMAIN es \subseteq Ids /\ \A i \in DOMAIN es : es[i] \in EntryRow

IInv ==
    /\ TypedTable(entries)
    /\ TypedTable(promised)
    /\ damage \in 0..MaxDamage
    /\ damage = 0 => IsOneChain(entries)
    /\ IsOneChain(promised)

LEMMA TypesFollow == IInv => TypeOK
BY DEF IInv, TypedTable, TypeOK

LEMMA TableIsTyped ==
    ASSUME NEW es, TypedTable(es)
    PROVE  Typed(es)
<1>1. IsFiniteSet(DOMAIN es)
  BY DamageAssumption, FS_Subset DEF TypedTable
<1>2. \A i \in DOMAIN es : es[i].body \in Bodies
  BY DEF TypedTable, EntryRow
<1> QED BY <1>1, <1>2 DEF Typed

\* A row for a known hash is a row of the table.
LEMMA RowIsTyped ==
    ASSUME NEW h \in Seq(Bodies), NEW b \in Bodies
    PROVE  RowFor(h, b) \in EntryRow
<1>1. Append(h, b) \in Seq(Bodies)
  BY AppendProperties
<1> QED BY <1>1 DEF RowFor, Digest, EntryRow

LEMMA HashesAreSeqs == Hashes \cup {NoHash} \subseteq Seq(Bodies)
<1>1. ASSUME NEW h \in Hashes PROVE h \in Seq(Bodies)
  <2>1. Cardinality(Ids) \in Nat
    BY DamageAssumption, FS_CardinalityType
  <2>2. PICK n \in 1..Cardinality(Ids) : h \in [1..n -> Bodies]
    BY DEF Hashes
  <2> QED BY <2>1, <2>2
<1>2. NoHash \in Seq(Bodies)
  BY EmptySeq DEF NoHash
<1> QED BY <1>1, <1>2

LEMMA InitIInv == Init => IInv
<1> SUFFICES ASSUME Init PROVE IInv
  OBVIOUS
<1>1. DOMAIN NoRows = {} /\ IsFiniteSet(DOMAIN NoRows)
  BY FS_EmptySet DEF NoRows
<1>2. IsOneChain(NoRows)
  <2>1. VerifyAuditChain(NoRows)
    BY <1>1 DEF VerifyAuditChain
  <2> QED BY <1>1, <2>1, AcceptedIsChain
<1>3. TypedTable(NoRows)
  BY <1>1 DEF TypedTable
<1> QED BY <1>2, <1>3, DamageAssumption DEF Init, IInv

\* append_audit adds a row of the table's types to any table, and to one chain
\* the next row.
LEMMA WriteIInv ==
    ASSUME IInv, NEW i \in Ids \ DOMAIN entries, NEW b \in Bodies, Write(i, b)
    PROVE  IInv'
<1>1. PICK h \in TailHashes(entries) :
         entries' = [j \in DOMAIN entries \cup {i} |->
                        IF j = i THEN RowFor(h, b) ELSE entries[j]]
  BY DEF Write, Put
<1>2. h \in Seq(Bodies)
  BY EmptySeq DEF TailHashes, Tails, IInv, TypedTable, EntryRow, NoHash
<1>3. TypedTable(entries')
  BY <1>1, <1>2, RowIsTyped DEF IInv, TypedTable
<1>4. IsOneChain(entries) => IsOneChain(entries')
  <2>1. Typed(entries)
    BY TableIsTyped DEF IInv
  <2> QED BY <1>1, <2>1, AppendExtends
<1>5. damage' = damage /\ promised' = IF IsOneChain(entries) THEN entries' ELSE promised
  BY DEF Write
<1>6. TypedTable(promised') /\ IsOneChain(promised')
  BY <1>3, <1>4, <1>5 DEF IInv
<1> QED BY <1>3, <1>4, <1>5, <1>6 DEF IInv

\* Damage reaches the table and leaves the promise alone.
LEMMA DamageIInv ==
    ASSUME IInv, Damage, DOMAIN entries' \subseteq Ids,
           \A i \in DOMAIN entries' : entries'[i] \in EntryRow
    PROVE  IInv'
<1>1. damage' \in 0..MaxDamage /\ damage' # 0 /\ promised' = promised
  BY DamageAssumption DEF Damage, IInv
<1>2. TypedTable(entries')
  BY DEF TypedTable
<1> QED BY <1>1, <1>2 DEF IInv

LEMMA NextIInv == IInv /\ [Next]_vars => IInv'
<1> SUFFICES ASSUME IInv, [Next]_vars PROVE IInv'
  OBVIOUS
<1>t. DOMAIN entries \subseteq Ids /\ \A i \in DOMAIN entries : entries[i] \in EntryRow
  BY DEF IInv, TypedTable
<1>h. \A h \in Hashes \cup {NoHash} : h \in Seq(Bodies)
  BY HashesAreSeqs
<1>1. ASSUME NEW i \in Ids \ DOMAIN entries, NEW b \in Bodies, Write(i, b) PROVE IInv'
  BY <1>1, WriteIInv
<1>2. ASSUME NEW i \in DOMAIN entries, NEW b \in Bodies, AlterBody(i, b) PROVE IInv'
  <2>1. Damage /\ entries' = [entries EXCEPT ![i].body = b]
    BY <1>2 DEF AlterBody
  <2>2. \A j \in DOMAIN entries' : entries'[j] \in EntryRow
    BY <1>t, <2>1 DEF EntryRow
  <2> QED BY <1>t, <2>1, <2>2, DamageIInv
<1>3. ASSUME NEW i \in DOMAIN entries, NEW h \in Hashes \cup {NoHash}, AlterPrev(i, h) PROVE IInv'
  <2>1. Damage /\ entries' = [entries EXCEPT ![i].prev = h]
    BY <1>3 DEF AlterPrev
  <2>2. \A j \in DOMAIN entries' : entries'[j] \in EntryRow
    BY <1>t, <1>h, <2>1 DEF EntryRow
  <2> QED BY <1>t, <2>1, <2>2, DamageIInv
<1>4. ASSUME NEW i \in DOMAIN entries, NEW h \in Hashes, AlterHash(i, h) PROVE IInv'
  <2>1. Damage /\ entries' = [entries EXCEPT ![i].hash = h]
    BY <1>4 DEF AlterHash
  <2>2. \A j \in DOMAIN entries' : entries'[j] \in EntryRow
    BY <1>t, <1>h, <2>1 DEF EntryRow
  <2> QED BY <1>t, <2>1, <2>2, DamageIInv
<1>5. ASSUME NEW i \in DOMAIN entries, DropRow(i) PROVE IInv'
  <2>1. Damage /\ entries' = [j \in DOMAIN entries \ {i} |-> entries[j]]
    BY <1>5 DEF DropRow
  <2> QED BY <1>t, <2>1, DamageIInv
<1>6. ASSUME NEW i \in Ids \ DOMAIN entries, NEW h \in Hashes \cup {NoHash}, NEW b \in Bodies,
             Insert(i, h, b)
      PROVE  IInv'
  <2>1. /\ Damage
        /\ entries' = [j \in DOMAIN entries \cup {i} |->
                          IF j = i THEN RowFor(h, b) ELSE entries[j]]
    BY <1>6 DEF Insert, Put
  <2>2. RowFor(h, b) \in EntryRow
    BY <1>h, RowIsTyped
  <2> QED BY <1>t, <2>1, <2>2, DamageIInv
<1>7. CASE UNCHANGED vars
  BY <1>7 DEF vars, IInv, TypedTable
<1> QED BY <1>1, <1>2, <1>3, <1>4, <1>5, <1>6, <1>7 DEF Next

THEOREM Invariance == Spec => []IInv
BY InitIInv, NextIInv, PTL DEF Spec

\* Handlers and damage keep the types of audit_log's rows.
THEOREM TypeCorrect == Spec => []TypeOK
BY Invariance, TypesFollow, PTL

-----------------------------------------------------------------------------
LEMMA VerdictFollows == IInv => VerdictIsRight
BY TableIsTyped, VerdictOfAnyTable DEF VerdictIsRight, IInv

LEMMA HonestFollows == IInv => HonestIsAccepted
BY TableIsTyped, VerdictOfAnyTable DEF HonestIsAccepted, IInv

\* A hash determines what it commits to.
LEMMA DigestCommits ==
    ASSUME NEW p \in Seq(Bodies), NEW q \in Seq(Bodies), NEW a \in Bodies, NEW b \in Bodies,
           Digest(p, a) = Digest(q, b)
    PROVE  p = q /\ a = b
<1>1. Len(p) = Len(q)
  BY AppendProperties DEF Digest
<1>2. \A i \in 1..Len(p) : p[i] = q[i]
  BY <1>1, AppendProperties DEF Digest
<1>3. a = b
  BY <1>1, AppendProperties DEF Digest
<1> QED BY <1>1, <1>2, <1>3, SeqEqual

\* The rows of a chain, in its order.
LEMMA ChainRow ==
    ASSUME NEW es, TypedTable(es), NEW o, Chained(es, o), NEW k \in 1..Cardinality(DOMAIN es)
    PROVE  /\ o[k] \in DOMAIN es
           /\ es[o[k]] \in EntryRow
           /\ es[o[k]].prev = IF k = 1 THEN NoHash ELSE es[o[k - 1]].hash
           /\ es[o[k]].hash = Digest(es[o[k]].prev, es[o[k]].body)
           /\ Len(es[o[k]].hash) = k
<1>1. o[k] \in DOMAIN es /\ Linked(es, o, k)
  BY DEF Chained
<1>2. Len(es[o[k]].hash) = k
  BY TableIsTyped, ChainHashes
<1> QED BY <1>1, <1>2 DEF TypedTable, Linked, HashBefore

\* Rows with the same hash, each the hash of its fields, are the same.
LEMMA HashesAgree ==
    ASSUME NEW e \in EntryRow, NEW r \in EntryRow, e.hash = r.hash,
           e.hash = Digest(e.prev, e.body), r.hash = Digest(r.prev, r.body)
    PROVE  e = r
<1>1. e.prev \in Seq(Bodies) /\ e.body \in Bodies /\ r.prev \in Seq(Bodies) /\ r.body \in Bodies
  BY DEF EntryRow
<1>2. Digest(e.prev, e.body) = Digest(r.prev, r.body)
  OBVIOUS
<1>3. e.prev = r.prev /\ e.body = r.body
  BY <1>1, <1>2, DigestCommits
<1> QED BY <1>3 DEF EntryRow

\* Two chains that have one hash in common are the same rows up to it: each
\* hash commits to the one before it.
LEMMA ChainsAgree ==
    ASSUME NEW es, TypedTable(es), NEW o, Chained(es, o),
           NEW fs, TypedTable(fs), NEW p, Chained(fs, p),
           NEW n \in 1..Cardinality(DOMAIN es), n \in 1..Cardinality(DOMAIN fs),
           es[o[n]].hash = fs[p[n]].hash,
           NEW k \in 1..n
    PROVE  es[o[k]] = fs[p[k]]
<1>n. n \in Nat /\ \A j \in 1..n : j \in 1..Cardinality(DOMAIN es) /\ j \in 1..Cardinality(DOMAIN fs)
  <2>1. Cardinality(DOMAIN es) \in Nat /\ Cardinality(DOMAIN fs) \in Nat
    BY TableIsTyped, FS_CardinalityType DEF Typed
  <2> QED BY <2>1
<1>1. ASSUME NEW j \in 1..n, es[o[j]].hash = fs[p[j]].hash
      PROVE  es[o[j]] = fs[p[j]]
  <2>1. es[o[j]] \in EntryRow /\ es[o[j]].hash = Digest(es[o[j]].prev, es[o[j]].body)
    BY <1>n, ChainRow
  <2>2. fs[p[j]] \in EntryRow /\ fs[p[j]].hash = Digest(fs[p[j]].prev, fs[p[j]].body)
    BY <1>n, ChainRow
  <2> QED BY <1>1, <2>1, <2>2, HashesAgree
<1> DEFINE T == {d \in 0..(n - 1) : es[o[n - d]].hash # fs[p[n - d]].hash}
<1>2. ASSUME NEW d \in T, \A c \in T : d <= c PROVE FALSE
  <2>1. d \in 0..(n - 1) /\ es[o[n - d]].hash # fs[p[n - d]].hash /\ d # 0
    BY <1>n
  <2>2. d - 1 \in 0..(n - 1) /\ d - 1 \notin T
    <3>1. d - 1 \in 0..(n - 1) /\ ~(d <= d - 1)
      BY <1>n, <2>1
    <3> HIDE DEF T
    <3> QED BY <1>2, <3>1
  <2>3. PICK j : j = n - (d - 1)
    OBVIOUS
  <2>4. j \in 1..n /\ j # 1 /\ j - 1 = n - d /\ es[o[j]].hash = fs[p[j]].hash
    BY <1>n, <2>1, <2>2, <2>3
  <2>5. es[o[j]] = fs[p[j]]
    BY <1>1, <2>4
  <2>6. es[o[j]].prev = es[o[j - 1]].hash
    BY <1>n, <2>4, ChainRow
  <2>7. fs[p[j]].prev = fs[p[j - 1]].hash
    BY <1>n, <2>4, ChainRow
  <2> QED BY <2>1, <2>4, <2>5, <2>6, <2>7
<1>3. T = {}
  <2>1. T \in SUBSET Nat
    BY <1>n
  <2> HIDE DEF T
  <2> QED BY <1>2, <2>1, LeastNat
<1>4. n - k \in 0..(n - 1) /\ n - (n - k) = k
  BY <1>n
<1>5. es[o[k]].hash = fs[p[k]].hash
  BY <1>3, <1>4
<1> QED BY <1>1, <1>5

\* The rows of a chain are those of its order.
LEMMA ChainRows ==
    ASSUME NEW es, TypedTable(es), NEW o, Chained(es, o)
    PROVE  Rows(es) = {es[o[k]] : k \in 1..Cardinality(DOMAIN es)}
<1>1. DOMAIN es = {o[k] : k \in 1..Cardinality(DOMAIN es)}
  BY TableIsTyped, ChainHasAll
<1> QED BY <1>1 DEF Rows

LEMMA PinnedFollows == IInv => PinnedByTail
<1> SUFFICES ASSUME IInv, VerifyAuditChain(entries),
                    NEW i \in DOMAIN entries, NEW t \in Tails(promised),
                    entries[i].hash = promised[t].hash
             PROVE  /\ Rows(promised) \subseteq Rows(entries)
                    /\ i \in Tails(entries) => Rows(entries) = Rows(promised)
  BY DEF PinnedByTail
<1>1. TypedTable(entries) /\ TypedTable(promised) /\ Typed(entries) /\ Typed(promised)
  BY TableIsTyped DEF IInv
<1>2. IsOneChain(entries) /\ IsOneChain(promised)
  BY <1>1, VerdictOfAnyTable DEF IInv
<1>3. PICK o : Chained(entries, o)
  BY <1>1, <1>2, OrderIsChain DEF Typed, Chained
<1>4. PICK p : Chained(promised, p)
  BY <1>1, <1>2, OrderIsChain DEF Typed, Chained
<1>5. PICK m : m = Cardinality(DOMAIN entries)
  OBVIOUS
<1>6. PICK n : n = Cardinality(DOMAIN promised)
  OBVIOUS
<1>7. m \in Nat /\ n \in Nat /\ n # 0 /\ t = p[n]
  <2>1. DOMAIN promised # {} /\ t = p[n]
    BY <1>1, <1>4, <1>6, ChainTail
  <2> QED BY <1>1, <1>5, <1>6, <2>1, FS_CardinalityType, FS_EmptySet DEF Typed
<1>8. PICK k \in 1..m : i = o[k]
  <2>1. DOMAIN entries = {o[j] : j \in 1..m}
    BY <1>1, <1>3, <1>5, ChainHasAll
  <2> QED BY <2>1
<1>9. k = n
  <2>1. Len(entries[o[k]].hash) = k
    BY <1>1, <1>3, <1>5, ChainRow
  <2>2. n \in 1..n /\ Len(promised[p[n]].hash) = n
    BY <1>1, <1>4, <1>6, <1>7, ChainRow
  <2> QED BY <1>7, <1>8, <2>1, <2>2
<1>10. n \in 1..m /\ n \in 1..n /\ entries[o[n]].hash = promised[p[n]].hash
  BY <1>7, <1>8, <1>9
<1>11. \A j \in 1..n : entries[o[j]] = promised[p[j]]
  BY <1>1, <1>3, <1>4, <1>5, <1>6, <1>10, ChainsAgree
<1>12. /\ Rows(entries) = {entries[o[j]] : j \in 1..m}
       /\ Rows(promised) = {promised[p[j]] : j \in 1..n}
  BY <1>1, <1>3, <1>4, <1>5, <1>6, ChainRows
<1>13. Rows(promised) \subseteq Rows(entries)
  <2>1. \A j \in 1..n : j \in 1..m
    BY <1>7, <1>10
  <2> QED BY <1>11, <1>12, <2>1
<1>14. ASSUME i \in Tails(entries) PROVE Rows(entries) = Rows(promised)
  <2>1. o[n] = o[m] /\ m \in 1..m
    BY <1>1, <1>3, <1>5, <1>7, <1>8, <1>9, <1>14, ChainTail
  <2>2. n = m
    BY <1>3, <1>5, <1>10, <2>1 DEF Chained, Distinct
  <2> QED BY <1>11, <1>12, <2>2
<1> QED BY <1>13, <1>14

\* Whatever damage, verify_audit_chain accepts exactly the tables that are one
\* chain: the loop never runs in a circle, follows a wrong branch or stops short.
THEOREM VerdictRight == Spec => []VerdictIsRight
BY Invariance, VerdictFollows, PTL

\* verify_audit_chain never accuses a table that only append_audit has written.
THEOREM HonestPass == Spec => []HonestIsAccepted
BY Invariance, HonestFollows, PTL

\* A table that passes verify_audit_chain and has the hash append_audit
\* returned for the last entry of a chain has that chain whole, whatever was
\* deleted, changed and appended in between.
THEOREM TailPins == Spec => []PinnedByTail
BY Invariance, PinnedFollows, PTL
=============================================================================
