---------------------------- MODULE ApiKeysProofs ----------------------------
(* Theorems about ApiKeys, for every set of keys, hosts and requests and   *)
(* any number of forged entries in a header.                               *)
(*                                                                         *)
(* A revocation is final because a row, once there, is only written by     *)
(* revocations: a creation still pending is of a key nobody else creates   *)
(* and that has no row yet (Pending, OneCreator, RowIsTold).  One asked    *)
(* for when the key was committed finds the row, since rows are never      *)
(* taken away, and its commit therefore revokes it (Pending,               *)
(* FullIsRevoked).  Hence a request made after it finds nothing to be      *)
(* admitted with (LateIsLost).  Of a revocation asked for before the       *)
(* creation committed none of this holds.                                  *)
EXTENDS ApiKeys, SequenceTheorems, TLAPS

Revoked(k) == keys[k] # None /\ keys[k].revoked

\* An administrator's transaction: what it carries, that a creation is of a
\* key that has no row, and that a revocation that knew of the row finds it.
Pending(a) ==
    /\ admin[a].op = "none" => admin[a] = NoAdmin
    /\ admin[a].op # "none" => admin[a].key \in Keys
    /\ admin[a].step = "commit" => admin[a].key \in told
    /\ admin[a].op = "create" => admin[a].row \in KeyRow /\ keys[admin[a].key] = None
    /\ admin[a].op = "revoke" /\ (admin[a].hit \/ admin[a].known) => keys[admin[a].key] # None
    /\ admin[a].op = "revoke" /\ admin[a].known /\ admin[a].step # "update" => admin[a].hit

OneCreator ==
    \A a, b \in Admins :
        admin[a].op = "create" /\ admin[b].op = "create" /\ admin[a].key = admin[b].key => a = b

RowIsTold == \A k \in Keys : keys[k] # None => k \in told

FullIsRevoked == \A k \in Keys : revocation[k] = "full" => Revoked(k)

\* The key of a late request stays revoked, and the lookup finds nothing.
LateIsLost ==
    \A c \in Clients : late[c] = "full" =>
        /\ Revoked(call[c].key)
        /\ pc[c] \in {"resolve", "judge"}
        /\ pc[c] = "judge" => found[c] = None

IInv ==
    /\ TypeOK /\ OneCreator /\ RowIsTold /\ FullIsRevoked /\ LateIsLost /\ AllowlistBindsHost
    /\ \A a \in Admins : Pending(a)

-----------------------------------------------------------------------------
\* The initial state satisfies the invariant.
LEMMA InitIInv == Init => IInv
BY DEF Init, IInv, TypeOK, NoAdmin, AdminJob, Revocations, OneCreator, RowIsTold, FullIsRevoked,
       LateIsLost, AllowlistBindsHost, Pending

\* The entries of X-Forwarded-For that a client writes are a sequence.
LEMMA ForgedIsSeq == \A q \in Calls : q.forged \in Seq(Addresses) /\ q.host \in Hosts
<1>1. UNION {[1..n -> Addresses] : n \in 0..MaxForged} \subseteq Seq(Addresses)
  BY SeqDef, KeysAssumption
<1> QED BY <1>1 DEF Calls

\* Whatever the client forges, and through the proxy or past it, the address
\* judged is the client's own (main.py, api_key_principal).
LEMMA JudgedIsHost ==
    ASSUME NEW c \in Clients, call[c] \in Calls
    PROVE  JudgedAddress(c) = call[c].host
<1>1. /\ call[c].forged \in Seq(Addresses) /\ call[c].host \in Hosts
      /\ call[c].host \in Addresses /\ call[c].host # Proxy
  BY ForgedIsSeq, KeysAssumption DEF Addresses
<1>2. CASE call[c].proxied
  <2>1. Forwarded(c) = Append(call[c].forged, call[c].host) /\ Peer(c) = Proxy
    BY <1>2 DEF Forwarded, Peer
  <2>2. /\ Append(call[c].forged, call[c].host) # <<>>
        /\ Last(Append(call[c].forged, call[c].host)) = call[c].host
    BY <1>1 DEF Last
  <2> QED BY <2>1, <2>2 DEF JudgedAddress
<1>3. CASE ~call[c].proxied
  BY <1>1, <1>3 DEF JudgedAddress, Peer
<1> QED BY <1>2, <1>3

-----------------------------------------------------------------------------
(* The administrator's side.                                               *)

\* What is left to show of a step of a that leaves the rows alone.
LEMMA AdminStep ==
    ASSUME IInv, NEW a \in Admins, keys' = keys, revocation' = revocation, client' = client,
           told \subseteq told', told' \subseteq Keys,
           admin' = [admin EXCEPT ![a] = admin'[a]], admin'[a] \in AdminJob, Pending(a)',
           admin'[a].op = "create" =>
              \A b \in Admins : b # a /\ admin[b].op = "create" => admin[b].key # admin'[a].key
    PROVE  IInv'
<1>1. pc' = pc /\ call' = call /\ found' = found /\ late' = late
  BY DEF client
<1>2. \A b \in Admins : b # a => admin'[b] = admin[b]
  BY DEF IInv, TypeOK
<1>3. TypeOK'
  <2>1. admin' \in [Admins -> AdminJob]
    BY <1>2 DEF IInv, TypeOK
  <2> QED BY <1>1, <2>1 DEF IInv, TypeOK
<1>4. LateIsLost' /\ AllowlistBindsHost' /\ FullIsRevoked' /\ RowIsTold'
  BY <1>1 DEF IInv, LateIsLost, AllowlistBindsHost, FullIsRevoked, RowIsTold, Revoked
<1>5. OneCreator'
  BY <1>2 DEF IInv, OneCreator
<1>6. ASSUME NEW b \in Admins PROVE Pending(b)'
  BY <1>2 DEF IInv, Pending
<1> QED BY <1>3, <1>4, <1>5, <1>6 DEF IInv

\* A creation begins for a key with no row and no creator.
LEMMA BeginCreateIInv ==
    ASSUME IInv, NEW a \in Admins, NEW k \in Keys, NEW row \in KeyRow, BeginCreate(a, k, row)
    PROVE  IInv'
<1>1. /\ k \notin told /\ \A b \in Admins : admin[b].op = "create" => admin[b].key # k
      /\ keys' = keys /\ told' = told /\ revocation' = revocation /\ client' = client
  BY DEF BeginCreate
<1>2. /\ admin'[a] = [NoAdmin EXCEPT !.op = "create", !.key = k, !.row = row, !.step = "audit"]
      /\ admin' = [admin EXCEPT ![a] = admin'[a]]
  BY DEF BeginCreate, IInv, TypeOK
<1>3. /\ admin'[a] \in AdminJob /\ admin'[a].op = "create" /\ admin'[a].key = k
      /\ admin'[a].row = row /\ admin'[a].step = "audit"
  BY <1>2 DEF NoAdmin, AdminJob
<1>4. keys[k] = None
  BY <1>1 DEF IInv, RowIsTold
<1>5. Pending(a)'
  BY <1>1, <1>3, <1>4 DEF Pending
<1> QED BY <1>1, <1>2, <1>3, <1>5, AdminStep DEF IInv, TypeOK

\* A revocation begins, of a key that may have no row.
LEMMA BeginRevokeIInv ==
    ASSUME IInv, NEW a \in Admins, NEW k \in Keys, BeginRevoke(a, k)
    PROVE  IInv'
<1>1. keys' = keys /\ told' = told /\ revocation' = revocation /\ client' = client
  BY DEF BeginRevoke
<1>2. /\ admin'[a] = [NoAdmin EXCEPT !.op = "revoke", !.key = k, !.step = "update",
                                    !.known = keys[k] # None]
      /\ admin' = [admin EXCEPT ![a] = admin'[a]]
  BY DEF BeginRevoke, IInv, TypeOK
<1>3. /\ admin'[a] \in AdminJob /\ admin'[a].op = "revoke" /\ admin'[a].key = k
      /\ admin'[a].step = "update" /\ ~admin'[a].hit /\ (admin'[a].known => keys[k] # None)
  BY <1>2 DEF NoAdmin, AdminJob
<1>4. Pending(a)'
  BY <1>1, <1>3 DEF Pending
<1> QED BY <1>1, <1>2, <1>3, <1>4, AdminStep DEF IInv, TypeOK

\* What every step of a transaction under way starts from.
LEMMA UnderWay ==
    ASSUME IInv, NEW a \in Admins, admin[a].step # "none"
    PROVE  admin[a].op \in {"create", "revoke"} /\ admin[a].key \in Keys /\ admin[a] \in AdminJob
BY DEF IInv, TypeOK, Pending, NoAdmin, AdminJob

\* The UPDATE finds the row of a key that was known.
LEMMA UpdateKeyIInv ==
    ASSUME IInv, NEW a \in Admins, UpdateKey(a)
    PROVE  IInv'
<1>1. /\ keys' = keys /\ told' = told /\ revocation' = revocation /\ client' = client
      /\ admin[a].step = "update"
  BY DEF UpdateKey
<1>2. /\ admin'[a] = [admin[a] EXCEPT !.step = "audit", !.hit = keys[admin[a].key] # None]
      /\ admin' = [admin EXCEPT ![a] = admin'[a]]
  BY DEF UpdateKey, IInv, TypeOK
<1>3. /\ admin'[a] \in AdminJob /\ admin'[a].op = admin[a].op /\ admin'[a].key = admin[a].key
      /\ admin'[a].row = admin[a].row /\ admin'[a].known = admin[a].known
      /\ admin'[a].step = "audit" /\ (admin'[a].hit <=> keys[admin[a].key] # None)
  BY <1>1, <1>2, UnderWay DEF AdminJob
<1>4. Pending(a)'
  BY <1>1, <1>3, UnderWay DEF IInv, Pending
<1>5. admin'[a].op = "create" =>
         \A b \in Admins : b # a /\ admin[b].op = "create" => admin[b].key # admin'[a].key
  BY <1>3 DEF IInv, OneCreator
<1> QED BY <1>1, <1>2, <1>3, <1>4, <1>5, AdminStep DEF IInv, TypeOK

\* An entry and an answer go on with what the transaction carries.
LEMMA GoesOnIInv ==
    ASSUME IInv, NEW a \in Admins, LogAdmin(a) \/ AnswerAdmin(a)
    PROVE  IInv'
<1>1. /\ keys' = keys /\ revocation' = revocation /\ client' = client
      /\ admin[a].step \in {"audit", "answer"}
  BY DEF LogAdmin, AnswerAdmin
<1>2. PICK step \in {"answer", "commit"} :
         admin'[a] = [admin[a] EXCEPT !.step = step] /\ admin' = [admin EXCEPT ![a] = admin'[a]]
  BY DEF LogAdmin, AnswerAdmin, IInv, TypeOK
<1>3. /\ admin'[a] \in AdminJob /\ admin'[a].op = admin[a].op /\ admin'[a].key = admin[a].key
      /\ admin'[a].row = admin[a].row /\ admin'[a].known = admin[a].known
      /\ admin'[a].step = step /\ admin'[a].hit = admin[a].hit
  BY <1>1, <1>2, UnderWay DEF AdminJob
<1>4. /\ told \subseteq told' /\ told' \subseteq Keys
      /\ admin'[a].step = "commit" => admin[a].key \in told'
  <2>1. CASE LogAdmin(a)
    <3>1. admin'[a] = [admin[a] EXCEPT !.step = "answer"]
      BY <2>1 DEF LogAdmin, IInv, TypeOK
    <3>2. admin'[a].step = "answer"
      BY <1>1, <3>1, UnderWay DEF AdminJob
    <3> QED BY <2>1, <3>2 DEF LogAdmin, IInv, TypeOK
  <2>2. CASE AnswerAdmin(a)
    BY <1>1, <2>2, UnderWay DEF AnswerAdmin, IInv, TypeOK
  <2> QED BY <2>1, <2>2
<1>5. Pending(a)'
  BY <1>1, <1>3, <1>4, UnderWay DEF IInv, Pending
<1>6. admin'[a].op = "create" =>
         \A b \in Admins : b # a /\ admin[b].op = "create" => admin[b].key # admin'[a].key
  BY <1>3 DEF IInv, OneCreator
<1> QED BY <1>1, <1>2, <1>3, <1>4, <1>5, <1>6, AdminStep

\* An administrator's transaction that has ended leaves the others.
LEMMA AdminEnds ==
    ASSUME IInv, NEW a \in Admins, admin' = [admin EXCEPT ![a] = NoAdmin]
    PROVE  /\ admin' \in [Admins -> AdminJob]
           /\ admin'[a] = NoAdmin /\ \A b \in Admins : b # a => admin'[b] = admin[b]
           /\ OneCreator' /\ Pending(a)'
<1>1. NoAdmin \in AdminJob /\ NoAdmin.op = "none" /\ NoAdmin.step = "none"
  BY DEF NoAdmin, AdminJob
<1>2. admin'[a] = NoAdmin /\ \A b \in Admins : b # a => admin'[b] = admin[b]
  BY DEF IInv, TypeOK
<1>3. admin' \in [Admins -> AdminJob]
  BY <1>1 DEF IInv, TypeOK
<1>4. OneCreator'
  BY <1>1, <1>2 DEF IInv, OneCreator
<1>5. Pending(a)'
  BY <1>1, <1>2 DEF Pending
<1> QED BY <1>2, <1>3, <1>4, <1>5

\* An administrator's transaction fails.
LEMMA AbortAdminIInv ==
    ASSUME IInv, NEW a \in Admins, AbortAdmin(a)
    PROVE  IInv'
<1>1. /\ admin' = [admin EXCEPT ![a] = NoAdmin] /\ keys' = keys /\ told' = told
      /\ revocation' = revocation /\ client' = client
  BY DEF AbortAdmin
<1>2. /\ admin'[a] = NoAdmin /\ admin'[a].op # "create" /\ admin'[a] \in AdminJob /\ Pending(a)'
  BY <1>1, AdminEnds DEF NoAdmin
<1>3. admin' = [admin EXCEPT ![a] = admin'[a]]
  BY <1>1, <1>2
<1> QED BY <1>1, <1>2, <1>3, AdminStep DEF IInv, TypeOK

\* What is left to show of a commit of a that writes at most the key k.
LEMMA CommitStep ==
    ASSUME IInv, NEW a \in Admins, NEW k \in Keys,
           admin' = [admin EXCEPT ![a] = NoAdmin], told' = told, client' = client,
           keys' \in [Keys -> KeyRow \cup {None}], \A j \in Keys : j # k => keys'[j] = keys[j],
           keys[k] # None => keys'[k] # None,
           keys'[k] # None => k \in told,
           Revoked(k) => Revoked(k)',
           \A b \in Admins : b # a /\ admin[b].op = "create" /\ admin[b].key = k => keys'[k] = None,
           revocation' \in [Keys -> Revocations], FullIsRevoked'
    PROVE  IInv'
<1>1. pc' = pc /\ call' = call /\ found' = found /\ late' = late
  BY DEF client
<1>2. TypeOK'
  BY <1>1, AdminEnds DEF IInv, TypeOK
<1>3. \A j \in Keys : Revoked(j) => Revoked(j)'
  BY DEF Revoked
<1>4. RowIsTold' /\ AllowlistBindsHost'
  BY <1>1 DEF IInv, RowIsTold, AllowlistBindsHost
<1>5. LateIsLost'
  <2>1. ASSUME NEW c \in Clients, late[c] = "full" PROVE call[c].key \in Keys
    BY <2>1 DEF IInv, LateIsLost, TypeOK, Calls
  <2>2. ASSUME NEW c \in Clients, late[c] = "full" PROVE Revoked(call[c].key)'
    BY <1>1, <1>3, <2>1, <2>2 DEF IInv, LateIsLost
  <2> QED BY <1>1, <2>2 DEF IInv, LateIsLost
<1>6. ASSUME NEW b \in Admins PROVE Pending(b)'
  <2>1. CASE b = a
    BY <2>1, AdminEnds
  <2>2. CASE b # a
    <3>1. admin'[b] = admin[b] /\ Pending(b)
      BY <2>2, AdminEnds DEF IInv
    <3>2. admin[b].op = "create" => keys'[admin[b].key] = None
      BY <2>2, <3>1 DEF Pending
    <3>3. admin[b].op = "revoke" /\ keys[admin[b].key] # None => keys'[admin[b].key] # None
      BY <3>1 DEF Pending
    <3> QED BY <3>1, <3>2, <3>3 DEF Pending
  <2> QED BY <2>1, <2>2
<1> QED BY <1>2, <1>4, <1>5, <1>6, AdminEnds DEF IInv

\* A creation's commit writes a row where there was none; nobody else creates
\* that key.
LEMMA CommitCreateIInv ==
    ASSUME IInv, NEW a \in Admins, CommitCreate(a)
    PROVE  IInv'
<1>k. PICK k : k = admin[a].key
  OBVIOUS
<1>1. /\ admin[a].step = "commit" /\ admin[a].op = "create"
      /\ keys' = [keys EXCEPT ![k] = admin[a].row]
      /\ admin' = [admin EXCEPT ![a] = NoAdmin]
      /\ told' = told /\ revocation' = revocation /\ client' = client
  BY <1>k DEF CommitCreate
<1>2. k \in Keys /\ k \in told /\ admin[a].row \in KeyRow /\ keys[k] = None
  BY <1>k, <1>1 DEF IInv, Pending
<1>3. /\ keys' \in [Keys -> KeyRow \cup {None}] /\ \A j \in Keys : j # k => keys'[j] = keys[j]
      /\ revocation' \in [Keys -> Revocations]
  BY <1>1, <1>2 DEF IInv, TypeOK
<1>4. ~Revoked(k)
  BY <1>2 DEF Revoked
<1>5. FullIsRevoked'
  BY <1>1, <1>2, <1>3, <1>4 DEF IInv, FullIsRevoked, Revoked
<1>6. \A b \in Admins : b # a /\ admin[b].op = "create" /\ admin[b].key = k => keys'[k] = None
  BY <1>k, <1>1 DEF IInv, OneCreator
<1>7. Revoked(k) => Revoked(k)'
  BY <1>4
<1> QED BY <1>1, <1>2, <1>3, <1>5, <1>6, <1>7, CommitStep

\* A revocation's commit revokes the row its UPDATE found; one asked for when
\* the key was committed has found it.
LEMMA CommitRevokeIInv ==
    ASSUME IInv, NEW a \in Admins, CommitRevoke(a)
    PROVE  IInv'
<1>k. PICK k : k = admin[a].key
  OBVIOUS
<1>1. /\ admin[a].step = "commit" /\ admin[a].op = "revoke"
      /\ keys' = IF admin[a].hit THEN [keys EXCEPT ![k] = [keys[k] EXCEPT !.revoked = TRUE]] ELSE keys
      /\ revocation' = [revocation EXCEPT ![k] = IF admin[a].known \/ revocation[k] = "full"
                                                   THEN "full" ELSE "early"]
      /\ admin' = [admin EXCEPT ![a] = NoAdmin]
      /\ told' = told /\ client' = client
  BY <1>k DEF CommitRevoke
<1>2. /\ k \in Keys /\ (admin[a].hit => keys[k] # None) /\ (admin[a].known => admin[a].hit)
  BY <1>k, <1>1 DEF IInv, Pending
<1>3. ASSUME admin[a].hit
      PROVE  /\ keys' \in [Keys -> KeyRow \cup {None}] /\ keys'[k] # None /\ Revoked(k)'
             /\ \A j \in Keys : j # k => keys'[j] = keys[j]
  <2>1. keys' = [keys EXCEPT ![k] = [keys[k] EXCEPT !.revoked = TRUE]]
    BY <1>1, <1>3
  <2>2. keys[k] \in KeyRow
    BY <1>2, <1>3 DEF IInv, TypeOK
  <2>3. [keys[k] EXCEPT !.revoked = TRUE] \in KeyRow /\ [keys[k] EXCEPT !.revoked = TRUE].revoked
    BY <2>2 DEF KeyRow
  <2>4. [keys[k] EXCEPT !.revoked = TRUE] # None
    BY <2>3, RowAssumption
  <2> QED BY <1>2, <2>1, <2>3, <2>4 DEF IInv, TypeOK, Revoked
<1>4. ASSUME ~admin[a].hit PROVE keys' = keys
  BY <1>1, <1>4
<1>5. /\ keys' \in [Keys -> KeyRow \cup {None}] /\ \A j \in Keys : j # k => keys'[j] = keys[j]
      /\ (keys[k] # None => keys'[k] # None) /\ (Revoked(k) => Revoked(k)')
      /\ keys'[k] # None => keys[k] # None
  BY <1>2, <1>3, <1>4 DEF IInv, TypeOK, Revoked
<1>6. revocation' \in [Keys -> Revocations]
  BY <1>1, <1>2 DEF IInv, TypeOK, Revocations
<1>7. FullIsRevoked'
  <2> SUFFICES ASSUME NEW j \in Keys, revocation'[j] = "full" PROVE Revoked(j)'
    BY DEF FullIsRevoked
  <2>1. CASE j # k
    BY <1>1, <1>5, <2>1 DEF IInv, TypeOK, FullIsRevoked, Revoked
  <2>2. CASE j = k
    <3>1. admin[a].known \/ revocation[k] = "full"
      BY <1>1, <1>2, <2>2 DEF IInv, TypeOK
    <3> QED BY <1>2, <1>3, <1>5, <2>2, <3>1 DEF IInv, FullIsRevoked
  <2> QED BY <2>1, <2>2
<1>8. /\ keys'[k] # None => k \in told
      /\ \A b \in Admins : admin[b].op = "create" /\ admin[b].key = k => keys'[k] = None
  BY <1>2, <1>5 DEF IInv, RowIsTold, Pending
<1> QED BY <1>1, <1>2, <1>5, <1>6, <1>7, <1>8, CommitStep

-----------------------------------------------------------------------------
(* The client's side.                                                      *)

\* What is left to show of a step of a client.
LEMMA ClientStep ==
    ASSUME IInv, keys' = keys, told' = told, admin' = admin, revocation' = revocation,
           TypeOK', LateIsLost', AllowlistBindsHost'
    PROVE  IInv'
BY DEF IInv, OneCreator, RowIsTold, FullIsRevoked, Revoked, Pending

\* A client presents a key, perhaps a revoked one.
LEMMA PresentIInv ==
    ASSUME IInv, NEW c \in Clients, NEW q \in Calls, Present(c, q)
    PROVE  IInv'
<1>1. /\ pc[c] = "idle" /\ pc' = [pc EXCEPT ![c] = "resolve"] /\ call' = [call EXCEPT ![c] = q]
      /\ late' = [late EXCEPT ![c] = revocation[q.key]]
      /\ keys' = keys /\ told' = told /\ admin' = admin /\ revocation' = revocation
      /\ found' = found
  BY DEF Present, Goto
<1>2. /\ pc'[c] = "resolve" /\ call'[c] = q /\ late'[c] = revocation[q.key]
      /\ \A d \in Clients : d # c => pc'[d] = pc[d] /\ call'[d] = call[d] /\ late'[d] = late[d]
  BY <1>1 DEF IInv, TypeOK
<1>3. q.key \in Keys
  BY DEF Calls
<1>4. TypeOK'
  <2>1. /\ pc' \in [Clients -> {"idle", "resolve", "judge", "record"}]
        /\ call' \in [Clients -> Calls \cup {NoCall}]
        /\ late' \in [Clients -> Revocations]
    BY <1>1, <1>3 DEF IInv, TypeOK
  <2>2. \A d \in Clients : pc'[d] # "idle" => call'[d] \in Calls
    BY <1>2 DEF IInv, TypeOK
  <2> QED BY <1>1, <2>1, <2>2 DEF IInv, TypeOK
<1>5. LateIsLost'
  BY <1>1, <1>2, <1>3 DEF IInv, FullIsRevoked, LateIsLost, Revoked
<1>6. AllowlistBindsHost'
  BY <1>1, <1>2 DEF IInv, AllowlistBindsHost, IpAllowed
<1> QED BY <1>1, <1>4, <1>5, <1>6, ClientStep

\* The lookup finds the key's row, or nothing if it is revoked.
LEMMA ResolveIInv ==
    ASSUME IInv, NEW c \in Clients, Resolve(c)
    PROVE  IInv'
<1>1. /\ pc[c] = "resolve" /\ pc' = [pc EXCEPT ![c] = "judge"]
      /\ found' = [found EXCEPT ![c] = IF Resolvable(call[c].key) THEN keys[call[c].key] ELSE None]
      /\ keys' = keys /\ told' = told /\ admin' = admin /\ revocation' = revocation
      /\ call' = call /\ late' = late
  BY DEF Resolve, Goto
<1>2. call[c].key \in Keys /\ keys[call[c].key] \in KeyRow \cup {None}
  BY <1>1 DEF IInv, TypeOK, Calls
<1>3. /\ pc'[c] = "judge"
      /\ found'[c] = IF Resolvable(call[c].key) THEN keys[call[c].key] ELSE None
      /\ \A d \in Clients : d # c => pc'[d] = pc[d] /\ found'[d] = found[d]
  BY <1>1 DEF IInv, TypeOK
<1>4. TypeOK'
  <2>1. /\ pc' \in [Clients -> {"idle", "resolve", "judge", "record"}]
        /\ found' \in [Clients -> KeyRow \cup {None}]
    BY <1>1, <1>2 DEF IInv, TypeOK
  <2>2. \A d \in Clients : pc'[d] # "idle" <=> pc[d] # "idle"
    BY <1>1, <1>3
  <2> QED BY <1>1, <2>1, <2>2 DEF IInv, TypeOK
<1>5. LateIsLost'
  <2>1. late[c] = "full" => found'[c] = None
    BY <1>3 DEF IInv, LateIsLost, Revoked, Resolvable
  <2> QED BY <1>1, <1>3, <2>1 DEF IInv, LateIsLost, Revoked
<1>6. AllowlistBindsHost'
  BY <1>1, <1>3 DEF IInv, AllowlistBindsHost, IpAllowed
<1> QED BY <1>1, <1>4, <1>5, <1>6, ClientStep

\* Who is admitted has a row and an address that is on its allowlist.
LEMMA AdmitIInv ==
    ASSUME IInv, NEW c \in Clients, Admit(c)
    PROVE  IInv'
<1>1. /\ pc[c] = "judge" /\ pc' = [pc EXCEPT ![c] = "record"] /\ Admits(c)
      /\ keys' = keys /\ told' = told /\ admin' = admin /\ revocation' = revocation
      /\ call' = call /\ found' = found /\ late' = late
  BY DEF Admit, Goto
<1>2. pc'[c] = "record" /\ \A d \in Clients : d # c => pc'[d] = pc[d]
  BY <1>1 DEF IInv, TypeOK
<1>3. TypeOK'
  <2>1. pc' \in [Clients -> {"idle", "resolve", "judge", "record"}]
    BY <1>1 DEF IInv, TypeOK
  <2>2. \A d \in Clients : pc'[d] # "idle" <=> pc[d] # "idle"
    BY <1>1, <1>2
  <2> QED BY <1>1, <2>1, <2>2 DEF IInv, TypeOK
<1>4. LateIsLost'
  <2>1. late[c] # "full"
    BY <1>1 DEF IInv, LateIsLost, Admits
  <2> QED BY <1>1, <1>2, <2>1 DEF IInv, LateIsLost, Revoked
<1>5. AllowlistBindsHost'
  <2>1. IpAllowed(call[c].host, found[c].allowed)
    <3>1. call[c] \in Calls
      BY <1>1 DEF IInv, TypeOK
    <3> QED BY <1>1, <3>1, JudgedIsHost DEF Admits
  <2> QED BY <1>1, <1>2, <2>1 DEF IInv, AllowlistBindsHost, IpAllowed
<1> QED BY <1>1, <1>3, <1>4, <1>5, ClientStep

\* A request that is refused, recorded or cut off is over.
LEMMA FinishIInv ==
    ASSUME IInv, NEW c \in Clients, Finish(c)
    PROVE  IInv'
<1>1. /\ pc' = [pc EXCEPT ![c] = "idle"] /\ call' = [call EXCEPT ![c] = NoCall]
      /\ found' = [found EXCEPT ![c] = None] /\ late' = [late EXCEPT ![c] = "none"]
      /\ keys' = keys /\ told' = told /\ admin' = admin /\ revocation' = revocation
  BY DEF Finish
<1>2. /\ pc'[c] = "idle" /\ late'[c] = "none"
      /\ \A d \in Clients : d # c => /\ pc'[d] = pc[d] /\ call'[d] = call[d]
                                   /\ found'[d] = found[d] /\ late'[d] = late[d]
  BY <1>1 DEF IInv, TypeOK
<1>3. TypeOK'
  <2>1. /\ pc' \in [Clients -> {"idle", "resolve", "judge", "record"}]
        /\ call' \in [Clients -> Calls \cup {NoCall}]
        /\ found' \in [Clients -> KeyRow \cup {None}]
        /\ late' \in [Clients -> Revocations]
    BY <1>1 DEF IInv, TypeOK, Revocations
  <2>2. \A d \in Clients : pc'[d] # "idle" => call'[d] \in Calls
    BY <1>2 DEF IInv, TypeOK
  <2> QED BY <1>1, <2>1, <2>2 DEF IInv, TypeOK
<1>4. LateIsLost'
  BY <1>1, <1>2 DEF IInv, LateIsLost, Revoked
<1>5. AllowlistBindsHost'
  BY <1>1, <1>2 DEF IInv, AllowlistBindsHost, IpAllowed
<1> QED BY <1>1, <1>3, <1>4, <1>5, ClientStep

-----------------------------------------------------------------------------
\* Every step preserves the invariant.
LEMMA NextIInv == IInv /\ [Next]_vars => IInv'
<1> SUFFICES ASSUME IInv, [Next]_vars PROVE IInv'
  OBVIOUS
<1>1. CASE UNCHANGED vars
  <2>1. /\ keys' = keys /\ told' = told /\ admin' = admin /\ revocation' = revocation
        /\ pc' = pc /\ call' = call /\ found' = found /\ late' = late
    BY <1>1 DEF vars, client
  <2>2. TypeOK' /\ LateIsLost' /\ AllowlistBindsHost'
    BY <2>1 DEF IInv, TypeOK, LateIsLost, Revoked, AllowlistBindsHost, IpAllowed
  <2> QED BY <2>1, <2>2, ClientStep
<1>2. ASSUME NEW a \in Admins,
             \/ \E k \in Keys : BeginRevoke(a, k) \/ \E row \in KeyRow : BeginCreate(a, k, row)
             \/ UpdateKey(a) \/ LogAdmin(a) \/ AnswerAdmin(a)
             \/ CommitCreate(a) \/ CommitRevoke(a) \/ AbortAdmin(a)
      PROVE  IInv'
  BY <1>2, BeginRevokeIInv, BeginCreateIInv, UpdateKeyIInv, GoesOnIInv,
         CommitCreateIInv, CommitRevokeIInv, AbortAdminIInv
<1>3. ASSUME NEW c \in Clients,
             \/ \E q \in Calls : Present(c, q)
             \/ Resolve(c) \/ Refuse(c) \/ Admit(c) \/ Record(c) \/ AbortClient(c)
      PROVE  IInv'
  BY <1>3, PresentIInv, ResolveIInv, AdmitIInv, FinishIInv DEF Refuse, Record, AbortClient
<1> QED BY <1>1, <1>2, <1>3 DEF Next

\* The strengthened invariant holds in every reachable state.
THEOREM Invariance == Spec => []IInv
BY InitIInv, NextIInv, PTL DEF Spec

\* The variables keep their types.
THEOREM TypeCorrect == Spec => []TypeOK
<1>1. IInv => TypeOK
  BY DEF IInv
<1> QED BY <1>1, Invariance, PTL

\* A key with an allowlist admits only its hosts, with any number of forged
\* entries (main.py, api_key_principal; security.py, ip_allowed).
THEOREM OnlyListedHosts == Spec => []AllowlistBindsHost
<1>1. IInv => AllowlistBindsHost
  BY DEF IInv
<1> QED BY <1>1, Invariance, PTL

\* No request made after the commit of a revocation that was asked for when
\* its key was committed is admitted, whatever other administrators create and
\* revoke, before and after (main.py, revoke_api_key).
THEOREM RevocationIsFinal == Spec => []RevokedStaysRevoked
<1>1. IInv => RevokedStaysRevoked
  BY DEF IInv, LateIsLost, RevokedStaysRevoked
<1> QED BY <1>1, Invariance, PTL
=============================================================================
