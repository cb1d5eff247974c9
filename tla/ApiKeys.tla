------------------------------- MODULE ApiKeys -------------------------------
(* API keys of one tenant (backend/app/main.py): an administrator creates  *)
(* and revokes them, clients present them to the events summary.           *)
(*                                                                         *)
(* A client's request is judged in one transaction and recorded in the     *)
(* audit log in another.  An administrator's transaction writes the key,   *)
(* then appends to the audit log under the tenant's lock, which it keeps   *)
(* to its end.  Its answer goes out before it commits, since               *)
(* tenant_session commits when the dependency is left.  Who may            *)
(* administrate is not modelled here, nor are a key whose secret is wrong  *)
(* and an address that does not parse.                                     *)
EXTENDS Integers, Sequences, SequencesExt

CONSTANTS
    Keys,
    Clients,    \* client requests in progress
    Admins,     \* administrator requests in progress
    Hosts,      \* addresses of clients
    Proxy,      \* address of the proxy, the one in settings.trusted_proxy
    None,
    MaxForged   \* bound on the entries a client puts into X-Forwarded-For

ASSUME KeysAssumption ==
    /\ MaxForged \in Nat
    /\ Proxy \notin Hosts /\ None \notin Hosts /\ None \notin Keys

Addresses == Hosts \cup {Proxy}

VARIABLES
    keys,       \* committed api_keys: scope, allowlist, whether revoked
    told,       \* ids whose creation was answered
    admin,      \* an administrator's transaction
    pc,
    call,       \* a client's request
    found,      \* what resolve_api_key returned for it
    revocation, \* history: the best revocation of a key committed so far
    late        \* history: that of its key when a client's request was made

\* A revocation is "full" if the key was committed when it was asked for, and
\* "early" if only the answer of its creation was there.
Revocations == {"none", "early", "full"}

client == <<pc, call, found, late>>
vars == <<keys, told, admin, revocation, client>>

NoCall == [key |-> None, host |-> None, proxied |-> FALSE, forged |-> <<>>]

\* An allowlist of NULL is None here; the empty one admits everyone too.
KeyRow == [reads : BOOLEAN, allowed : {None} \cup SUBSET Hosts, revoked : BOOLEAN]

\* hit: the revocation's UPDATE has found the key; known: the key was committed
\* when the revocation was asked for.
AdminJob == [op : {"none", "create", "revoke"}, key : Keys \cup {None}, row : KeyRow \cup {None},
             step : {"none", "update", "audit", "answer", "commit"},
             hit : BOOLEAN, known : BOOLEAN]

NoAdmin == [op |-> "none", key |-> None, row |-> None, step |-> "none",
            hit |-> FALSE, known |-> FALSE]

\* No row is no row.
ASSUME RowAssumption == None \notin KeyRow

Init ==
    /\ keys = [k \in Keys |-> None] /\ told = {}
    /\ admin = [a \in Admins |-> NoAdmin]
    /\ pc = [c \in Clients |-> "idle"]
    /\ call = [c \in Clients |-> NoCall]
    /\ found = [c \in Clients |-> None]
    /\ revocation = [k \in Keys |-> "none"]
    /\ late = [c \in Clients |-> "none"]

-----------------------------------------------------------------------------
(* create_api_key and revoke_api_key                                       *)

\* A new id, and the INSERT.
BeginCreate(a, k, row) ==
    /\ admin[a] = NoAdmin
    /\ k \notin told /\ \A b \in Admins : admin[b].op = "create" => admin[b].key # k
    /\ ~row.revoked
    /\ admin' = [admin EXCEPT ![a] = [NoAdmin EXCEPT !.op = "create", !.key = k, !.row = row,
                                                    !.step = "audit"]]
    /\ UNCHANGED <<keys, told, revocation, client>>

\* The id is known from the answer of its creation, whether that transaction
\* has committed, is about to or has failed since.
BeginRevoke(a, k) ==
    /\ admin[a] = NoAdmin
    /\ k \in told
    /\ admin' = [admin EXCEPT ![a] = [NoAdmin EXCEPT !.op = "revoke", !.key = k, !.step = "update",
                                                    !.known = keys[k] # None]]
    /\ UNCHANGED <<keys, told, revocation, client>>

\* The UPDATE sees what is committed now, once nobody else has the row; a key
\* that is not there it passes by, and says nothing of it.
UpdateKey(a) ==
    LET k == admin[a].key IN
    /\ admin[a].step = "update"
    /\ \A b \in Admins : ~(admin[b].hit /\ admin[b].key = k)
    /\ admin' = [admin EXCEPT ![a].step = "audit", ![a].hit = keys[k] # None]
    /\ UNCHANGED <<keys, told, revocation, client>>

\* The tenant's advisory lock, from append_audit to the end of a transaction.
AuditLocked == \E a \in Admins : admin[a].step \in {"answer", "commit"}

LogAdmin(a) ==
    /\ admin[a].step = "audit"
    /\ ~AuditLocked
    /\ admin' = [admin EXCEPT ![a].step = "answer"]
    /\ UNCHANGED <<keys, told, revocation, client>>

\* The answer, with the secret of a new key, is sent before the commit.
AnswerAdmin(a) ==
    /\ admin[a].step = "answer"
    /\ admin' = [admin EXCEPT ![a].step = "commit"]
    /\ told' = told \cup {admin[a].key}
    /\ UNCHANGED <<keys, revocation, client>>

CommitCreate(a) ==
    LET k == admin[a].key IN
    /\ admin[a].step = "commit" /\ admin[a].op = "create"
    /\ keys' = [keys EXCEPT ![k] = admin[a].row]
    /\ admin' = [admin EXCEPT ![a] = NoAdmin]
    /\ UNCHANGED <<told, revocation, client>>

\* What the UPDATE did not find is not revoked by the commit either.
CommitRevoke(a) ==
    LET k == admin[a].key IN
    /\ admin[a].step = "commit" /\ admin[a].op = "revoke"
    /\ keys' = IF admin[a].hit THEN [keys EXCEPT ![k].revoked = TRUE] ELSE keys
    /\ revocation' = [revocation EXCEPT ![k] = IF admin[a].known \/ @ = "full" THEN "full" ELSE "early"]
    /\ admin' = [admin EXCEPT ![a] = NoAdmin]
    /\ UNCHANGED <<told, client>>

\* The handler or the database fails, before or after the answer.
AbortAdmin(a) ==
    /\ admin[a] # NoAdmin
    /\ admin' = [admin EXCEPT ![a] = NoAdmin]
    /\ UNCHANGED <<keys, told, revocation, client>>

-----------------------------------------------------------------------------
(* api_key_principal and protected_event_summary                           *)
Goto(c, from, to) == pc[c] = from /\ pc' = [pc EXCEPT ![c] = to]

\* A client has the secret from the moment its key was answered, committed
\* or not.
Present(c, q) ==
    /\ Goto(c, "idle", "resolve")
    /\ q.key \in told
    /\ call' = [call EXCEPT ![c] = q]
    /\ late' = [late EXCEPT ![c] = revocation[q.key]]
    /\ UNCHANGED <<keys, told, admin, revocation, found>>

\* Faulty: the lookup does not ask for revoked_at IS NULL.
ResolvableEver(k) == keys[k] # None

\* resolve_api_key: prefix and digest match, AND revoked_at IS NULL
Resolvable(k) == keys[k] # None /\ ~keys[k].revoked

\* Faulty: the id of the key is kept in place of its row.
ResolveId(c) ==
    /\ Goto(c, "resolve", "judge")
    /\ found' = [found EXCEPT ![c] = IF Resolvable(call[c].key) THEN call[c].key ELSE None]
    /\ UNCHANGED <<keys, told, admin, revocation, call, late>>

Resolve(c) ==
    /\ Goto(c, "resolve", "judge")
    /\ found' = [found EXCEPT ![c] = IF Resolvable(call[c].key) THEN keys[call[c].key] ELSE None]
    /\ UNCHANGED <<keys, told, admin, revocation, call, late>>

\* The connection's other end, and X-Forwarded-For as it arrives: a proxy adds
\* the address that connected to it at the end of what the client sent.
Peer(c) == IF call[c].proxied THEN Proxy ELSE call[c].host

Forwarded(c) == IF call[c].proxied THEN Append(call[c].forged, call[c].host) ELSE call[c].forged

\* Faulty: the first entry, which the client has written, is the one believed.
JudgedFirst(c) ==
    IF Peer(c) = Proxy /\ Forwarded(c) # <<>> THEN Head(Forwarded(c)) ELSE Peer(c)

\* Only the trusted proxy's header counts, and of it only the last entry.
JudgedAddress(c) ==
    IF Peer(c) = Proxy /\ Forwarded(c) # <<>> THEN Last(Forwarded(c)) ELSE Peer(c)

IpAllowed(address, allowed) == allowed \notin {None, {}} => address \in allowed

Admits(c) ==
    /\ found[c] # None
    /\ IpAllowed(JudgedAddress(c), found[c].allowed)
    /\ found[c].reads

Finish(c) ==
    /\ pc' = [pc EXCEPT ![c] = "idle"]
    /\ call' = [call EXCEPT ![c] = NoCall]
    /\ found' = [found EXCEPT ![c] = None]
    /\ late' = [late EXCEPT ![c] = "none"]
    /\ UNCHANGED <<keys, told, admin, revocation>>

\* 401 without a usable key, 403 without the scope events:read
Refuse(c) == pc[c] = "judge" /\ ~Admits(c) /\ Finish(c)

Admit(c) ==
    /\ Goto(c, "judge", "record")
    /\ Admits(c)
    /\ UNCHANGED <<keys, told, admin, revocation, call, found, late>>

\* The second transaction: an audit entry, its commit, and the summary.
Record(c) == pc[c] = "record" /\ ~AuditLocked /\ Finish(c)

AbortClient(c) == pc[c] # "idle" /\ Finish(c)

Calls == [key : Keys, host : Hosts, proxied : BOOLEAN,
          forged : UNION {[1..n -> Addresses] : n \in 0..MaxForged}]

Next ==
    \/ \E a \in Admins :
          \/ \E k \in Keys : BeginRevoke(a, k) \/ \E row \in KeyRow : BeginCreate(a, k, row)
          \/ UpdateKey(a) \/ LogAdmin(a) \/ AnswerAdmin(a)
          \/ CommitCreate(a) \/ CommitRevoke(a) \/ AbortAdmin(a)
    \/ \E c \in Clients :
          \/ \E q \in Calls : Present(c, q)
          \/ Resolve(c) \/ Refuse(c) \/ Admit(c) \/ Record(c) \/ AbortClient(c)

Spec == Init /\ [][Next]_vars

-----------------------------------------------------------------------------
\* The type invariant of the module's variables.
TypeOK ==
    /\ keys \in [Keys -> KeyRow \cup {None}]
    /\ pc \in [Clients -> {"idle", "resolve", "judge", "record"}]
    /\ call \in [Clients -> Calls \cup {NoCall}]
    /\ \A c \in Clients : pc[c] # "idle" => call[c] \in Calls
    /\ found \in [Clients -> KeyRow \cup {None}]
    /\ late \in [Clients -> Revocations] /\ revocation \in [Keys -> Revocations]
    /\ told \subseteq Keys
    /\ admin \in [Admins -> AdminJob]

\* A key with an allowlist is only good from a host on it, whatever the client
\* writes into X-Forwarded-For and whether it comes through the proxy or past
\* it (main.py, api_key_principal; security.py, ip_allowed).
AllowlistBindsHost ==
    \A c \in Clients : pc[c] = "record" => IpAllowed(call[c].host, found[c].allowed)

\* A revocation that was asked for when its key was committed is final once it
\* is committed itself: no request made after that is admitted, whatever other
\* creations and revocations, older or newer, find or miss the row before they
\* wait for the audit lock and commit (main.py, revoke_api_key).
RevokedStaysRevoked == \A c \in Clients : late[c] = "full" => pc[c] # "record"

\* docs/threat-model.md:51: API keys "support rotation/revocation", and
\* tests/test_security_integration.py:486 expects "invalid API key" of a key
\* after its revocation: so after any that was asked for with the id that
\* create_api_key had answered.
RevocationHolds == \A c \in Clients : late[c] # "none" => pc[c] # "record"
=============================================================================
