----------------------------- MODULE AuditVerify -----------------------------
(* verify_audit_chain of backend/app/audit.py, run over a table that may   *)
(* have been changed behind the program's back: by a restore, a manual     *)
(* repair, an owner of the database.  Handlers append to the table as they *)
(* find it; in between, single fields of single rows change, rows vanish   *)
(* and rows appear.                                                        *)
(*                                                                         *)
(* The check reads every row of the tenant under the tenant's advisory     *)
(* lock, which appenders hold to their commit, so either is one step here. *)
(* Hashes are the sequences of bodies they commit to, as in AuditLog.      *)
EXTENDS Integers, Sequences, SequencesExt, FiniteSets

CONSTANTS
    Bodies,
    Ids,        \* primary keys; any that is free may be a new row's
    MaxDamage   \* changes made behind the program's back

ASSUME DamageAssumption == IsFiniteSet(Ids) /\ MaxDamage \in Nat

NoHash == <<>>

Digest(prev, body) == Append(prev, body)

VARIABLES
    entries,    \* the rows of the table, by id
    promised,   \* history: the table as the last append to one chain left it
    damage      \* how often the table was changed behind the program

vars == <<entries, promised, damage>>

EntryRow == [body : Bodies, prev : Seq(Bodies), hash : Seq(Bodies)]

\* Faulty: prev_hash is hashed twice, in the place of the entry's fields too.
RowForLink(prev, body) == [body |-> body, prev |-> prev, hash |-> Digest(prev, prev)]

\* The row append_audit writes behind a row with that hash.
RowFor(prev, body) == [body |-> body, prev |-> prev, hash |-> Digest(prev, body)]

-----------------------------------------------------------------------------
Roots(es) == {i \in DOMAIN es : es[i].prev = NoHash}

Successors(es, h) == {i \in DOMAIN es : es[i].prev = h}

\* The rows append_audit takes for the last one: no row follows them.
Tails(es) == {i \in DOMAIN es : Successors(es, es[i].hash) = {}}

\* What the check is for, said without a walk: the rows can be put in an order
\* in which each names the one before it and has the hash its fields give.
IsOneChain(es) ==
    \E order \in SetToSeqs(DOMAIN es) :
        \A k \in 1..Len(order) :
            /\ es[order[k]].prev = IF k = 1 THEN NoHash ELSE es[order[k - 1]].hash
            /\ es[order[k]].hash = Digest(es[order[k]].prev, es[order[k]].body)

-----------------------------------------------------------------------------
\* Faulty: the check leaves prev_hash out of what it hashes again.
RehashBare(row) == Digest(NoHash, row.body)

\* The hash the check computes again from the fields of a row.
Rehash(row) == Digest(row.prev, row.body)

\* What the loop keeps: the row it is at, the hash of the one before it and
\* the rows behind it.
LoopStates(es) ==
    [id : DOMAIN es,
     previous : {NoHash} \cup {es[i].hash : i \in DOMAIN es},
     visited : SUBSET DOMAIN es]

\* Faulty: the walk stops at the last successor without counting the rows.
RoundToEnd(es, s, rest) ==
    LET row == es[s.id]
        after == Successors(es, row.hash)
    IN  \/ s.id \in s.visited
        \/ /\ row.prev = s.previous
           /\ row.hash = Rehash(row)
           /\ Cardinality(after) <= 1
           /\ after # {} => rest[[id |-> CHOOSE n \in after : TRUE, previous |-> row.hash,
                                  visited |-> s.visited \cup {s.id}]]

\* Faulty: links are followed and hashes not computed again.
RoundLinks(es, s, rest) ==
    LET row == es[s.id]
        after == Successors(es, row.hash)
        seen == s.visited \cup {s.id}
    IN  IF s.id \in s.visited THEN s.visited = DOMAIN es
        ELSE /\ row.prev = s.previous
             /\ Cardinality(after) <= 1
             /\ IF after = {} THEN seen = DOMAIN es
                ELSE rest[[id |-> CHOOSE n \in after : TRUE, previous |-> row.hash,
                           visited |-> seen]]

\* One round of the loop and the count after it; rest has the verdict of the
\* rounds to come.
Round(es, s, rest) ==
    LET row == es[s.id]
        after == Successors(es, row.hash)
        seen == s.visited \cup {s.id}
    IN  IF s.id \in s.visited THEN s.visited = DOMAIN es
        ELSE /\ row.prev = s.previous
             /\ row.hash = Rehash(row)
             /\ Cardinality(after) <= 1
             /\ IF after = {} THEN seen = DOMAIN es
                ELSE rest[[id |-> CHOOSE n \in after : TRUE, previous |-> row.hash,
                           visited |-> seen]]

Walk(es) ==
    LET walk[s \in LoopStates(es)] == Round(es, s, walk)
    IN  walk

VerifyAuditChain(es) ==
    \/ DOMAIN es = {}
    \/ /\ Cardinality(Roots(es)) = 1
       /\ Walk(es)[[id |-> CHOOSE r \in Roots(es) : TRUE, previous |-> NoHash, visited |-> {}]]

-----------------------------------------------------------------------------
NoRows == [i \in {} |-> NoHash]

Init ==
    /\ entries = NoRows
    /\ promised = NoRows
    /\ damage = 0

Put(i, row) == entries' = [j \in DOMAIN entries \cup {i} |-> IF j = i THEN row ELSE entries[j]]

\* The hash append_audit links to: that of any row without a successor, NULL
\* when there is none.
TailHashes(es) == IF Tails(es) = {} THEN {NoHash} ELSE {es[i].hash : i \in Tails(es)}

\* A handler's append_audit, on the table as it finds it.
Write(i, b) ==
    /\ \E h \in TailHashes(entries) : Put(i, RowFor(h, b))
    /\ promised' = IF IsOneChain(entries) THEN entries' ELSE promised
    /\ UNCHANGED damage

Hashes == UNION {[1..n -> Bodies] : n \in 1..Cardinality(Ids)}

Damage ==
    /\ damage < MaxDamage
    /\ damage' = damage + 1
    /\ UNCHANGED promised

AlterBody(i, b) == Damage /\ entries' = [entries EXCEPT ![i].body = b]

AlterPrev(i, h) == Damage /\ entries' = [entries EXCEPT ![i].prev = h]

AlterHash(i, h) == Damage /\ entries' = [entries EXCEPT ![i].hash = h]

DropRow(i) == Damage /\ entries' = [j \in DOMAIN entries \ {i} |-> entries[j]]

\* A row made to look right by itself: its hash is the one its fields give.
Insert(i, h, b) == Damage /\ Put(i, RowFor(h, b))

Next ==
    \/ \E i \in Ids \ DOMAIN entries, b \in Bodies : Write(i, b)
    \/ \E i \in DOMAIN entries :
          \/ \E b \in Bodies : AlterBody(i, b)
          \/ \E h \in Hashes \cup {NoHash} : AlterPrev(i, h)
          \/ \E h \in Hashes : AlterHash(i, h)
          \/ DropRow(i)
    \/ \E i \in Ids \ DOMAIN entries, h \in Hashes \cup {NoHash}, b \in Bodies : Insert(i, h, b)

Spec == Init /\ [][Next]_vars

-----------------------------------------------------------------------------
\* The type invariant of the module's variables.
TypeOK ==
    /\ DOMAIN entries \subseteq Ids
    /\ \A i \in DOMAIN entries : entries[i] \in EntryRow
    /\ DOMAIN promised \subseteq Ids
    /\ \A i \in DOMAIN promised : promised[i] \in EntryRow
    /\ damage \in 0..MaxDamage

\* verify_audit_chain accepts a table exactly when its rows form one chain:
\* no damage makes it loop, follow the wrong branch or stop short.
VerdictIsRight == VerifyAuditChain(entries) <=> IsOneChain(entries)

\* The check never accuses a table that only append_audit has written: the two
\* agree on the last row, on an entry's place and on what its hash covers.
HonestIsAccepted == damage = 0 => VerifyAuditChain(entries)

Rows(es) == {es[i] : i \in DOMAIN es}

\* Who noted the hash that append_audit returned for the last entry of a chain
\* and finds it in a table that passes the check has lost none of the entries
\* up to it, whatever was changed, cut off and appended in between; if nothing
\* follows it, none was added either.
PinnedByTail ==
    VerifyAuditChain(entries) =>
        \A i \in DOMAIN entries, t \in Tails(promised) :
            entries[i].hash = promised[t].hash =>
                /\ Rows(promised) \subseteq Rows(entries)
                /\ i \in Tails(entries) => Rows(entries) = Rows(promised)
=============================================================================
