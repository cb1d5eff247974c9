----------------------------- MODULE EventIngest -----------------------------
(* persist_raw_event (backend/app/event_persistence.py): the bytes of an   *)
(* event go to the raw store (backend/app/raw_store.py), then a reference  *)
(* and a normalised row go to PostgreSQL.  The store takes no part in the  *)
(* transaction: what is written there stays when the transaction ends      *)
(* badly, and is seen by everyone before it ends at all; and an upload to  *)
(* S3 runs in a thread, which goes on when the caller that awaits it has   *)
(* been cancelled, has timed out or has died.                              *)
(*                                                                         *)
(* One tenant.  The SHA-256 of some bytes is the bytes themselves here; an *)
(* event that claims the wrong digest or an identifier that makes no valid *)
(* URI is refused before anything is read and is left out.                 *)
EXTENDS Integers, FiniteSets

CONSTANTS
    Workers,     \* callers, each with a connection of its own
    Ids,         \* event_id
    Raws,        \* contents
    Observed,    \* observed_at: records with an instant, a day and a month
    Vault,       \* the quarantine directory, which has no dates in its paths
    None, Torn,  \* no object; an object truncated and not yet written
    LastMonth,   \* bound on the calendar
    MaxUploads,  \* bound on the uploads whose caller is gone
    PartitionJob \* does anything call ensure_event_partitions?

ASSUME IngestAssumption ==
    /\ LastMonth \in Nat /\ MaxUploads \in Nat
    /\ PartitionJob \in BOOLEAN
    /\ \A o \in Observed : o.month \in 0 .. LastMonth /\ o.day # Vault
    /\ \A o, p \in Observed : o.day = p.day => o.month = p.month
    /\ None \notin Raws /\ Torn \notin Raws /\ None # Torn

Events == [id : Ids, at : Observed, raw : Raws]
Places == {o.day : o \in Observed} \cup {Vault}
Uploads == [place : Places, id : Ids, raw : Raws]

\* No reference is no reference.
ASSUME ReferenceAssumption == None \notin [place : Places, sha : Raws]

VARIABLES
    month,      \* the current calendar month
    partitions, \* months that have a partition of events
    objects,    \* the raw store: contents at each place and event_id
    refs,       \* committed raw_event_refs: place and digest, by event_id
    events,     \* committed rows of events
    pc,
    event,      \* what the worker is persisting
    place,      \* where it has decided to keep the bytes
    rows,       \* the rows it has inserted and not committed
    uploads,    \* uploads still running whose caller is gone
    raced,      \* history: event_ids persisted by two workers at once
    strayed     \* history: event_ids delivered beside such an upload of them

tables == <<refs, events>>
local == <<event, place, rows>>
beside == <<uploads, raced, strayed>>
vars == <<month, partitions, objects, tables, pc, local, beside>>

-----------------------------------------------------------------------------
\* Migration 0001 creates the partition of the month it runs in.
Init ==
    /\ month = 0 /\ partitions = {0}
    /\ objects = [k \in Places \X Ids |-> None]
    /\ refs = [i \in Ids |-> None] /\ events = {}
    /\ pc = [w \in Workers |-> "idle"]
    /\ event = [w \in Workers |-> None]
    /\ place = [w \in Workers |-> None]
    /\ rows = [w \in Workers |-> {}]
    /\ uploads = {} /\ raced = {} /\ strayed = {}

Goto(w, from, to) == pc[w] = from /\ pc' = [pc EXCEPT ![w] = to]

End(w) ==
    /\ pc' = [pc EXCEPT ![w] = "idle"]
    /\ event' = [event EXCEPT ![w] = None]
    /\ place' = [place EXCEPT ![w] = None]
    /\ rows' = [rows EXCEPT ![w] = {}]

Begin(w, e) ==
    /\ Goto(w, "idle", "select")
    /\ event' = [event EXCEPT ![w] = e]
    /\ raced' = IF \E v \in Workers : pc[v] # "idle" /\ event[v].id = e.id
                THEN raced \cup {e.id} ELSE raced
    /\ strayed' = IF \E u \in uploads : u.id = e.id THEN strayed \cup {e.id} ELSE strayed
    /\ UNCHANGED <<month, partitions, objects, tables, place, rows, uploads>>

\* Faulty: an earlier reference is not looked for.
ExistingNever(w) == None

Existing(w) == refs[event[w].id]

\* The same event_id with other bytes: ValueError, and the caller rolls back.
Conflict(w) ==
    /\ pc[w] = "select" /\ Existing(w) # None /\ Existing(w).sha # event[w].raw
    /\ End(w)
    /\ UNCHANGED <<month, partitions, objects, tables, beside>>

Duplicate(w) ==
    /\ Goto(w, "select", "commit")
    /\ Existing(w) # None /\ Existing(w).sha = event[w].raw
    /\ UNCHANGED <<month, partitions, objects, tables, local, beside>>

\* observed_at_is_in_window: the current month and no other.
InWindow(at) == at.month = month

\* Faulty: bytes out of the window are given no place.
JudgePrimary(w) ==
    /\ Goto(w, "select", "put")
    /\ Existing(w) = None
    /\ place' = [place EXCEPT ![w] = IF InWindow(event[w].at) THEN event[w].at.day ELSE Torn]
    /\ UNCHANGED <<month, partitions, objects, tables, event, rows, beside>>

\* Faulty: the put is left to a background task.
JudgeNoPut(w) ==
    /\ Goto(w, "select", "insertRef")
    /\ Existing(w) = None
    /\ place' = [place EXCEPT ![w] = IF InWindow(event[w].at) THEN event[w].at.day ELSE Vault]
    /\ UNCHANGED <<month, partitions, objects, tables, event, rows, beside>>

Judge(w) ==
    /\ Goto(w, "select", "put")
    /\ Existing(w) = None
    /\ place' = [place EXCEPT ![w] = IF InWindow(event[w].at) THEN event[w].at.day ELSE Vault]
    /\ UNCHANGED <<month, partitions, objects, tables, event, rows, beside>>

Key(w) == <<place[w], event[w].id>>

\* write_bytes opens a file with truncation, and then writes.
Truncate(w) ==
    /\ Goto(w, "put", "write")
    /\ objects' = [objects EXCEPT ![Key(w)] = Torn]
    /\ UNCHANGED <<month, partitions, tables, local, beside>>

\* The bytes are there: after the truncation of a file, or in one step with the
\* S3 store.
Put(w) ==
    /\ pc[w] \in {"put", "write"}
    /\ pc' = [pc EXCEPT ![w] = "insertRef"]
    /\ objects' = [objects EXCEPT ![Key(w)] = event[w].raw]
    /\ UNCHANGED <<month, partitions, tables, local, beside>>

\* An insert waits for another transaction that holds the same unique key.
Waits(w, kind) ==
    \E v \in Workers \ {w} :
        /\ kind \in rows[v]
        /\ event[v].id = event[w].id
        /\ kind = "event" => event[v].at = event[w].at

\* ON CONFLICT (tenant_id, event_id) DO NOTHING
InsertRef(w) ==
    /\ Goto(w, "insertRef", IF place[w] = Vault THEN "commit" ELSE "insertEvent")
    /\ ~Waits(w, "ref")
    /\ rows' = [rows EXCEPT ![w] = IF Existing(w) = None THEN @ \cup {"ref"} ELSE @]
    /\ UNCHANGED <<month, partitions, objects, tables, event, place, beside>>

\* PRIMARY KEY (tenant_id, event_id, observed_at), PARTITION BY RANGE (observed_at)
Insertable(w) ==
    /\ event[w].at.month \in partitions
    /\ ~\E x \in events : x.id = event[w].id /\ x.at = event[w].at

InsertEvent(w) ==
    /\ Goto(w, "insertEvent", "commit")
    /\ ~Waits(w, "event")
    /\ Insertable(w)
    /\ rows' = [rows EXCEPT ![w] = @ \cup {"event"}]
    /\ UNCHANGED <<month, partitions, objects, tables, event, place, beside>>

\* Faulty: the failed insert is rolled back to a savepoint and forgotten.
InsertForgiven(w) ==
    /\ Goto(w, "insertEvent", "commit")
    /\ ~Waits(w, "event") /\ ~Insertable(w)
    /\ UNCHANGED <<month, partitions, objects, tables, local, beside>>

\* No partition for the row, or the key is taken: the caller rolls back.
InsertFails(w) ==
    /\ pc[w] = "insertEvent" /\ ~Waits(w, "event") /\ ~Insertable(w)
    /\ End(w)
    /\ UNCHANGED <<month, partitions, objects, tables, beside>>

Commit(w) ==
    LET e == event[w] IN
    /\ pc[w] = "commit"
    /\ refs' = IF "ref" \in rows[w] THEN [refs EXCEPT ![e.id] = [place |-> place[w], sha |-> e.raw]] ELSE refs
    /\ events' = IF "event" \in rows[w] THEN events \cup {e} ELSE events
    /\ End(w)
    /\ UNCHANGED <<month, partitions, objects, beside>>

\* The store or the database fails, or the worker dies.
Abort(w) ==
    /\ pc[w] # "idle"
    /\ End(w)
    /\ UNCHANGED <<month, partitions, objects, tables, beside>>

\* The await of an upload is cancelled, times out or dies with its worker; the
\* upload goes on.
Abandon(w) ==
    /\ pc[w] = "put" /\ place[w] # Vault
    /\ Cardinality(uploads) < MaxUploads
    /\ uploads' = uploads \cup {[place |-> place[w], id |-> event[w].id, raw |-> event[w].raw]}
    /\ End(w)
    /\ UNCHANGED <<month, partitions, objects, tables, raced, strayed>>

\* Its bytes arrive, more than once if the client sends them again.
Land(u) ==
    /\ objects' = [objects EXCEPT ![<<u.place, u.id>>] = u.raw]
    /\ UNCHANGED <<month, partitions, tables, pc, local, beside>>

\* It is over, whether or not its bytes have arrived.
Finish(u) ==
    /\ uploads' = uploads \ {u}
    /\ UNCHANGED <<month, partitions, objects, tables, pc, local, raced, strayed>>

NextMonth ==
    /\ month < LastMonth
    /\ month' = month + 1
    /\ UNCHANGED <<partitions, objects, tables, pc, local, beside>>

\* ensure_event_partitions(back_months=2, months_ahead=3)
EnsurePartitions ==
    /\ PartitionJob
    /\ partitions' = partitions \cup ((month - 2 .. month + 3) \cap 0 .. LastMonth)
    /\ UNCHANGED <<month, objects, tables, pc, local, beside>>

Step(w) ==
    \/ \E e \in Events : Begin(w, e)
    \/ Conflict(w) \/ Duplicate(w) \/ Judge(w)
    \/ Truncate(w) \/ Put(w)
    \/ InsertRef(w) \/ InsertEvent(w) \/ InsertFails(w)
    \/ Commit(w) \/ Abort(w) \/ Abandon(w)

Next ==
    \/ \E w \in Workers : Step(w)
    \/ \E u \in uploads : Land(u) \/ Finish(u)
    \/ NextMonth
    \/ EnsurePartitions

Spec == Init /\ [][Next]_vars

-----------------------------------------------------------------------------
Steps == {"idle", "select", "put", "write", "insertRef", "insertEvent", "commit"}

\* The type invariant of the module's variables.
TypeOK ==
    /\ month \in 0 .. LastMonth /\ partitions \subseteq 0 .. LastMonth
    /\ objects \in [Places \X Ids -> Raws \cup {None, Torn}]
    /\ refs \in [Ids -> [place : Places, sha : Raws] \cup {None}]
    /\ events \subseteq Events
    /\ pc \in [Workers -> Steps]
    /\ event \in [Workers -> Events \cup {None}]
    /\ place \in [Workers -> Places \cup {None}]
    /\ rows \in [Workers -> SUBSET {"ref", "event"}]
    /\ uploads \subseteq Uploads
    /\ raced \subseteq Ids /\ strayed \subseteq Ids

\* Whatever fails and whoever interferes, a committed reference or row never
\* names an object that was not stored: the put comes first and is awaited
\* (event_persistence.py, persist_raw_event).
NothingDangles ==
    /\ \A i \in Ids : refs[i] # None => objects[<<refs[i].place, i>>] # None
    /\ \A e \in events : objects[<<e.at.day, e.id>>] # None

\* A reference to the primary store is never committed without the row it is
\* for, with the same bytes and the same path: both inserts or neither.
ReferenceHasRow ==
    \A i \in Ids :
        refs[i] # None /\ refs[i].place # Vault =>
            \E e \in events : e.id = i /\ e.at.day = refs[i].place /\ e.raw = refs[i].sha

\* While no two workers persist one event_id at the same time, and none begins
\* to while an upload of it outlives its caller, the stored bytes have the
\* digest the reference and the row promise: redelivery, also with other bytes
\* or another time, never overwrites them, and neither does a retry after a
\* crash between the put and the commit or after a late upload has ended.
QuietProvenance ==
    \A i \in Ids \ (raced \cup strayed) :
        /\ refs[i] # None => objects[<<refs[i].place, i>>] = refs[i].sha
        /\ \A e \in events : e.id = i => objects[<<e.at.day, i>>] = e.raw

\* While no two workers persist one event_id at the same time, it has one row
\* or is in quarantine, never both and never two, whichever months its
\* deliveries claim, whichever month they arrive in and whatever uploads land.
QuietSingleRow ==
    \A i \in Ids \ raced :
        LET mine == {e \in events : e.id = i}
        IN  /\ Cardinality(mine) <= 1
            /\ refs[i] # None /\ refs[i].place = Vault => mine = {}

\* docs/database-schema.md:13: "every event therefore has retrievable raw
\* bytes and a provenance hash".
EventProvenance == \A e \in events : objects[<<e.at.day, e.id>>] = e.raw

\* docs/event-schema.md:22: "The ingestion path accepts only observations for
\* months with a guaranteed partition".
AcceptedHasPartition ==
    \A w \in Workers :
        pc[w] \in {"put", "write", "insertRef", "insertEvent"} /\ place[w] # Vault
            => event[w].at.month \in partitions
=============================================================================
